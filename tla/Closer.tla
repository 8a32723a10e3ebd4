------------------------------- MODULE Closer -------------------------------
(***************************************************************************)
(* The correlator: the worker that files normalized events into windows in *)
(* Redis (correlate.Worker, window.AddBatch) and the closers that claim    *)
(* windows past their deadline, resolve the id of each group and write the *)
(* records (correlate.Closer, window.Windows, CorrelatedRepo).             *)
(*                                                                         *)
(* Every round trip to Redis or to ClickHouse is a step, so two closers,   *)
(* the worker and the expiry of keys interleave between any two of them.   *)
(* Time is abstract: a scheduled window may be due at any moment, so an    *)
(* event filed after its window closed is a late arrival.                  *)
(***************************************************************************)
EXTENDS Grouping

CONSTANTS Closers,       \* correlation-closer goroutines, one per processor
          Limit,         \* windows one pass claims (window.DefaultBatch)
          FetchLimit,    \* bound: events in one fetch
          MaxFailures,   \* bound: failed calls and crashes
          Expires        \* which keys may reach their TTL while the system runs

ASSUME CloserAssumption ==
    /\ Limit \in Nat \ {0}
    /\ FetchLimit \in Nat \ {0}
    /\ MaxFailures \in Nat
    /\ Expires \subseteq {"members", "pending members", "identities"}

VARIABLES
    \* the worker, consuming the normalized topic
    filed,      \* events whose offset is committed
    batch,      \* events of the fetch being filed
    stage,      \* how far AddBatch has come with it
    \* Redis
    bucket,     \* bucket[k]: the members filed under key k
    schedule,   \* windows waiting to close
    identity,   \* identity[k]: the correlation id claimed under k, or Unclaimed
    \* ClickHouse
    table,      \* table[id]: the winning row of correlated_requests
    \* the closers
    pc,
    todo,       \* claimed windows not built yet
    found,      \* found[c][k]: members and exact partners of window k
    walked,     \* walked[c][k]: those whose identifiers have been followed
    groups,     \* groups of the window being built, not resolved yet
    known,      \* the id of the group being resolved, once it is found or claimed
    left,       \* identifiers that id is still to be published under
    draft,      \* emissions of the window being built
    out,        \* emissions of the tick
    old,        \* stored rows read for the emissions of the tick
    failures

worker == <<filed, batch, stage>>
redis == <<bucket, schedule, identity>>
closer == <<pc, todo, found, walked, groups, known, left, draft, out, old>>
vars == <<worker, redis, table, closer, failures>>

-----------------------------------------------------------------------------
ClosingKeys == {ClosingKey(e) : e \in Events}
BucketKeys == ClosingKeys \cup ExactKeys(Events)

(* The keys groups form on, and so every correlation id.                   *)
GroupKeys == BucketKeys \cup {NoKey}
Unclaimed == <<>>

NoRow == [events |-> {}, tier |-> "none", version |-> 0]
Rows == [events : SUBSET Events, tier : Tiers, version : Nat]
NoEmission == [events |-> {}, tier |-> "none"]
Emissions == [events : SUBSET Events, tier : Tiers]
NoEmissions == [id \in GroupKeys |-> NoEmission]
Group == [key : GroupKeys, tier : Tiers, members : SUBSET Events]
Steps == {"idle", "reading", "walking", "building", "resolving", "claiming",
          "publishing", "versioning", "inserting"}

TypeOK ==
    /\ filed \subseteq Events /\ batch \subseteq Events
    /\ stage \in {"idle", "pushed", "scheduled"}
    /\ bucket \in [BucketKeys -> SUBSET Events]
    /\ schedule \subseteq ClosingKeys
    /\ identity \in [GroupKeys -> GroupKeys \cup {Unclaimed}]
    /\ table \in [GroupKeys -> Rows]
    /\ pc \in [Closers -> Steps]
    /\ todo \in [Closers -> SUBSET ClosingKeys]
    /\ found \in [Closers -> [ClosingKeys -> SUBSET Events]]
    /\ walked \in [Closers -> [ClosingKeys -> SUBSET Events]]
    /\ groups \in [Closers -> SUBSET Group]
    /\ known \in [Closers -> GroupKeys \cup {Unclaimed}]
    /\ left \in [Closers -> SUBSET UNION {IdsOf[e] : e \in Events}]
    /\ draft \in [Closers -> [GroupKeys -> Emissions]]
    /\ out \in [Closers -> [GroupKeys -> Emissions]]
    /\ old \in [Closers -> [GroupKeys -> Rows]]
    /\ failures \in 0..MaxFailures

Nothing == [k \in ClosingKeys |-> {}]

Init ==
    /\ filed = {} /\ batch = {} /\ stage = "idle"
    /\ bucket = [k \in BucketKeys |-> {}]
    /\ schedule = {}
    /\ identity = [k \in GroupKeys |-> Unclaimed]
    /\ table = [id \in GroupKeys |-> NoRow]
    /\ pc = [c \in Closers |-> "idle"]
    /\ todo = [c \in Closers |-> {}]
    /\ found = [c \in Closers |-> Nothing]
    /\ walked = [c \in Closers |-> Nothing]
    /\ groups = [c \in Closers |-> {}]
    /\ known = [c \in Closers |-> Unclaimed]
    /\ left = [c \in Closers |-> {}]
    /\ draft = [c \in Closers |-> NoEmissions]
    /\ out = [c \in Closers |-> NoEmissions]
    /\ old = [c \in Closers |-> [id \in GroupKeys |-> NoRow]]
    /\ failures = 0

Fail == failures < MaxFailures /\ failures' = failures + 1

-----------------------------------------------------------------------------
(* The worker.  HandleBatch files a fetch in two pipelined calls; offsets  *)
(* are committed after it, so whatever fails on the way is fetched again.  *)

(* writesFor: a lookup bucket per identifier, and the window that closes.  *)
Writes(E) == {w \in BucketKeys \X E : w[1] = ClosingKey(w[2]) \/ w[1] \in ExactKeys({w[2]})}

(* RPUSH; Members collapses a redelivered event by its id.                 *)
Pushed(writes) == [k \in BucketKeys |-> bucket[k] \cup {w[2] : w \in {x \in writes : x[1] = k}}]

PushMembers ==
    /\ stage = "idle"
    /\ \E E \in SUBSET (Events \ filed) :
           /\ E # {} /\ Cardinality(E) <= FetchLimit
           /\ batch' = E
           /\ bucket' = Pushed(Writes(E))
    /\ stage' = "pushed"
    /\ UNCHANGED <<filed, schedule, identity, table, closer, failures>>

(* RPushMany writes in chunks: a failure leaves any part of them.          *)
PushFails ==
    /\ stage = "idle"
    /\ \E E \in SUBSET (Events \ filed) :
           /\ E # {} /\ Cardinality(E) <= FetchLimit
           /\ \E part \in SUBSET Writes(E) : bucket' = Pushed(part)
    /\ Fail
    /\ UNCHANGED <<worker, schedule, identity, table, closer>>

(* Only the closing windows are scheduled, never the lookup buckets.       *)
ScheduleWindows ==
    /\ stage = "pushed"
    /\ schedule' = schedule \cup {ClosingKey(e) : e \in batch}
    /\ stage' = "scheduled"
    /\ UNCHANGED <<filed, batch, bucket, identity, table, closer, failures>>

ScheduleFails ==
    /\ stage = "pushed"
    /\ \E part \in SUBSET {ClosingKey(e) : e \in batch} : schedule' = schedule \cup part
    /\ stage' = "idle" /\ batch' = {}
    /\ Fail
    /\ UNCHANGED <<filed, bucket, identity, table, closer>>

CommitOffsets ==
    /\ stage = "scheduled"
    /\ filed' = filed \cup batch
    /\ stage' = "idle" /\ batch' = {}
    /\ UNCHANGED <<redis, table, closer, failures>>

(* The worker dies before the commit.                                      *)
WorkerCrash ==
    /\ stage # "idle"
    /\ stage' = "idle" /\ batch' = {}
    /\ Fail
    /\ UNCHANGED <<filed, redis, table, closer>>

-----------------------------------------------------------------------------
(* A closer.                                                               *)

Goto(c, step) == pc' = [pc EXCEPT ![c] = step]

Emitted(c) == {id \in GroupKeys : out[c][id] # NoEmission}

AfterPasses(c) == IF Emitted(c) = {} THEN "idle" ELSE "versioning"

(* A mistake to detect: what is due leaves the schedule, claimed or not.   *)
ClaimDropsRest(c) ==
    /\ pc[c] \in {"idle", "building"}
    /\ todo[c] = {}
    /\ \E D \in SUBSET schedule :
           /\ D # {} /\ Cardinality(D) <= Limit
           /\ schedule' = {}
           /\ todo' = [todo EXCEPT ![c] = D]
    /\ Goto(c, "reading")
    /\ UNCHANGED <<worker, bucket, identity, table, found, walked, groups, known, left, draft, out,
                   old, failures>>

(* Due: ZPopDue removes what it returns, in one atomic call.  A tick claims*)
(* again while its batches come back full, before it writes anything; which*)
(* windows are due, and so whether a batch is full, is left open.          *)
Claim(c) ==
    /\ pc[c] \in {"idle", "building"}
    /\ todo[c] = {}
    /\ \E D \in SUBSET schedule :
           /\ D # {} /\ Cardinality(D) <= Limit
           /\ schedule' = schedule \ D
           /\ todo' = [todo EXCEPT ![c] = D]
    /\ Goto(c, "reading")
    /\ UNCHANGED <<worker, bucket, identity, table, found, walked, groups, known, left, draft, out, old,
                   failures>>

(* membersForBatch                                                         *)
ReadMembers(c) ==
    /\ pc[c] = "reading"
    /\ found' = [found EXCEPT ![c] = [k \in ClosingKeys |-> IF k \in todo[c] THEN bucket[k] ELSE {}]]
    /\ Goto(c, "walking")
    /\ UNCHANGED <<worker, redis, table, todo, walked, groups, known, left, draft, out, old, failures>>

(* The buckets window k still wants: nextIdentifiers.                      *)
Wanted(c, k) == ExactKeys(found[c][k]) \ ExactKeys(walked[c][k])

(* expandExactPartners: one level for every claimed window at once.        *)
Walk(c) ==
    /\ pc[c] = "walking"
    /\ \E k \in todo[c] : Wanted(c, k) # {}
    /\ found' = [found EXCEPT ![c] =
                    [k \in ClosingKeys |-> @[k] \cup UNION {bucket[i] : i \in Wanted(c, k)}]]
    /\ walked' = [walked EXCEPT ![c] = found[c]]
    /\ UNCHANGED <<worker, redis, table, pc, todo, groups, known, left, draft, out, old, failures>>

WalkDone(c) ==
    /\ pc[c] = "walking"
    /\ \A k \in todo[c] : Wanted(c, k) = {}
    /\ walked' = [walked EXCEPT ![c] = Nothing]
    /\ Goto(c, "building")
    /\ UNCHANGED <<worker, redis, table, todo, found, groups, known, left, draft, out, old, failures>>

(* The read of a pass failed.  Its windows are off the schedule already;   *)
(* the tick writes what earlier passes gathered.                           *)
ReadFails(c) ==
    /\ pc[c] \in {"reading", "walking"}
    /\ todo' = [todo EXCEPT ![c] = {}]
    /\ found' = [found EXCEPT ![c] = Nothing]
    /\ walked' = [walked EXCEPT ![c] = Nothing]
    /\ Goto(c, AfterPasses(c))
    /\ Fail
    /\ UNCHANGED <<worker, redis, table, groups, known, left, draft, out, old>>

(* build: group.Batch of one claimed window.  One without members has      *)
(* outlived its state; nothing is emitted for it.                          *)
Build(c) ==
    /\ pc[c] = "building"
    /\ \E k \in todo[c] :
           /\ todo' = [todo EXCEPT ![c] = @ \ {k}]
           /\ groups' = [groups EXCEPT ![c] = Groups(found[c][k])]
           /\ found' = [found EXCEPT ![c][k] = {}]
    /\ Goto(c, "resolving")
    /\ UNCHANGED <<worker, redis, table, walked, known, left, draft, out, old, failures>>

(* The group in hand: materialize takes them one after the other.          *)
Current(c) == CHOOSE g \in groups[c] : TRUE

(* existingIdentity: the first identifier, in order, that holds a claim.   *)
FirstClaim(g) ==
    LET claimed == {i \in GroupIds(g) : identity[ExactKey(i)] # Unclaimed}
    IN  IF claimed = {} THEN Unclaimed ELSE identity[ExactKey(Smallest(claimed))]

LookUp(c) ==
    /\ pc[c] = "resolving"
    /\ groups[c] # {}
    /\ known' = [known EXCEPT ![c] = FirstClaim(Current(c))]
    /\ Goto(c, "claiming")
    /\ UNCHANGED <<worker, redis, table, todo, found, walked, groups, left, draft, out, old, failures>>

(* Identity: SETNX under the group's key, then whatever is stored there.   *)
(* An id that was found is settled already.                                *)
Settle(c) ==
    /\ pc[c] = "claiming"
    /\ LET g == Current(c)
       IN  /\ IF known[c] = Unclaimed
              THEN /\ identity' = [identity EXCEPT ![g.key] = IF @ = Unclaimed THEN g.key ELSE @]
                   /\ known' = [known EXCEPT ![c] = identity'[g.key]]
              ELSE UNCHANGED <<identity, known>>
           /\ left' = [left EXCEPT ![c] = GroupIds(g)]
    /\ Goto(c, "publishing")
    /\ UNCHANGED <<worker, bucket, schedule, table, todo, found, walked, groups, draft, out, old,
                   failures>>

(* A mistake to detect: SET instead of SETNX.                              *)
PublishOverwrites(c) ==
    /\ pc[c] = "publishing"
    /\ left[c] # {}
    /\ LET i == Smallest(left[c])
       IN  /\ identity' = [identity EXCEPT ![ExactKey(i)] = known[c]]
           /\ left' = [left EXCEPT ![c] = @ \ {i}]
    /\ UNCHANGED <<worker, bucket, schedule, table, pc, todo, found, walked, groups, known, draft,
                   out, old, failures>>

(* IdentityForAny publishes the id under every identifier, one SETNX each. *)
Publish(c) ==
    /\ pc[c] = "publishing"
    /\ left[c] # {}
    /\ LET i == Smallest(left[c])
       IN  /\ identity' = [identity EXCEPT ![ExactKey(i)] = IF @ = Unclaimed THEN known[c] ELSE @]
           /\ left' = [left EXCEPT ![c] = @ \ {i}]
    /\ UNCHANGED <<worker, bucket, schedule, table, pc, todo, found, walked, groups, known, draft,
                   out, old, failures>>

(* materialize: the record joins the window's emissions.                   *)
Materialize(c) ==
    /\ pc[c] = "publishing"
    /\ left[c] = {}
    /\ LET g == Current(c)
       IN  /\ draft' = [draft EXCEPT ![c][known[c]] = [events |-> g.members, tier |-> g.tier]]
           /\ groups' = [groups EXCEPT ![c] = @ \ {g}]
    /\ known' = [known EXCEPT ![c] = Unclaimed]
    /\ Goto(c, "resolving")
    /\ UNCHANGED <<worker, redis, table, todo, found, walked, left, out, old, failures>>

(* A failed identity call gives the whole window up, but not what it had   *)
(* claimed by then.                                                        *)
ResolveFails(c) ==
    /\ pc[c] \in {"resolving", "claiming", "publishing"}
    /\ groups[c] # {}
    /\ groups' = [groups EXCEPT ![c] = {}]
    /\ draft' = [draft EXCEPT ![c] = NoEmissions]
    /\ known' = [known EXCEPT ![c] = Unclaimed]
    /\ left' = [left EXCEPT ![c] = {}]
    /\ Goto(c, "building")
    /\ Fail
    /\ UNCHANGED <<worker, redis, table, todo, found, walked, out, old>>

(* The window is built: its emissions join those of the tick.  All of a    *)
(* tick's emissions under one id will carry one version, and of rows with  *)
(* one key and one version the engine keeps the last.                      *)
WindowDone(c) ==
    /\ pc[c] = "resolving"
    /\ groups[c] = {}
    /\ out' = [out EXCEPT ![c] =
                  [id \in GroupKeys |-> IF draft[c][id] = NoEmission THEN @[id] ELSE draft[c][id]]]
    /\ draft' = [draft EXCEPT ![c] = NoEmissions]
    /\ Goto(c, "building")
    /\ UNCHANGED <<worker, redis, table, todo, found, walked, groups, known, left, old, failures>>

(* The tick is over.                                                       *)
EndTick(c) ==
    /\ pc[c] = "building"
    /\ todo[c] = {}
    /\ Goto(c, AfterPasses(c))
    /\ UNCHANGED <<worker, redis, table, todo, found, walked, groups, known, left, draft, out, old, failures>>

(* versionsOf and storedFor: what the table holds under the emitted ids.   *)
ReadStored(c) ==
    /\ pc[c] = "versioning"
    /\ old' = [old EXCEPT ![c] = [id \in GroupKeys |-> IF id \in Emitted(c) THEN table[id] ELSE NoRow]]
    /\ Goto(c, "inserting")
    /\ UNCHANGED <<worker, redis, table, todo, found, walked, groups, known, left, draft, out, failures>>

(* mergeRecords: the events of both, and the stronger join.                *)
Merge(stored, fresh) ==
    [events |-> stored.events \cup fresh.events,
     tier |-> IF TierRank[stored.tier] > TierRank[fresh.tier] THEN stored.tier ELSE fresh.tier]

(* A mistake to detect: the amendment is the window's emission alone.      *)
VersionedReplaced(stored, fresh) ==
    [events |-> fresh.events, tier |-> fresh.tier, version |-> stored.version + 1]

(* versioned: an existing record is merged and goes one version up.        *)
Versioned(stored, fresh) ==
    LET record == Merge(stored, fresh)
    IN  [events |-> record.events, tier |-> record.tier, version |-> stored.version + 1]

Insert(c) ==
    /\ pc[c] = "inserting"
    /\ table' = [id \in GroupKeys |->
           LET row == Versioned(old[c][id], out[c][id])
           IN  IF id \in Emitted(c) /\ row.version >= table[id].version THEN row ELSE table[id]]
    /\ out' = [out EXCEPT ![c] = NoEmissions]
    /\ old' = [old EXCEPT ![c] = [id \in GroupKeys |-> NoRow]]
    /\ Goto(c, "idle")
    /\ UNCHANGED <<worker, redis, todo, found, walked, groups, known, left, draft, failures>>

(* A failed read or write of the table drops the tick's emissions.         *)
InsertFails(c) ==
    /\ pc[c] \in {"versioning", "inserting"}
    /\ out' = [out EXCEPT ![c] = NoEmissions]
    /\ old' = [old EXCEPT ![c] = [id \in GroupKeys |-> NoRow]]
    /\ Goto(c, "idle")
    /\ Fail
    /\ UNCHANGED <<worker, redis, table, todo, found, walked, groups, known, left, draft>>

(* The processor dies; what it had claimed is neither in Redis' schedule   *)
(* nor in the table.                                                       *)
CloserCrash(c) ==
    /\ pc[c] # "idle"
    /\ todo' = [todo EXCEPT ![c] = {}]
    /\ found' = [found EXCEPT ![c] = Nothing]
    /\ walked' = [walked EXCEPT ![c] = Nothing]
    /\ groups' = [groups EXCEPT ![c] = {}]
    /\ known' = [known EXCEPT ![c] = Unclaimed]
    /\ left' = [left EXCEPT ![c] = {}]
    /\ draft' = [draft EXCEPT ![c] = NoEmissions]
    /\ out' = [out EXCEPT ![c] = NoEmissions]
    /\ old' = [old EXCEPT ![c] = [id \in GroupKeys |-> NoRow]]
    /\ Goto(c, "idle")
    /\ Fail
    /\ UNCHANGED <<worker, redis, table>>

-----------------------------------------------------------------------------
(* Expiry.  Members outlive their window by the lateness bound, so while   *)
(* the closers keep up only those run out that no tick has in hand and no  *)
(* window is waiting to be built from; an identity's TTL runs from its     *)
(* first claim.                                                            *)

InHand(c) == UNION {found[c][k] : k \in ClosingKeys} \cup UNION {g.members : g \in groups[c]}
             \cup UNION {draft[c][id].events \cup out[c][id].events : id \in GroupKeys}

Pending(e) ==
    \/ e \in batch \/ ClosingKey(e) \in schedule
    \/ \E c \in Closers : ClosingKey(e) \in todo[c] \/ e \in InHand(c)

ExpireMembers(k) ==
    /\ "members" \in Expires
    /\ bucket[k] # {}
    /\ "pending members" \in Expires \/ \A e \in bucket[k] : ~Pending(e)
    /\ bucket' = [bucket EXCEPT ![k] = {}]
    /\ UNCHANGED <<worker, schedule, identity, table, closer, failures>>

ExpireIdentity(k) ==
    /\ "identities" \in Expires
    /\ identity[k] # Unclaimed
    /\ identity' = [identity EXCEPT ![k] = Unclaimed]
    /\ UNCHANGED <<worker, bucket, schedule, table, closer, failures>>

-----------------------------------------------------------------------------
Worker == PushMembers \/ ScheduleWindows \/ CommitOffsets

WorkerFailure == PushFails \/ ScheduleFails \/ WorkerCrash

Tick(c) ==
    \/ Claim(c) \/ ReadMembers(c) \/ Walk(c) \/ WalkDone(c)
    \/ Build(c) \/ LookUp(c) \/ Settle(c) \/ Publish(c) \/ Materialize(c) \/ WindowDone(c)
    \/ EndTick(c) \/ ReadStored(c) \/ Insert(c)

TickFailure(c) == ReadFails(c) \/ ResolveFails(c) \/ InsertFails(c) \/ CloserCrash(c)

Expiry == \/ \E k \in BucketKeys : ExpireMembers(k)
          \/ \E k \in GroupKeys : ExpireIdentity(k)

Next ==
    \/ Worker \/ WorkerFailure
    \/ \E c \in Closers : Tick(c) \/ TickFailure(c)
    \/ Expiry

Spec == Init /\ [][Next]_vars

(* Both loops run for as long as the processor does.                       *)
FairSpec == Spec /\ WF_vars(Worker) /\ \A c \in Closers : WF_vars(Tick(c))

-----------------------------------------------------------------------------
(* A record is one request.  Its events are connected through identifiers,*)
(* or it was joined by shape and all of them have one shape and lie in two *)
(* neighbouring windows.  Ids are claimed under many keys and found through*)
(* any of them by concurrent closers: one claim under a key the group does *)
(* not own would "alias unrelated requests onto one record" (group.go).    *)
(* The empty key is left out: every event without address and host has it. *)
Joined(tier, e, f) ==
    \/ f \in Component(Events, e)
    \/ /\ tier = "heuristic"
       /\ Shaped(e) /\ ShapeOf[e] = ShapeOf[f]
       /\ WindowOf(e) <= WindowOf(f) + 1 /\ WindowOf(f) <= WindowOf(e) + 1

NoFalseJoin ==
    \A id \in GroupKeys \ {NoKey} :
        \A e, f \in table[id].events : Joined(table[id].tier, e, f)

(* An amendment adds to a record and never takes an event out of it, even  *)
(* when the window it was built from has lost its members since (merge.go: *)
(* "Merging makes a late arrival ADDITIVE at any delay").                  *)
AmendmentsAdd ==
    [][\A id \in GroupKeys : table[id].events \subseteq table'[id].events]_table

(* While no identity expires, every record can be found by the next group  *)
(* that belongs to it: its id is claimed under a key of its own events.    *)
RecordsStayFindable ==
    \A id \in GroupKeys :
        table[id].events # {} =>
            \/ identity[id] = id
            \/ \E k \in ExactKeys(table[id].events) : identity[k] = id

(* An event is counted in one request only: a late partner amends the      *)
(* record that holds it instead of starting another (FR-018).              *)
OneRecordPerEvent ==
    \A i, j \in GroupKeys : table[i].events \cap table[j].events # {} => i = j

(* When nothing fails and the closers keep up, every event that was filed  *)
(* ends up in a record, whichever window, pass or closer it falls to.      *)
EveryEventRecorded ==
    \A e \in Events : <>[](\E id \in GroupKeys : e \in table[id].events)
=============================================================================
