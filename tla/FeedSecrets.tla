----------------------------- MODULE FeedSecrets -----------------------------
(***************************************************************************)
(* The credential of a feed: a reference in the feed's row (service/feeds) *)
(* and the secret behind it, sealed in ClickHouse and cached in Redis      *)
(* (secrets.Tiered).  Operators rotate, edit and remove the feed while     *)
(* ingest processes resolve its credential for every delivery and Redis,   *)
(* which persists nothing, may restart.                                    *)
(*                                                                         *)
(* One feed; a signing secret is stored, rotated and revoked the same way. *)
(* The first reference may date from before there was a durable copy.      *)
(***************************************************************************)
EXTENDS Naturals, FiniteSets

CONSTANTS Operators,     \* console requests in flight
          Receivers,     \* ingest processes, one delivery each
          MaxRefs,       \* bound: references minted
          MaxChanges,    \* bound: console requests
          MaxRestarts,   \* bound: restarts of Redis
          MaxFaults      \* bound: failed calls and crashes

VARIABLES
    row,         \* the feed's row
    revoked,     \* the credential was revoked with its feed
    astray,      \* the row kept a reference a rotation had revoked, or was
                 \* given one another request had replaced
    sealed,      \* the durable copies
    cache,       \* references Redis holds a secret for
    minted,      \* references handed out
    changes,
    \* console requests
    job, at, current, fresh,
    \* deliveries
    step, ref,
    backfilled,  \* references a process takes to be durable
    restarts, faults

console == <<job, at, current, fresh>>
ingest == <<step, ref, backfilled>>
vars == <<row, revoked, astray, sealed, cache, minted, changes, console, ingest, restarts, faults>>

-----------------------------------------------------------------------------
Refs == 1..MaxRefs

Row == [ref : Refs, enabled : BOOLEAN]

TypeOK ==
    /\ row \in Row /\ revoked \in BOOLEAN /\ astray \in BOOLEAN
    /\ sealed \in [Refs -> {"absent", "live", "deleted"}]
    /\ cache \subseteq Refs /\ minted \in Refs /\ changes \in 0..MaxChanges
    /\ job \in [Operators -> {"none", "rotate", "edit", "enable", "delete"}]
    /\ at \in [Operators -> {"idle", "put", "cache", "tombstone", "uncache", "write"}]
    /\ current \in [Operators -> 0..MaxRefs] /\ fresh \in [Operators -> 0..MaxRefs]
    /\ step \in [Receivers -> {"idle", "cache", "check", "backfill", "durable", "refill"}]
    /\ ref \in [Receivers -> 0..MaxRefs]
    /\ backfilled \in [Receivers -> SUBSET Refs]
    /\ restarts \in 0..MaxRestarts /\ faults \in 0..MaxFaults

Init ==
    /\ row = [ref |-> 1, enabled |-> TRUE] /\ revoked = FALSE /\ astray = FALSE
    /\ sealed \in {[r \in Refs |-> IF r = 1 THEN first ELSE "absent"] : first \in {"absent", "live"}}
    /\ cache = {1} /\ minted = 1 /\ changes = 0
    /\ job = [o \in Operators |-> "none"]
    /\ at = [o \in Operators |-> "idle"]
    /\ current = [o \in Operators |-> 0]
    /\ fresh = [o \in Operators |-> 0]
    /\ step = [i \in Receivers |-> "idle"]
    /\ ref = [i \in Receivers |-> 0]
    /\ backfilled = [i \in Receivers |-> {}]
    /\ restarts = 0 /\ faults = 0

Fault == faults < MaxFaults /\ faults' = faults + 1

Go(o, where) == at' = [at EXCEPT ![o] = where]

Answer(o) ==
    /\ Go(o, "idle")
    /\ job' = [job EXCEPT ![o] = "none"]
    /\ current' = [current EXCEPT ![o] = 0]
    /\ fresh' = [fresh EXCEPT ![o] = 0]

Unsealed(r) == sealed' = [sealed EXCEPT ![r] = "deleted"]

-----------------------------------------------------------------------------
(* FeedsService.UpdateFeed and DeleteFeed.                                 *)

(* The row as it is read before it is locked.                              *)
Request(o, j) ==
    /\ at[o] = "idle" /\ changes < MaxChanges
    /\ j = "rotate" => minted < MaxRefs
    /\ changes' = changes + 1
    /\ job' = [job EXCEPT ![o] = j]
    /\ current' = [current EXCEPT ![o] = row.ref]
    /\ IF j = "rotate"
       THEN /\ minted' = minted + 1
            /\ fresh' = [fresh EXCEPT ![o] = minted + 1]
            /\ Go(o, "put")
       ELSE /\ fresh' = [fresh EXCEPT ![o] = row.ref]
            /\ Go(o, "write")
            /\ UNCHANGED minted
    /\ UNCHANGED <<row, revoked, astray, sealed, cache, ingest, restarts, faults>>

(* A mistake to detect: the cache is all that is written.                  *)
PutCacheOnly(o) ==
    /\ at[o] = "put"
    /\ Go(o, "cache")
    /\ UNCHANGED <<row, revoked, astray, sealed, cache, minted, changes, job, current, fresh, ingest, restarts, faults>>

(* Tiered.Put: the durable copy first.                                     *)
PutDurable(o) ==
    /\ at[o] = "put"
    /\ sealed' = [sealed EXCEPT ![fresh[o]] = "live"]
    /\ Go(o, "cache")
    /\ UNCHANGED <<row, revoked, astray, cache, minted, changes, job, current, fresh, ingest, restarts, faults>>

PutFails(o) ==
    /\ at[o] = "put" /\ Fault
    /\ sealed' \in {sealed, [sealed EXCEPT ![fresh[o]] = "live"]}
    /\ Answer(o)
    /\ UNCHANGED <<row, revoked, astray, cache, minted, changes, ingest, restarts>>

PutCache(o) ==
    /\ at[o] = "cache"
    /\ \/ cache' = cache \cup {fresh[o]} /\ UNCHANGED faults
       \/ cache' = cache /\ Fault
    /\ Go(o, "tombstone")
    /\ UNCHANGED <<row, revoked, astray, sealed, minted, changes, job, current, fresh, ingest, restarts>>

(* Tiered.Delete; whoever calls it goes on whatever it answers.            *)
AfterDelete(o) == IF job[o] = "rotate" THEN Go(o, "write") /\ UNCHANGED <<job, current, fresh>> ELSE Answer(o)

Tombstone(o) ==
    /\ at[o] = "tombstone"
    /\ Unsealed(current[o])
    /\ Go(o, "uncache")
    /\ UNCHANGED <<row, revoked, astray, cache, minted, changes, job, current, fresh, ingest, restarts, faults>>

TombstoneFails(o) ==
    /\ at[o] = "tombstone" /\ Fault
    /\ \/ UNCHANGED sealed
       \/ Unsealed(current[o])
    /\ AfterDelete(o)
    /\ UNCHANGED <<row, revoked, astray, cache, minted, changes, ingest, restarts>>

Uncache(o) ==
    /\ at[o] = "uncache"
    /\ \/ cache' = cache \ {current[o]} /\ UNCHANGED faults
       \/ cache' = cache /\ Fault
    /\ AfterDelete(o)
    /\ UNCHANGED <<row, revoked, astray, sealed, minted, changes, ingest, restarts>>

(* FeedRepo.Update: under its lock the row is read again, but an update    *)
(* brings the references it settled on before the lock, whatever another   *)
(* request wrote since; a removal keeps the row's.                         *)
Mutated(o) ==
    CASE job[o] = "delete" -> [row EXCEPT !.enabled = FALSE]
      [] job[o] = "enable" -> [ref |-> fresh[o], enabled |-> TRUE]
      [] OTHER             -> [row EXCEPT !.ref = fresh[o]]

(* A rotation has revoked what the row has and is about to replace it.     *)
Replacing(o) ==
    job[o] = "rotate" /\ at[o] \in {"uncache", "write"} /\ current[o] = row.ref

(* An edit is about to write back a reference that was replaced.           *)
Reverting(o) == job[o] \in {"edit", "enable"} /\ at[o] = "write" /\ fresh[o] # row.ref

WriteRow(o) ==
    /\ at[o] = "write"
    /\ row' = Mutated(o)
    /\ IF job[o] = "delete"
       THEN revoked' = TRUE /\ Go(o, "tombstone") /\ UNCHANGED <<astray, job, current, fresh>>
       ELSE /\ revoked' = (revoked /\ job[o] # "rotate")
            /\ astray' = ((astray /\ job[o] # "rotate") \/ Reverting(o))
            /\ Answer(o)
    /\ UNCHANGED <<sealed, cache, minted, changes, ingest, restarts, faults>>

WriteRowFails(o) ==
    /\ at[o] = "write" /\ Fault
    /\ row' \in {row, Mutated(o)}
    /\ astray' = (astray \/ Replacing(o) \/ Reverting(o))
    /\ Answer(o)
    /\ UNCHANGED <<revoked, sealed, cache, minted, changes, ingest, restarts>>

-----------------------------------------------------------------------------
(* Receiver.resolveFeed and Tiered.Resolve, for a delivery.                *)

Move(i, where) == step' = [step EXCEPT ![i] = where]

Done(i) ==
    /\ Move(i, "idle")
    /\ ref' = [ref EXCEPT ![i] = 0]

Trust(i, r) == backfilled' = [backfilled EXCEPT ![i] = @ \cup {r}]
Forget(i, r) == backfilled' = [backfilled EXCEPT ![i] = @ \ {r}]

Deliver(i) ==
    /\ step[i] = "idle" /\ row.enabled
    /\ ref' = [ref EXCEPT ![i] = row.ref]
    /\ Move(i, "cache")
    /\ UNCHANGED <<row, revoked, astray, sealed, cache, minted, changes, console, backfilled, restarts, faults>>

(* Any failure of the cache is a miss.                                     *)
ReadCache(i) ==
    /\ step[i] = "cache"
    /\ \/ /\ ref[i] \in cache
          /\ IF ref[i] \in backfilled[i]
             THEN Done(i) /\ UNCHANGED backfilled
             ELSE Move(i, "check") /\ Trust(i, ref[i]) /\ UNCHANGED ref
          /\ UNCHANGED faults
       \/ /\ ref[i] \in cache => Fault
          /\ ref[i] \notin cache => UNCHANGED faults
          /\ Move(i, "durable")
          /\ UNCHANGED <<ref, backfilled>>
    /\ UNCHANGED <<row, revoked, astray, sealed, cache, minted, changes, console, restarts>>

(* Tiered.ensureDurable: a secret only Redis has is sealed as well.        *)
Check(i) ==
    /\ step[i] = "check"
    /\ IF sealed[ref[i]] = "live" THEN Done(i) ELSE Move(i, "backfill") /\ UNCHANGED ref
    /\ UNCHANGED <<row, revoked, astray, sealed, cache, minted, changes, console, backfilled, restarts, faults>>

CheckFails(i) ==
    /\ step[i] = "check" /\ Fault
    /\ Forget(i, ref[i]) /\ Done(i)
    /\ UNCHANGED <<row, revoked, astray, sealed, cache, minted, changes, console, restarts>>

Backfill(i) ==
    /\ step[i] = "backfill"
    /\ sealed' = [sealed EXCEPT ![ref[i]] = "live"]
    /\ Done(i)
    /\ UNCHANGED <<row, revoked, astray, cache, minted, changes, console, backfilled, restarts, faults>>

BackfillFails(i) ==
    /\ step[i] = "backfill" /\ Fault
    /\ sealed' \in {sealed, [sealed EXCEPT ![ref[i]] = "live"]}
    /\ Forget(i, ref[i]) /\ Done(i)
    /\ UNCHANGED <<row, revoked, astray, cache, minted, changes, console, restarts>>

ReadDurable(i) ==
    /\ step[i] = "durable"
    /\ \/ /\ sealed[ref[i]] = "live" /\ Trust(i, ref[i])
          /\ Move(i, "refill")
          /\ UNCHANGED <<ref, faults>>
       \/ /\ sealed[ref[i]] = "live" => Fault
          /\ sealed[ref[i]] # "live" => UNCHANGED faults
          /\ Done(i)
          /\ UNCHANGED backfilled
    /\ UNCHANGED <<row, revoked, astray, sealed, cache, minted, changes, console, restarts>>

Refill(i) ==
    /\ step[i] = "refill"
    /\ \/ cache' = cache \cup {ref[i]} /\ UNCHANGED faults
       \/ cache' = cache /\ Fault
    /\ Done(i)
    /\ UNCHANGED <<row, revoked, astray, sealed, minted, changes, console, backfilled, restarts>>

-----------------------------------------------------------------------------
RedisRestarts ==
    /\ restarts < MaxRestarts /\ restarts' = restarts + 1
    /\ cache' = {}
    /\ UNCHANGED <<row, revoked, astray, sealed, minted, changes, console, ingest, faults>>

ReceiverCrash(i) ==
    /\ Fault
    /\ Done(i)
    /\ backfilled' = [backfilled EXCEPT ![i] = {}]
    /\ UNCHANGED <<row, revoked, astray, sealed, cache, minted, changes, console, restarts>>

ConsoleCrash(o) ==
    /\ at[o] # "idle" /\ Fault
    /\ astray' = (astray \/ Replacing(o))
    /\ Answer(o)
    /\ UNCHANGED <<row, revoked, sealed, cache, minted, changes, ingest, restarts>>

Change(o) ==
    \/ \E j \in {"rotate", "edit", "enable", "delete"} : Request(o, j)
    \/ PutDurable(o) \/ PutFails(o) \/ PutCache(o)
    \/ Tombstone(o) \/ TombstoneFails(o) \/ Uncache(o)
    \/ WriteRow(o) \/ WriteRowFails(o) \/ ConsoleCrash(o)

Delivery(i) ==
    \/ Deliver(i) \/ ReadCache(i) \/ Check(i) \/ CheckFails(i) \/ Backfill(i) \/ BackfillFails(i)
    \/ ReadDurable(i) \/ Refill(i) \/ ReceiverCrash(i)

Next == (\E o \in Operators : Change(o)) \/ (\E i \in Receivers : Delivery(i)) \/ RedisRestarts

Spec == Init /\ [][Next]_vars

-----------------------------------------------------------------------------
(* Losing the cache loses nothing: the credential of an enabled feed is    *)
(* sealed once it has been stored, and one that predates the durable copy  *)
(* once a process believes it is ("the next restart would lose them        *)
(* exactly as the last one did").  So it is whatever requests are under    *)
(* way at once, but while one is about to replace what it has revoked, and *)
(* until the next rotation if the row was led astray: by a rotation that   *)
(* ended there, or by an edit that began before another rotation wrote.    *)
Believed(i, r) == r \in backfilled[i] /\ step[i] \notin {"check", "backfill"}

CredentialSurvives ==
    row.enabled /\ ~revoked /\ ~astray /\ (\A o \in Operators : ~Replacing(o)) =>
        \/ row.ref = 1 /\ \A i \in Receivers : ~Believed(i, 1)
        \/ sealed[row.ref] = "live"

(* Two things the code promises and does not keep; TLC refutes both.       *)

Settled == \A o \in Operators : at[o] = "idle"

(* "The old secret is deleted only after the new one is stored, so a       *)
(* failure mid-way leaves the feed authenticating with its existing        *)
(* credential rather than with none" (rotateSecrets).                      *)
RotationKeepsCredential ==
    row.enabled /\ ~revoked /\ Settled => sealed[row.ref] # "deleted"

(* The same where no call failed: an edit of another field that began      *)
(* before a rotation and ends after it (UpdateFeed writes the references   *)
(* it read before the lock).                                               *)
EditsKeepCredential == faults = 0 => RotationKeepsCredential
=============================================================================
