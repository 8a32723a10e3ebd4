------------------------------ MODULE Pipeline ------------------------------
(***************************************************************************)
(* siem-processor between the raw topic and storage: the consumers of      *)
(* data/stream, the batch normalizer, the dead-letter drain and the        *)
(* supervision that restarts them.                                         *)
(*                                                                         *)
(* Two consumer groups, each with one worker per processor.  One partition *)
(* of each topic is modelled: a fetch that spans several partitions fails  *)
(* and commits as a whole, which for one of them looks like a batch of its *)
(* own records that may fail for reasons of its own.                       *)
(*                                                                         *)
(* Every write of a batch is a step; each may fail after part of it landed *)
(* (a timeout leaves it open), the worker then leaves its group and starts *)
(* again from the committed offset.  Partitions move between processors    *)
(* while a batch is in hand.                                               *)
(***************************************************************************)
EXTENDS Naturals, Sequences, FiniteSets

CONSTANTS Processors,
          Fit,           \* records the adapter can normalize
          Unfit,         \* records it refuses, every time
          Broken,        \* records whose envelope does not decode
          Refused,       \* records the receiver rejected: published as dead letters
          TenantOf,      \* whose record it is
          None,
          MaxFaults      \* bound: failed calls, moves and crashes

Records == Fit \cup Unfit \cup Broken \cup Refused
Groups == {"raw", "dlq"}

ASSUME PipelineAssumption ==
    /\ Fit \cap (Unfit \cup Broken \cup Refused) = {}
    /\ Unfit \cap (Broken \cup Refused) = {}
    /\ Broken \cap Refused = {}
    /\ None \notin Processors
    /\ MaxFaults \in Nat

VARIABLES topic,         \* topic[g]: the partition group g consumes
          committed,     \* committed[g]: how many records the group has committed
          owner,         \* owner[g]: the processor the partition is assigned to
          polled,        \* polled[g][p]: the offset p's client would commit
          phase,         \* phase[g][p]: how far the worker's loop has come
          batch,         \* batch[g][p]: the offsets of the fetch in hand
          todo,          \* todo[g][p]: offsets still to be handled one by one
          passed,        \* passed[p]: offsets of the batch that were normalized
          rawEvents, normalized, forwarded,  \* what the stores and the next topic hold
          rejectedRows,  \* rejectedRows[r]: rows of r in rejected_events
          faults

broker == <<topic, committed, owner>>
stores == <<rawEvents, normalized, forwarded, rejectedRows>>
vars == <<broker, polled, phase, batch, todo, passed, stores, faults>>

-----------------------------------------------------------------------------
Least(S) == CHOOSE i \in S : \A j \in S : i <= j

Of(g, O) == {topic[g][i] : i \in O}                     \* the records at some offsets

(* decodeEnvelopes splits a fetch.                                         *)
Decoded(p) == {i \in batch["raw"][p] : topic["raw"][i] \notin Broken}
Undecodable(p) == batch["raw"][p] \ Decoded(p)

Parsed(p) == {i \in Decoded(p) : topic["raw"][i] \in Fit}

Failed(p) == Decoded(p) \ passed[p]

(* policyCache asks for a tenant's policy until it gets one, then keeps    *)
(* it: the records that went without are the first of their tenant.        *)
Starved(p) == {L \in SUBSET Parsed(p) :
                 \A i \in L, j \in Parsed(p) :
                    j < i /\ TenantOf[topic["raw"][j]] = TenantOf[topic["raw"][i]] => j \in L}

WithRows(R) == [r \in Records |-> rejectedRows[r] + IF r \in R THEN 1 ELSE 0]

-----------------------------------------------------------------------------
Phases == {"down", "idle", "polled", "rawStored", "normalized", "normStored",
           "rejStored", "handled"}

TypeOK ==
    /\ topic \in [Groups -> Seq(Records)]
    /\ committed \in [Groups -> Nat]
    /\ owner \in [Groups -> Processors \cup {None}]
    /\ polled \in [Groups -> [Processors -> Nat]]
    /\ phase \in [Groups -> [Processors -> Phases]]
    /\ batch \in [Groups -> [Processors -> SUBSET Nat]]
    /\ todo \in [Groups -> [Processors -> SUBSET Nat]]
    /\ passed \in [Processors -> SUBSET Nat]
    /\ rawEvents \subseteq Fit \cup Unfit /\ normalized \subseteq Fit /\ forwarded \subseteq Fit
    /\ rejectedRows \in [Records -> Nat]
    /\ faults \in 0..MaxFaults

Init ==
    /\ topic = [g \in Groups |-> <<>>]
    /\ committed = [g \in Groups |-> 0]
    /\ owner = [g \in Groups |-> None]
    /\ polled = [g \in Groups |-> [p \in Processors |-> 0]]
    /\ phase = [g \in Groups |-> [p \in Processors |-> "idle"]]
    /\ batch = [g \in Groups |-> [p \in Processors |-> {}]]
    /\ todo = [g \in Groups |-> [p \in Processors |-> {}]]
    /\ passed = [p \in Processors |-> {}]
    /\ rawEvents = {} /\ normalized = {} /\ forwarded = {}
    /\ rejectedRows = [r \in Records |-> 0]
    /\ faults = 0

-----------------------------------------------------------------------------
(* The world around the workers.                                           *)

Fault == faults < MaxFaults /\ faults' = faults + 1

Published(g) == {topic[g][i] : i \in 1..Len(topic[g])}

Receive(r) ==
    /\ LET g == IF r \in Refused THEN "dlq" ELSE "raw"
       IN  /\ r \notin Published(g)
           /\ topic' = [topic EXCEPT ![g] = Append(@, r)]
    /\ UNCHANGED <<committed, owner, polled, phase, batch, todo, passed, stores, faults>>

(* The broker gives the partition to p, which resumes at the committed     *)
(* offset.  A worker that loses it goes on with what it has in hand, but   *)
(* its client has no offset left to commit for that partition.             *)
Assign(g, p) ==
    /\ phase[g][p] # "down"
    /\ owner[g] # p
    /\ IF owner[g] = None THEN UNCHANGED faults ELSE Fault
    /\ owner' = [owner EXCEPT ![g] = p]
    /\ polled' = [polled EXCEPT ![g][p] = committed[g]]
    /\ UNCHANGED <<topic, committed, phase, batch, todo, passed, stores>>

-----------------------------------------------------------------------------
(* A worker's loop: poll, handle, dead-letter, commit.                     *)

Go(g, p, next) == phase' = [phase EXCEPT ![g][p] = next]

DropBatch(g, p) ==
    /\ batch' = [batch EXCEPT ![g][p] = {}]
    /\ passed' = IF g = "raw" THEN [passed EXCEPT ![p] = {}] ELSE passed

(* The worker returns an error: Consumer.Close leaves the group, nothing   *)
(* is committed, and superviseWorker will run it again.                    *)
Leave(g, p) ==
    /\ phase' = [phase EXCEPT ![g][p] = "down"]
    /\ owner' = [owner EXCEPT ![g] = IF @ = p THEN None ELSE @]
    /\ polled' = [polled EXCEPT ![g][p] = 0]
    /\ todo' = [todo EXCEPT ![g][p] = {}]
    /\ DropBatch(g, p)

Restart(g, p) ==
    /\ phase[g][p] = "down"
    /\ Go(g, p, "idle")
    /\ UNCHANGED <<broker, polled, batch, todo, passed, stores, faults>>

(* PollFetches returns what lies beyond the client's position.             *)
Poll(g, p) ==
    /\ phase[g][p] = "idle" /\ owner[g] = p
    /\ \E n \in polled[g][p]+1 .. Len(topic[g]) :
         LET fetch == polled[g][p]+1 .. n
         IN  /\ batch' = [batch EXCEPT ![g][p] = fetch]
             /\ todo' = [todo EXCEPT ![g][p] = IF g = "dlq" THEN fetch ELSE {}]
             /\ polled' = [polled EXCEPT ![g][p] = n]
    /\ Go(g, p, IF g = "dlq" THEN "handled" ELSE "polled")
    /\ UNCHANGED <<broker, passed, stores, faults>>

PollFails(g, p) ==
    /\ phase[g][p] = "idle" /\ Fault
    /\ Leave(g, p)
    /\ UNCHANGED <<topic, committed, stores>>

(* CommitUncommittedOffsets: everything this client polled and still owns. *)
Committing(g, p) == IF owner[g] = p THEN polled[g][p] ELSE committed[g]

(* A mistake to detect: the commit does not wait for the dead letters.     *)
CommitEarly(g, p) ==
    /\ phase[g][p] = "handled"
    /\ committed' = [committed EXCEPT ![g] = Committing(g, p)]
    /\ Go(g, p, "idle")
    /\ todo' = [todo EXCEPT ![g][p] = {}]
    /\ DropBatch(g, p)
    /\ UNCHANGED <<topic, owner, polled, stores, faults>>

Commit(g, p) ==
    /\ phase[g][p] = "handled" /\ todo[g][p] = {}
    /\ committed' = [committed EXCEPT ![g] = Committing(g, p)]
    /\ Go(g, p, "idle")
    /\ DropBatch(g, p)
    /\ UNCHANGED <<topic, owner, polled, todo, stores, faults>>

(* The commit reports an error; the broker may have taken it all the same. *)
CommitFails(g, p) ==
    /\ phase[g][p] = "handled" /\ todo[g][p] = {} /\ Fault
    /\ committed' \in {committed, [committed EXCEPT ![g] = Committing(g, p)]}
    /\ Leave(g, p)
    /\ UNCHANGED <<topic, stores>>

-----------------------------------------------------------------------------
(* normalize.Worker.HandleBatch, one step per write.  Each write has a     *)
(* variant that fails with any part of it stored.                          *)

(* Raw first.  A fetch without a readable record skips to the dead letters.*)
StoreRaw(p) ==
    /\ phase["raw"][p] = "polled"
    /\ rawEvents' = rawEvents \cup Of("raw", Decoded(p))
    /\ Go("raw", p, IF Decoded(p) = {} THEN "handled" ELSE "rawStored")
    /\ todo' = [todo EXCEPT !["raw"][p] = IF Decoded(p) = {} THEN Undecodable(p) ELSE {}]
    /\ UNCHANGED <<broker, polled, batch, passed, normalized, forwarded, rejectedRows, faults>>

StoreRawFails(p) ==
    /\ phase["raw"][p] = "polled" /\ Decoded(p) # {} /\ Fault
    /\ \E W \in SUBSET Decoded(p) : rawEvents' = rawEvents \cup Of("raw", W)
    /\ Leave("raw", p)
    /\ UNCHANGED <<topic, committed, normalized, forwarded, rejectedRows>>

(* A record whose tenant's policy cannot be read is rejected like one the  *)
(* adapter refuses.                                                        *)
Normalize(p) ==
    /\ phase["raw"][p] = "rawStored"
    /\ \E L \in Starved(p) : passed' = [passed EXCEPT ![p] = Parsed(p) \ L]
    /\ Go("raw", p, "normalized")
    /\ UNCHANGED <<broker, polled, batch, todo, stores, faults>>

StoreNormalized(p) ==
    /\ phase["raw"][p] = "normalized"
    /\ normalized' = normalized \cup Of("raw", passed[p])
    /\ Go("raw", p, "normStored")
    /\ UNCHANGED <<broker, polled, batch, todo, passed, rawEvents, forwarded, rejectedRows, faults>>

(* A mistake to detect: likewise for the normalized rows.                  *)
StoreNormalizedErrorIgnored(p) ==
    /\ phase["raw"][p] = "normalized" /\ passed[p] # {} /\ Fault
    /\ \E W \in SUBSET passed[p] : normalized' = normalized \cup Of("raw", W)
    /\ Go("raw", p, "normStored")
    /\ UNCHANGED <<broker, polled, batch, todo, passed, rawEvents, forwarded, rejectedRows>>

StoreNormalizedFails(p) ==
    /\ phase["raw"][p] = "normalized" /\ passed[p] # {} /\ Fault
    /\ \E W \in SUBSET passed[p] : normalized' = normalized \cup Of("raw", W)
    /\ Leave("raw", p)
    /\ UNCHANGED <<topic, committed, rawEvents, forwarded, rejectedRows>>

StoreRejected(p) ==
    /\ phase["raw"][p] = "normStored"
    /\ rejectedRows' = WithRows(Of("raw", Failed(p)))
    /\ Go("raw", p, "rejStored")
    /\ UNCHANGED <<broker, polled, batch, todo, passed, rawEvents, normalized, forwarded, faults>>

StoreRejectedFails(p) ==
    /\ phase["raw"][p] = "normStored" /\ Failed(p) # {} /\ Fault
    /\ \E W \in SUBSET Failed(p) : rejectedRows' = WithRows(Of("raw", W))
    /\ Leave("raw", p)
    /\ UNCHANGED <<topic, committed, rawEvents, normalized, forwarded>>

(* What forwardBatch publishes to the normalized topic; HandleBatch then   *)
(* returns the undecodable records for dispatchBatch to park.              *)
Forward(p) ==
    /\ phase["raw"][p] = "rejStored"
    /\ forwarded' = forwarded \cup Of("raw", passed[p])
    /\ Go("raw", p, "handled")
    /\ todo' = [todo EXCEPT !["raw"][p] = Undecodable(p)]
    /\ UNCHANGED <<broker, polled, batch, passed, rawEvents, normalized, rejectedRows, faults>>

ForwardFails(p) ==
    /\ phase["raw"][p] = "rejStored" /\ passed[p] # {} /\ Fault
    /\ \E W \in SUBSET passed[p] : forwarded' = forwarded \cup Of("raw", W)
    /\ Leave("raw", p)
    /\ UNCHANGED <<topic, committed, rawEvents, normalized, rejectedRows>>

(* dispatchBatch parks the undecodable records one by one.                 *)
NextTodo(g, p) == topic[g][Least(todo[g][p])]

Tick(g, p) == todo' = [todo EXCEPT ![g][p] = @ \ {Least(@)}]

DeadLetter(p) ==
    /\ phase["raw"][p] = "handled" /\ todo["raw"][p] # {}
    /\ topic' = [topic EXCEPT !["dlq"] = Append(@, NextTodo("raw", p))]
    /\ Tick("raw", p)
    /\ UNCHANGED <<committed, owner, polled, phase, batch, passed, stores, faults>>

DeadLetterFails(p) ==
    /\ phase["raw"][p] = "handled" /\ todo["raw"][p] # {} /\ Fault
    /\ topic' \in {topic, [topic EXCEPT !["dlq"] = Append(@, NextTodo("raw", p))]}
    /\ Leave("raw", p)
    /\ UNCHANGED <<committed, stores>>

-----------------------------------------------------------------------------
(* normalize.DeadLetterWorker.Handle, record by record.  What it cannot    *)
(* decode it drops; it has no dead-letter topic of its own, so a failed    *)
(* insert ends the worker before anything is committed.                    *)
Drain(p) ==
    /\ phase["dlq"][p] = "handled" /\ todo["dlq"][p] # {}
    /\ rejectedRows' = WithRows({NextTodo("dlq", p)} \ Broken)
    /\ Tick("dlq", p)
    /\ UNCHANGED <<broker, polled, phase, batch, passed, rawEvents, normalized, forwarded, faults>>

DrainErrorIgnored(p) ==    \* a mistake to detect: the record's error is swallowed
    /\ phase["dlq"][p] = "handled" /\ todo["dlq"][p] # {} /\ Fault
    /\ NextTodo("dlq", p) \notin Broken
    /\ rejectedRows' \in {rejectedRows, WithRows({NextTodo("dlq", p)})}
    /\ Tick("dlq", p)
    /\ UNCHANGED <<broker, polled, phase, batch, passed, rawEvents, normalized, forwarded>>

DrainFails(p) ==
    /\ phase["dlq"][p] = "handled" /\ todo["dlq"][p] # {} /\ Fault
    /\ NextTodo("dlq", p) \notin Broken
    /\ rejectedRows' \in {rejectedRows, WithRows({NextTodo("dlq", p)})}
    /\ Leave("dlq", p)
    /\ UNCHANGED <<topic, committed, rawEvents, normalized, forwarded>>

-----------------------------------------------------------------------------
(* The processor dies with both its workers, between any two steps.        *)
Crash(p) ==
    /\ \E g \in Groups : phase[g][p] # "down"
    /\ Fault
    /\ phase' = [g \in Groups |-> [phase[g] EXCEPT ![p] = "down"]]
    /\ owner' = [g \in Groups |-> IF owner[g] = p THEN None ELSE owner[g]]
    /\ polled' = [g \in Groups |-> [polled[g] EXCEPT ![p] = 0]]
    /\ batch' = [g \in Groups |-> [batch[g] EXCEPT ![p] = {}]]
    /\ todo' = [g \in Groups |-> [todo[g] EXCEPT ![p] = {}]]
    /\ passed' = [passed EXCEPT ![p] = {}]
    /\ UNCHANGED <<topic, committed, stores>>

Loop(g, p) == \/ Restart(g, p)
              \/ Poll(g, p)
              \/ Commit(g, p)

Batch(p) == \/ StoreRaw(p)
            \/ Normalize(p)
            \/ StoreNormalized(p)
            \/ StoreRejected(p)
            \/ Forward(p)
            \/ DeadLetter(p)

Fails(p) == \/ StoreRawFails(p)
            \/ StoreNormalizedFails(p)
            \/ StoreRejectedFails(p)
            \/ ForwardFails(p)
            \/ DeadLetterFails(p)
            \/ DrainFails(p)
            \/ Crash(p)

Next == \/ \E r \in Records : Receive(r)
        \/ \E g \in Groups, p \in Processors :
              \/ Assign(g, p)
              \/ Loop(g, p)
              \/ PollFails(g, p)
              \/ CommitFails(g, p)
        \/ \E p \in Processors : Batch(p) \/ Drain(p) \/ Fails(p)

Spec == Init /\ [][Next]_vars

(* A worker that can take a step takes one, superviseWorker restarts one   *)
(* that failed, and the broker does not leave a partition without owner.   *)
Worker(g, p) == \/ Loop(g, p)
                \/ g = "raw" /\ Batch(p)
                \/ g = "dlq" /\ Drain(p)

FairSpec ==
    /\ Spec
    /\ \A g \in Groups, p \in Processors : WF_vars(Worker(g, p))
    /\ \A g \in Groups : WF_vars(owner[g] = None /\ \E p \in Processors : Assign(g, p))

-----------------------------------------------------------------------------
(* Properties.                                                             *)

(* A record of the raw topic has reached everything it is meant to reach:  *)
(* a readable one is in raw_events and is either normalized and on its way *)
(* to correlation or listed as rejected; an unreadable one is parked.      *)
Accounted(r) ==
    IF r \in Broken THEN r \in Published("dlq")
    ELSE /\ r \in rawEvents
         /\ r \in normalized \cap forwarded \/ rejectedRows[r] > 0

Drained(r) == r \in Broken \/ rejectedRows[r] > 0

(* The 202's promise past the topic (stream.go:108-127): the offset a      *)
(* group has committed never passes a record that is not accounted for,    *)
(* whatever fails, restarts or changes hands in the middle of a batch.     *)
NothingSkipped ==
    /\ \A i \in 1..committed["raw"] : Accounted(topic["raw"][i])
    /\ \A i \in 1..committed["dlq"] : Drained(topic["dlq"][i])

(* FR-005 (normalize/batch.go:27-30): whatever was derived from a record,  *)
(* even a rejection, its raw bytes are already stored.                     *)
RawFirst == \A r \in Records \ Refused :
               r \in normalized \cup forwarded \/ rejectedRows[r] > 0 => r \in rawEvents

(* What the correlator relies on when it drops a record it cannot read     *)
(* (correlate/batch.go:74-76): whatever was forwarded is already stored.   *)
ForwardedIsStored == forwarded \subseteq normalized

(* Both of them: nothing is visible before what it came from is stored.    *)
StoredInOrder == RawFirst /\ ForwardedIsStored

(* The consumers keep the promise of a consumer group, each for its topic. *)
RawGroup == INSTANCE AtLeastOnce WITH
    topic <- topic["raw"], committed <- committed["raw"],
    done <- {r \in Records : Accounted(r)}
DlqGroup == INSTANCE AtLeastOnce WITH
    topic <- topic["dlq"], committed <- committed["dlq"],
    done <- {r \in Records : Drained(r)}
AtLeastOnceRaw == RawGroup!Spec
AtLeastOnceDlq == DlqGroup!Spec
AtLeastOnceGroups == AtLeastOnceRaw /\ AtLeastOnceDlq

(* However the workers fail, are restarted or trade partitions, both       *)
(* groups catch up once the failures stop: no record, an unreadable dead   *)
(* letter included, makes a worker fail and start over for ever.           *)
CaughtUp == /\ \A g \in Groups : committed[g] = Len(topic[g])
            /\ \A r \in Published("raw") : Accounted(r)
EveryRecordAccounted == []<>CaughtUp
=============================================================================
