------------------------------- MODULE Ingest -------------------------------
(***************************************************************************)
(* The push path of siem-ingest: backend/internal/ingest/receiver with the *)
(* publisher and the deduper it calls.                                     *)
(*                                                                         *)
(* Any number of deliveries are in flight at once.  Every call a delivery  *)
(* makes to Redis or to the broker is a step of its own, so the steps of   *)
(* two deliveries of the same events interleave freely.  A sender may hang *)
(* up, the process may crash, the broker may take only part of a batch and *)
(* Redis may fail or let a marker expire.                                  *)
(***************************************************************************)
EXTENDS Naturals, Sequences, FiniteSets

CONSTANTS Deliveries,    \* requests; a redelivery may be another one with the same records
          Events,        \* identities: normalize.EventIDFor
          Records,       \* Records[d]: the events in the body of d, in order
          Probes,        \* deliveries whose body is a destination probe
          Unparseable,   \* events adapter.Normalize refuses
          Dropped,       \* events the tenant's ingest filters exclude
          MaxCrashes     \* bound: how often the process may crash

ASSUME IngestAssumption ==
    /\ Records \in [Deliveries -> Seq(Events)]
    /\ Probes \subseteq Deliveries
    /\ Unparseable \subseteq Events
    /\ Dropped \subseteq Events \ Unparseable
    /\ MaxCrashes \in Nat

VARIABLES phase,         \* phase[d]: how far handleDelivery has come
          connected,     \* connected[d]: the sender still waits for the answer
          told,          \* told[d]: the last answer the sender has received
          accepted,      \* accepted[d]: the events of d to commit
          raw,           \* the raw topic: events durably committed
          parked,        \* the dead-letter topic
          unparked,      \* rejections whose dead-letter copy failed: logged, no more
          seen,          \* dedup markers in Redis
          crashes

vars == <<phase, connected, told, accepted, raw, parked, unparked, seen, crashes>>

-----------------------------------------------------------------------------
(* The body of a delivery.                                                 *)

Positions(d) == 1..Len(Records[d])

EventsAt(d, P) == {Records[d][i] : i \in P}

(* BuildEnvelopes makes no envelope for a filtered record ...              *)
Enveloped(d) == {i \in Positions(d) : Records[d][i] \notin Dropped}

(* ... so record i has this place in the envelope list ...                 *)
EnvelopeOf(d, i) == Cardinality({j \in 1..i : j \in Enveloped(d)})

(* ... while Rejection.Index is a place in the RECORD list.                *)
RejectionIndices(d) == {i \in Positions(d) : Records[d][i] \in Unparseable}

(* partition and PublishRejections read it as a place in the ENVELOPE list.*)
TakenAsRejected(d) == {i \in Enveloped(d) : EnvelopeOf(d, i) \in RejectionIndices(d)}

(* What partition hands to the deduper.  Two copies of one event inside a  *)
(* batch are one element: dedup.Filter keeps the first.                    *)
Candidates(d) == EventsAt(d, Enveloped(d) \ TakenAsRejected(d))

HasRejections(d) == RejectionIndices(d) # {}

-----------------------------------------------------------------------------
Phases == {"idle", "received", "admitted", "partitioned", "committed", "deadlettered", "marked"}
Success == {"accepted", "partial"}
Answers == Success \cup {"none", "retry", "refused"}

TypeOK ==
    /\ phase \in [Deliveries -> Phases]
    /\ connected \in [Deliveries -> BOOLEAN]
    /\ told \in [Deliveries -> Answers]
    /\ accepted \in [Deliveries -> SUBSET (Events \ Dropped)]
    /\ raw \subseteq Events \ Dropped
    /\ parked \subseteq Events
    /\ unparked \subseteq Events
    /\ seen \subseteq Events
    /\ crashes \in 0..MaxCrashes

Init ==
    /\ phase = [d \in Deliveries |-> "idle"]
    /\ connected = [d \in Deliveries |-> FALSE]
    /\ told = [d \in Deliveries |-> "none"]
    /\ accepted = [d \in Deliveries |-> {}]
    /\ raw = {} /\ parked = {} /\ unparked = {} /\ seen = {}
    /\ crashes = 0

(* The handler writes its answer; it arrives if the sender still waits.    *)
Finish(d, answer) ==
    /\ phase' = [phase EXCEPT ![d] = "idle"]
    /\ connected' = [connected EXCEPT ![d] = FALSE]
    /\ told' = [told EXCEPT ![d] = IF connected[d] THEN answer ELSE @]
    /\ accepted' = [accepted EXCEPT ![d] = {}]
    /\ UNCHANGED crashes

Proceed(d, next) ==
    /\ phase' = [phase EXCEPT ![d] = next]
    /\ UNCHANGED <<connected, told, crashes>>

-----------------------------------------------------------------------------
(* The sender delivers.  It tries again whatever was answered with a       *)
(* retryable status, and whatever it got no answer for.                    *)
Send(d) ==
    /\ phase[d] = "idle"
    /\ told[d] \in {"none", "retry"}
    /\ phase' = [phase EXCEPT ![d] = "received"]
    /\ connected' = [connected EXCEPT ![d] = TRUE]
    /\ told' = [told EXCEPT ![d] = "none"]
    /\ UNCHANGED <<accepted, raw, parked, unparked, seen, crashes>>

(* The sender gives up.  The handler notices only while the work still     *)
(* belongs to the request (Refuse); the commit runs on a detached context. *)
HangUp(d) ==
    /\ connected[d]
    /\ connected' = [connected EXCEPT ![d] = FALSE]
    /\ UNCHANGED <<phase, told, accepted, raw, parked, unparked, seen, crashes>>

(* resolveFeed, readBody, authenticate, Detect, Parse, the two size limits *)
(* and checkQuota: each answers with an error before anything is written.  *)
Refuse(d) ==
    /\ phase[d] = "received"
    /\ \E answer \in {"retry", "refused"} : Finish(d, answer)
    /\ UNCHANGED <<raw, parked, unparked, seen>>

(* A destination probe is answered 200 as soon as it is authenticated.     *)
AnswerProbe(d) ==
    /\ phase[d] = "received"
    /\ d \in Probes
    /\ Finish(d, "accepted")
    /\ UNCHANGED <<raw, parked, unparked, seen>>

(* Parsed and within quota: BuildEnvelopes has run, the commit is detached.*)
Admit(d) ==
    /\ phase[d] = "received"
    /\ d \notin Probes
    /\ Proceed(d, "admitted")
    /\ UNCHANGED <<accepted, raw, parked, unparked, seen>>

(* A mistake to detect: the check also records what it found fresh.        *)
PartitionAndMark(d) ==
    /\ phase[d] = "admitted"
    /\ Proceed(d, "partitioned")
    /\ accepted' = [accepted EXCEPT ![d] = Candidates(d) \ seen]
    /\ seen' = seen \cup Candidates(d)
    /\ UNCHANGED <<raw, parked, unparked>>

(* dedup.Filter reads the markers and records nothing.  When Redis fails   *)
(* it fails open: every candidate is fresh.                                *)
Partition(d) ==
    /\ phase[d] = "admitted"
    /\ Proceed(d, "partitioned")
    /\ \E suppressed \in {seen, {}} :
           accepted' = [accepted EXCEPT ![d] = Candidates(d) \ suppressed]
    /\ UNCHANGED <<raw, parked, unparked, seen>>

(* A mistake to detect: the commit runs on the request's own context.      *)
CommitWhileConnected(d) ==
    /\ phase[d] = "partitioned"
    /\ connected[d]
    /\ Proceed(d, "committed")
    /\ raw' = raw \cup accepted[d]
    /\ UNCHANGED <<accepted, parked, unparked, seen>>

(* PublishBatch: every record was acknowledged by the broker.              *)
Commit(d) ==
    /\ phase[d] = "partitioned"
    /\ Proceed(d, "committed")
    /\ raw' = raw \cup accepted[d]
    /\ UNCHANGED <<accepted, parked, unparked, seen>>

(* A mistake to detect: a batch that was taken in part is acknowledged.    *)
CommitFailsAcked(d) ==
    /\ phase[d] = "partitioned"
    /\ \E some \in SUBSET accepted[d] : raw' = raw \cup some
    /\ Finish(d, "accepted")
    /\ UNCHANGED <<parked, unparked, seen>>

(* PublishBatch returned an error, or the commit timed out: some records   *)
(* may be on the topic all the same.  503, and nothing is marked.          *)
CommitFails(d) ==
    /\ phase[d] = "partitioned"
    /\ \E some \in SUBSET accepted[d] : raw' = raw \cup some
    /\ Finish(d, "retry")
    /\ UNCHANGED <<parked, unparked, seen>>

(* A mistake to detect: rejections are counted and never written.          *)
DeadLetterSkipped(d) ==
    /\ phase[d] = "committed"
    /\ Proceed(d, "deadlettered")
    /\ UNCHANGED <<accepted, raw, parked, unparked, seen>>

(* PublishRejections, which never fails the request.                       *)
DeadLetter(d) ==
    /\ phase[d] = "committed"
    /\ Proceed(d, "deadlettered")
    /\ LET rejected == EventsAt(d, TakenAsRejected(d))
       IN  \E written \in SUBSET rejected :
               /\ parked' = parked \cup written
               /\ unparked' = unparked \cup (rejected \ written)
    /\ UNCHANGED <<accepted, raw, seen>>

(* markCommitted: SetMany writes in chunks, so a failure may leave some of *)
(* the markers behind.  It is logged and ignored.                          *)
Mark(d) ==
    /\ phase[d] = "deadlettered"
    /\ Proceed(d, "marked")
    /\ \E written \in SUBSET accepted[d] : seen' = seen \cup written
    /\ UNCHANGED <<accepted, raw, parked, unparked>>

(* commitDelivery: 202, or 207 when the batch had rejections.              *)
Answer(d) ==
    /\ phase[d] = "marked"
    /\ Finish(d, IF HasRejections(d) THEN "partial" ELSE "accepted")
    /\ UNCHANGED <<raw, parked, unparked, seen>>

(* A dedup marker reaches the end of its ten minutes.                      *)
Expire(e) ==
    /\ e \in seen
    /\ seen' = seen \ {e}
    /\ UNCHANGED <<phase, connected, told, accepted, raw, parked, unparked, crashes>>

(* The process dies with everything in flight; its senders see the         *)
(* connection close without an answer.                                     *)
Crash ==
    /\ crashes < MaxCrashes
    /\ \E d \in Deliveries : phase[d] # "idle"
    /\ crashes' = crashes + 1
    /\ phase' = [d \in Deliveries |-> "idle"]
    /\ connected' = [d \in Deliveries |-> FALSE]
    /\ accepted' = [d \in Deliveries |-> {}]
    /\ UNCHANGED <<told, raw, parked, unparked, seen>>

Handle(d) ==
    \/ Refuse(d) \/ AnswerProbe(d) \/ Admit(d) \/ Partition(d)
    \/ Commit(d) \/ CommitFails(d) \/ DeadLetter(d) \/ Mark(d) \/ Answer(d)

Next ==
    \/ \E d \in Deliveries : Send(d) \/ HangUp(d) \/ Handle(d)
    \/ \E e \in Events : Expire(e)
    \/ Crash

Spec == Init /\ [][Next]_vars

(* A sender keeps retrying; a handler that has started runs on; and the    *)
(* two things a delivery waits for from outside, being admitted and the    *)
(* broker taking the whole batch, do not fail for ever.  HangUp, Refuse    *)
(* and CommitFails may happen at any time, infinitely often.               *)
Fairness ==
    \A d \in Deliveries :
        /\ WF_vars(Send(d))
        /\ WF_vars(Handle(d))
        /\ SF_vars(Admit(d))
        /\ SF_vars(Commit(d))

FairSpec == Spec /\ Fairness

-----------------------------------------------------------------------------
(* What the platform owes for a delivery: every record that normalizes and *)
(* that no filter excludes.                                                *)
Kept(d) == IF d \in Probes THEN {}
           ELSE EventsAt(d, Positions(d)) \ (Unparseable \cup Dropped)

(* Every rejection lands on its own envelope.  True whenever no record is  *)
(* filtered (IngestProofs!Aligned_NoFilters).                              *)
Aligned == \A d \in Deliveries : TakenAsRejected(d) = RejectionIndices(d)

(* A sender that was answered 202 or 207 will not deliver again, so every  *)
(* event it was owed is on the raw topic (publisher.go: "a vendor is       *)
(* answered 202 ONLY after the broker has confirmed the write").           *)
AckedIsDurable ==
    \A d \in Deliveries : told[d] \in Success => Kept(d) \subseteq raw

(* A dedup marker makes the next delivery of the event a no-op, so an event*)
(* is never marked before it is durable, however deliveries interleave,    *)
(* fail and repeat.                                                        *)
MarkedIsDurable == seen \subseteq raw

(* Once a delivery is acknowledged, each record of it that could not be    *)
(* normalized has its dead-letter copy or a logged failure to write one,   *)
(* and the two topics never mix up the fit and the unfit.                  *)
RejectedIsParked ==
    /\ parked \subseteq Unparseable
    /\ raw \cap Unparseable = {}
    /\ \A d \in Deliveries :
           told[d] \in Success /\ d \notin Probes =>
               EventsAt(d, RejectionIndices(d)) \subseteq parked \cup unparked


(* Nothing of a delivery is left to be done, or it is refused for good.    *)
Settled(d) == told[d] = "refused" \/ Kept(d) \subseteq raw

(* However often senders hang up before the answer, the commit goes on     *)
(* without them: a delivery in which nothing is refused for good becomes   *)
(* durable (receiver.go: "Detached, the commit completes even when nobody  *)
(* is listening").                                                         *)
EventuallyDurable == \A d \in Deliveries : <>Settled(d)

(* The receiver implements the promise of the ingest boundary.             *)
Promise == INSTANCE DurableAck WITH
               durable <- raw,
               acked <- {d \in Deliveries : told[d] \in Success},
               Owed <- [d \in Deliveries |-> Kept(d)]

KeepsPromise == Promise!Spec
=============================================================================
