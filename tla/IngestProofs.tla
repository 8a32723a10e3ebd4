---------------------------- MODULE IngestProofs ----------------------------
(***************************************************************************)
(* Proofs about the push path, for every set of deliveries, events and     *)
(* filters, and any number of crashes.                                     *)
(*                                                                         *)
(* The argument: a delivery carries the set of events it has to commit     *)
(* through its phases (accepted).  From the moment it is partitioned,      *)
(* every candidate is either durable already or in that set, because a     *)
(* dedup marker is only ever seen for a durable event; from the moment it  *)
(* is committed the set itself is durable.  So by the time it is marked,   *)
(* and by the time it is answered, every candidate is durable.             *)
(***************************************************************************)
EXTENDS MCIngest, TLAPS, FiniteSetTheorems

Partitioned == {"partitioned", "committed", "deadlettered", "marked"}
Committed == {"committed", "deadlettered", "marked"}

(* Each candidate of a partitioned delivery is durable or about to be.     *)
Covered == \A d \in Deliveries : phase[d] \in Partitioned => Candidates(d) \subseteq raw \cup accepted[d]

(* What a committed delivery carries is durable.                           *)
CarriedIsDurable == \A d \in Deliveries : phase[d] \in Committed => accepted[d] \subseteq raw

(* The candidates of an acknowledged delivery are durable.                 *)
AckedCandidates ==
    \A d \in Deliveries : told[d] \in Success /\ d \notin Probes => Candidates(d) \subseteq raw

(* A delivery in flight has not been acknowledged.                         *)
NotYetAcked == \A d \in Deliveries : phase[d] # "idle" => told[d] \notin Success

(* A probe is never admitted.                                              *)
ProbesStayOut == \A d \in Probes : phase[d] \in {"idle", "received"}

IInv == TypeOK /\ MarkedIsDurable /\ Covered /\ CarriedIsDurable /\ AckedCandidates
               /\ NotYetAcked /\ ProbesStayOut

-----------------------------------------------------------------------------
(* The events of a delivery are events, and its candidates are not         *)
(* filtered ones (receiver.partition, publisher.BuildEnvelopes).           *)
LEMMA CandidatesType == \A d \in Deliveries : Candidates(d) \in SUBSET (Events \ Dropped)
<1> SUFFICES ASSUME NEW d \in Deliveries, NEW i \in Enveloped(d) \ TakenAsRejected(d)
             PROVE  Records[d][i] \in Events \ Dropped
  BY DEF Candidates, EventsAt
<1>1. Records[d] \in Seq(Events)
  BY IngestAssumption
<1>2. i \in 1..Len(Records[d])
  BY DEF Enveloped, Positions
<1>3. Records[d][i] \in Events
  BY <1>1, <1>2
<1> QED
  BY <1>3 DEF Enveloped

(* The dead letters of a delivery are events of it.                        *)
LEMMA RejectedType == \A d \in Deliveries : EventsAt(d, TakenAsRejected(d)) \in SUBSET Events
<1> SUFFICES ASSUME NEW d \in Deliveries, NEW i \in TakenAsRejected(d)
             PROVE  Records[d][i] \in Events
  BY DEF EventsAt
<1>1. Records[d] \in Seq(Events)
  BY IngestAssumption
<1>2. i \in 1..Len(Records[d])
  BY DEF TakenAsRejected, Enveloped, Positions
<1> QED
  BY <1>1, <1>2

-----------------------------------------------------------------------------
LEMMA InitIInv == Init => IInv
  BY IngestAssumption DEF Init, IInv, TypeOK, MarkedIsDurable, Covered, CarriedIsDurable,
     AckedCandidates, NotYetAcked, ProbesStayOut, Phases, Answers, Success, Partitioned, Committed

(* A handler that answers gives up what it carries.  It keeps the          *)
(* invariant if nothing durable is lost and a success is deserved.         *)
LEMMA FinishKeeps ==
    ASSUME IInv, NEW d \in Deliveries, NEW answer \in Answers, Finish(d, answer),
           raw \subseteq raw', raw' \subseteq Events \ Dropped,
           UNCHANGED <<parked, unparked, seen>>,
           answer \in Success /\ d \notin Probes => Candidates(d) \subseteq raw
    PROVE  IInv'
<1>1. /\ phase' = [phase EXCEPT ![d] = "idle"]
      /\ connected' = [connected EXCEPT ![d] = FALSE]
      /\ told' = [told EXCEPT ![d] = IF connected[d] THEN answer ELSE @]
      /\ accepted' = [accepted EXCEPT ![d] = {}]
      /\ crashes' = crashes
  BY DEF Finish
<1>2. TypeOK'
  BY <1>1 DEF IInv, TypeOK, Phases
<1>3. /\ phase'[d] = "idle" /\ told'[d] \in {answer, told[d]}
      /\ \A x \in Deliveries : x # d => /\ phase'[x] = phase[x] /\ told'[x] = told[x]
                                       /\ accepted'[x] = accepted[x]
  BY <1>1 DEF IInv, TypeOK
<1>4. MarkedIsDurable'
  BY DEF IInv, MarkedIsDurable
<1>5. Covered'
  BY <1>3 DEF IInv, Covered, Partitioned
<1>6. CarriedIsDurable'
  BY <1>3 DEF IInv, CarriedIsDurable, Committed
<1>7. AckedCandidates'
  BY <1>3 DEF IInv, AckedCandidates
<1>8. NotYetAcked'
  BY <1>3 DEF IInv, NotYetAcked
<1>9. ProbesStayOut'
  BY <1>3, IngestAssumption DEF IInv, ProbesStayOut
<1> QED
  BY <1>2, <1>4, <1>5, <1>6, <1>7, <1>8, <1>9 DEF IInv

(* A handler that goes on keeps the invariant if it has what its next      *)
(* phase demands.                                                          *)
LEMMA ProceedKeeps ==
    ASSUME IInv, NEW d \in Deliveries, NEW next \in Phases, Proceed(d, next),
           phase[d] # "idle", d \in Probes => next = "received",
           raw \subseteq raw', raw' \subseteq Events \ Dropped,
           parked' \subseteq Events, unparked' \subseteq Events,
           seen' \subseteq raw',
           accepted' \in [Deliveries -> SUBSET (Events \ Dropped)],
           \A x \in Deliveries : x # d => accepted'[x] = accepted[x],
           next \in Partitioned => Candidates(d) \subseteq raw' \cup accepted'[d],
           next \in Committed => accepted'[d] \subseteq raw'
    PROVE  IInv'
<1>1. phase' = [phase EXCEPT ![d] = next] /\ UNCHANGED <<connected, told, crashes>>
  BY DEF Proceed
<1>2. TypeOK'
  BY <1>1 DEF IInv, TypeOK
<1>3. phase'[d] = next /\ \A x \in Deliveries : x # d => phase'[x] = phase[x]
  BY <1>1 DEF IInv, TypeOK
<1>4. MarkedIsDurable'
  BY DEF MarkedIsDurable
<1>5. Covered'
  BY <1>3 DEF IInv, Covered
<1>6. CarriedIsDurable'
  BY <1>3 DEF IInv, CarriedIsDurable
<1>7. AckedCandidates'
  BY <1>1 DEF IInv, AckedCandidates
<1>8. NotYetAcked'
  BY <1>1, <1>3 DEF IInv, NotYetAcked
<1>9. ProbesStayOut'
  BY <1>3, IngestAssumption DEF IInv, ProbesStayOut
<1> QED
  BY <1>2, <1>4, <1>5, <1>6, <1>7, <1>8, <1>9 DEF IInv

-----------------------------------------------------------------------------
(* Every step of the receiver preserves the inductive invariant.           *)
LEMMA StepIInv == IInv /\ [Next]_vars => IInv'
<1> SUFFICES ASSUME IInv, [Next]_vars PROVE IInv'
  OBVIOUS
<1> USE DEF IInv
<1>1. ASSUME NEW d \in Deliveries, Send(d) PROVE IInv'
  <2>1. TypeOK'
    BY <1>1 DEF Send, TypeOK, Phases, Answers, Success
  <2>2. /\ phase'[d] = "received" /\ told'[d] = "none" /\ phase[d] = "idle"
        /\ \A x \in Deliveries : x # d => phase'[x] = phase[x] /\ told'[x] = told[x]
        /\ UNCHANGED <<accepted, raw, seen>>
    BY <1>1 DEF Send, TypeOK
  <2>3. MarkedIsDurable' /\ Covered' /\ CarriedIsDurable'
    BY <2>2 DEF MarkedIsDurable, Covered, CarriedIsDurable, Partitioned, Committed
  <2>4. AckedCandidates' /\ NotYetAcked'
    BY <2>2 DEF AckedCandidates, NotYetAcked, Success
  <2>5. ProbesStayOut'
    BY <2>2, IngestAssumption DEF ProbesStayOut
  <2> QED
    BY <2>1, <2>3, <2>4, <2>5
<1>2. ASSUME NEW d \in Deliveries, HangUp(d) PROVE IInv'
  <2>1. UNCHANGED <<phase, told, accepted, raw, parked, unparked, seen, crashes>>
    BY <1>2 DEF HangUp
  <2>2. TypeOK'
    BY <1>2, <2>1 DEF HangUp, TypeOK
  <2> QED
    BY <2>1, <2>2 DEF MarkedIsDurable, Covered, CarriedIsDurable, AckedCandidates, NotYetAcked,
       ProbesStayOut
<1>3. ASSUME NEW d \in Deliveries, Refuse(d) PROVE IInv'
  <2> PICK answer \in {"retry", "refused"} : Finish(d, answer)
    BY <1>3 DEF Refuse
  <2>1. answer \in Answers /\ answer \notin Success
    BY DEF Answers, Success
  <2> QED
    BY <1>3, <2>1, FinishKeeps DEF Refuse, TypeOK
<1>4. ASSUME NEW d \in Deliveries, AnswerProbe(d) PROVE IInv'
  <2>1. "accepted" \in Answers
    BY DEF Answers, Success
  <2> QED
    BY <1>4, <2>1, FinishKeeps DEF AnswerProbe, TypeOK
<1>5. ASSUME NEW d \in Deliveries, Admit(d) PROVE IInv'
  <2>1. "admitted" \in Phases /\ "admitted" \notin Partitioned /\ "admitted" \notin Committed
    BY DEF Phases, Partitioned, Committed
  <2> QED
    BY <1>5, <2>1, ProceedKeeps DEF Admit, TypeOK, MarkedIsDurable
<1>6. ASSUME NEW d \in Deliveries, Partition(d) PROVE IInv'
  <2>1. "partitioned" \in Phases /\ "partitioned" \notin Committed
    BY DEF Phases, Committed
  <2> PICK suppressed \in {seen, {}} :
          accepted' = [accepted EXCEPT ![d] = Candidates(d) \ suppressed]
    BY <1>6 DEF Partition
  <2>2. suppressed \subseteq raw
    BY DEF MarkedIsDurable
  <2>3. accepted' \in [Deliveries -> SUBSET (Events \ Dropped)]
    BY CandidatesType DEF TypeOK
  <2>4. /\ accepted'[d] = Candidates(d) \ suppressed
        /\ \A x \in Deliveries : x # d => accepted'[x] = accepted[x]
    BY DEF TypeOK
  <2>5. Candidates(d) \subseteq raw \cup accepted'[d]
    BY <2>2, <2>4
  <2>6. d \notin Probes
    BY <1>6 DEF Partition, ProbesStayOut
  <2> QED
    BY <1>6, <2>1, <2>3, <2>4, <2>5, <2>6, ProceedKeeps DEF Partition, TypeOK, MarkedIsDurable
<1>7. ASSUME NEW d \in Deliveries, Commit(d) PROVE IInv'
  <2>1. "committed" \in Phases /\ phase[d] \in Partitioned
    BY <1>7 DEF Commit, Phases, Partitioned
  <2>2. d \notin Probes
    BY <1>7 DEF Commit, ProbesStayOut
  <2>3. raw' = raw \cup accepted[d] /\ raw' \subseteq Events \ Dropped
    BY <1>7 DEF Commit, TypeOK
  <2>4. Candidates(d) \subseteq raw \cup accepted[d]
    BY <2>1 DEF Covered
  <2> QED
    BY <1>7, <2>1, <2>2, <2>3, <2>4, ProceedKeeps DEF Commit, TypeOK, MarkedIsDurable
<1>8. ASSUME NEW d \in Deliveries, CommitFails(d) PROVE IInv'
  <2>1. "retry" \in Answers /\ "retry" \notin Success
    BY DEF Answers, Success
  <2> PICK some \in SUBSET accepted[d] : raw' = raw \cup some
    BY <1>8 DEF CommitFails
  <2>2. raw \subseteq raw' /\ raw' \subseteq Events \ Dropped
    BY DEF TypeOK
  <2> QED
    BY <1>8, <2>1, <2>2, FinishKeeps DEF CommitFails
<1>9. ASSUME NEW d \in Deliveries, DeadLetter(d) PROVE IInv'
  <2>1. "deadlettered" \in Phases /\ phase[d] \in Partitioned /\ phase[d] \in Committed
    BY <1>9 DEF DeadLetter, Phases, Partitioned, Committed
  <2>2. d \notin Probes
    BY <1>9 DEF DeadLetter, ProbesStayOut
  <2>3. parked' \subseteq Events /\ unparked' \subseteq Events
    BY <1>9, RejectedType DEF DeadLetter, TypeOK
  <2>4. Candidates(d) \subseteq raw \cup accepted[d] /\ accepted[d] \subseteq raw
    BY <2>1 DEF Covered, CarriedIsDurable
  <2> QED
    BY <1>9, <2>1, <2>2, <2>3, <2>4, ProceedKeeps DEF DeadLetter, TypeOK, MarkedIsDurable
<1>10. ASSUME NEW d \in Deliveries, Mark(d) PROVE IInv'
  <2>1. "marked" \in Phases /\ phase[d] \in Partitioned /\ phase[d] \in Committed
    BY <1>10 DEF Mark, Phases, Partitioned, Committed
  <2>2. d \notin Probes
    BY <1>10 DEF Mark, ProbesStayOut
  <2>3. Candidates(d) \subseteq raw \cup accepted[d] /\ accepted[d] \subseteq raw
    BY <2>1 DEF Covered, CarriedIsDurable
  <2>4. seen' \subseteq raw
    BY <1>10, <2>3 DEF Mark, MarkedIsDurable
  <2> QED
    BY <1>10, <2>1, <2>2, <2>3, <2>4, ProceedKeeps DEF Mark, TypeOK
<1>11. ASSUME NEW d \in Deliveries, Answer(d) PROVE IInv'
  <2> PICK answer \in Success : Finish(d, answer)
    BY <1>11 DEF Answer, Success
  <2>1. answer \in Answers
    BY DEF Answers
  <2>2. phase[d] \in Partitioned /\ phase[d] \in Committed
    BY <1>11 DEF Answer, Partitioned, Committed
  <2>3. Candidates(d) \subseteq raw
    BY <2>2 DEF Covered, CarriedIsDurable
  <2> QED
    BY <1>11, <2>1, <2>3, FinishKeeps DEF Answer, TypeOK
<1>12. ASSUME NEW e \in Events, Expire(e) PROVE IInv'
  <2>1. /\ UNCHANGED <<phase, connected, told, accepted, raw, parked, unparked, crashes>>
        /\ seen' \subseteq seen
    BY <1>12 DEF Expire
  <2>2. TypeOK'
    BY <2>1 DEF TypeOK
  <2> QED
    BY <2>1, <2>2 DEF MarkedIsDurable, Covered, CarriedIsDurable, AckedCandidates, NotYetAcked,
       ProbesStayOut
<1>13. ASSUME Crash PROVE IInv'
  <2>1. TypeOK'
    BY <1>13, IngestAssumption DEF Crash, TypeOK, Phases
  <2>2. /\ UNCHANGED <<told, raw, seen>>
        /\ \A d \in Deliveries : phase'[d] = "idle" /\ accepted'[d] = {}
    BY <1>13 DEF Crash
  <2>3. MarkedIsDurable' /\ Covered' /\ CarriedIsDurable'
    BY <2>2 DEF MarkedIsDurable, Covered, CarriedIsDurable, Partitioned, Committed
  <2>4. AckedCandidates' /\ NotYetAcked' /\ ProbesStayOut'
    BY <2>2, IngestAssumption DEF AckedCandidates, NotYetAcked, ProbesStayOut
  <2> QED
    BY <2>1, <2>3, <2>4
<1>14. ASSUME UNCHANGED vars PROVE IInv'
  BY <1>14 DEF vars, TypeOK, MarkedIsDurable, Covered, CarriedIsDurable, AckedCandidates,
     NotYetAcked, ProbesStayOut
<1> QED
  BY <1>1, <1>2, <1>3, <1>4, <1>5, <1>6, <1>7, <1>8, <1>9, <1>10, <1>11, <1>12, <1>13, <1>14
  DEF Next, Handle

(* IInv is an invariant of the push path.                                  *)
THEOREM Invariance == Spec => []IInv
  BY InitIInv, StepIInv, PTL DEF Spec

(* The push path's state keeps its types: in particular no filtered event  *)
(* is ever accepted or committed.                                          *)
THEOREM TypeCorrect == Spec => []TypeOK
<1>1. IInv => TypeOK
  BY DEF IInv
<1> QED
  BY <1>1, Invariance, PTL

(* An event is never marked as seen before it is durable.                  *)
THEOREM MarkersAreDurable == Spec => []MarkedIsDurable
<1>1. IInv => MarkedIsDurable
  BY DEF IInv
<1> QED
  BY <1>1, Invariance, PTL
-----------------------------------------------------------------------------
(* What the receiver owes is among the candidates, if every rejection      *)
(* lands on its own envelope.                                              *)
LEMMA KeptAreCandidates ==
    ASSUME Aligned, NEW d \in Deliveries, d \notin Probes
    PROVE  Kept(d) \subseteq Candidates(d)
<1> SUFFICES ASSUME NEW i \in Positions(d), Records[d][i] \notin Unparseable \cup Dropped
             PROVE  Records[d][i] \in Candidates(d)
  BY DEF Kept, EventsAt
<1>1. i \in Enveloped(d)
  BY DEF Enveloped
<1>2. i \notin TakenAsRejected(d)
  BY DEF Aligned, RejectionIndices
<1> QED
  BY <1>1, <1>2 DEF Candidates, EventsAt

(* Without filters every rejection lands on its own envelope: the envelope *)
(* of record i is the i-th (publisher.BuildEnvelopes).                     *)
THEOREM Aligned_NoFilters == Dropped = {} => Aligned
<1> SUFFICES ASSUME Dropped = {}, NEW d \in Deliveries
             PROVE  TakenAsRejected(d) = RejectionIndices(d)
  BY DEF Aligned
<1>1. Enveloped(d) = Positions(d)
  BY DEF Enveloped
<1>2. Len(Records[d]) \in Nat
  BY IngestAssumption
<1>3. ASSUME NEW i \in Positions(d) PROVE EnvelopeOf(d, i) = i
  <2>1. i \in Nat /\ 1 <= i /\ i <= Len(Records[d])
    BY <1>2 DEF Positions
  <2>2. {j \in 1..i : j \in Enveloped(d)} = 1..i
    BY <1>1, <1>2, <2>1 DEF Positions
  <2>3. Cardinality(1..i) = i
    BY <2>1, FS_Interval
  <2> QED
    BY <2>2, <2>3 DEF EnvelopeOf
<1>4. RejectionIndices(d) \subseteq Positions(d)
  BY DEF RejectionIndices
<1> QED
  BY <1>1, <1>3, <1>4 DEF TakenAsRejected

LEMMA IInvAcked == Aligned /\ IInv => AckedIsDurable
<1> SUFFICES ASSUME Aligned, IInv, NEW d \in Deliveries, told[d] \in Success
             PROVE  Kept(d) \subseteq raw
  BY DEF AckedIsDurable
<1>1. CASE d \in Probes
  BY <1>1 DEF Kept
<1>2. CASE d \notin Probes
  BY <1>2, KeptAreCandidates DEF IInv, AckedCandidates
<1> QED
  BY <1>1, <1>2

(* An acknowledged delivery is durable, whatever fails and interleaves, as *)
(* long as the rejections of each delivery are aligned with its envelopes. *)
(* They are when nothing is filtered; MCIngestFilter shows what is lost    *)
(* when they are not.                                                      *)
THEOREM AckIsDurable == Aligned => (Spec => []AckedIsDurable)
<1> SUFFICES ASSUME Aligned PROVE Spec => []AckedIsDurable
  OBVIOUS
<1>1. IInv => AckedIsDurable
  BY IInvAcked
<1> QED
  BY <1>1, Invariance, PTL

(* Every step of the receiver is a step of the abstract ingest boundary,   *)
(* or invisible to it.                                                     *)
LEMMA StepPromise ==
    ASSUME Aligned, IInv, [Next]_vars
    PROVE  [Promise!Next]_(Promise!vars)
<1> DEFINE acked == {d \in Deliveries : told[d] \in Success}
<1> USE DEF Promise!vars
<1>1. ASSUME UNCHANGED <<raw, told>> PROVE UNCHANGED Promise!vars
  BY <1>1
<1>2. ASSUME NEW d \in Deliveries, Send(d) PROVE UNCHANGED Promise!vars
  BY <1>2 DEF Send, IInv, TypeOK, Success
<1>3. ASSUME NEW d \in Deliveries, NEW answer \in {"retry", "refused"}, Finish(d, answer),
             phase[d] # "idle"
      PROVE  acked' = acked
  BY <1>3 DEF Finish, IInv, TypeOK, Success, NotYetAcked
<1>4. ASSUME NEW d \in Deliveries, NEW answer \in Success, Finish(d, answer), UNCHANGED raw,
             d \notin Probes => Candidates(d) \subseteq raw
      PROVE  [Promise!Next]_(Promise!vars)
  <2>1. acked' = acked \cup {d} \/ acked' = acked
    BY <1>4 DEF Finish, IInv, TypeOK
  <2>2. Kept(d) \subseteq raw
    BY <1>4, KeptAreCandidates DEF Kept
  <2> QED
    BY <1>4, <2>1, <2>2 DEF Promise!Next, Promise!Ack
<1>5. ASSUME raw \subseteq raw', raw' \subseteq Events, acked' = acked
      PROVE  [Promise!Next]_(Promise!vars)
  <2>1. raw' \in SUBSET Events /\ raw' = raw \cup raw'
    BY <1>5
  <2> QED
    BY <1>5, <2>1 DEF Promise!Next, Promise!Commit
<1>6. ASSUME NEW d \in Deliveries, Handle(d) PROVE [Promise!Next]_(Promise!vars)
  <2>1. CASE Refuse(d)
    BY <1>1, <1>3, <2>1 DEF Refuse
  <2>2. CASE AnswerProbe(d)
    BY <1>4, <2>2 DEF AnswerProbe, Success
  <2>3. CASE Admit(d) \/ Partition(d) \/ DeadLetter(d) \/ Mark(d)
    BY <1>1, <2>3 DEF Admit, Partition, DeadLetter, Mark, Proceed
  <2>4. CASE Commit(d)
    <3>1. raw \subseteq raw' /\ raw' \subseteq Events /\ told' = told
      BY <2>4 DEF Commit, Proceed, IInv, TypeOK
    <3> QED
      BY <3>1, <1>5
  <2>5. CASE CommitFails(d)
    <3>1. raw \subseteq raw' /\ raw' \subseteq Events
      BY <2>5 DEF CommitFails, IInv, TypeOK
    <3>2. acked' = acked
      BY <2>5, <1>3 DEF CommitFails
    <3> QED
      BY <3>1, <3>2, <1>5
  <2>6. CASE Answer(d)
    <3>1. PICK answer \in Success : Finish(d, answer)
      BY <2>6 DEF Answer, Success
    <3>2. Candidates(d) \subseteq raw
      BY <2>6 DEF Answer, IInv, Covered, CarriedIsDurable, Partitioned, Committed
    <3> QED
      BY <2>6, <3>1, <3>2, <1>4 DEF Answer
  <2> QED
    BY <1>6, <2>1, <2>2, <2>3, <2>4, <2>5, <2>6 DEF Handle
<1>7. ASSUME (\E d \in Deliveries : HangUp(d)) \/ (\E e \in Events : Expire(e)) \/ Crash
             \/ UNCHANGED vars
      PROVE  UNCHANGED Promise!vars
  BY <1>1, <1>7 DEF HangUp, Expire, Crash, vars
<1> QED
  BY <1>2, <1>6, <1>7 DEF Next

(* The push path implements the promise of the ingest boundary.            *)
THEOREM Refinement == Aligned => (Spec => KeepsPromise)
<1> SUFFICES ASSUME Aligned PROVE Spec => KeepsPromise
  OBVIOUS
<1>1. Init => Promise!Init
  BY DEF Init, Promise!Init, Success
<1>2. IInv /\ [Next]_vars => [Promise!Next]_(Promise!vars)
  BY StepPromise
<1> QED
  BY <1>1, <1>2, Invariance, PTL DEF Spec, KeepsPromise, Promise!Spec
-----------------------------------------------------------------------------
(* Dead letters: what a delivery carries is fit, what is parked is not,    *)
(* and from the dead-letter phase on every rejection has been dealt with.  *)

DealtWith(d) == EventsAt(d, RejectionIndices(d)) \subseteq parked \cup unparked

PInv ==
    /\ parked \subseteq Unparseable
    /\ raw \cap Unparseable = {}
    /\ \A d \in Deliveries : accepted[d] \cap Unparseable = {}
    /\ \A d \in Deliveries : phase[d] \in {"deadlettered", "marked"} => DealtWith(d)
    /\ \A d \in Deliveries : told[d] \in Success /\ d \notin Probes => DealtWith(d)

LEMMA CandidatesFit ==
    ASSUME Aligned, NEW d \in Deliveries PROVE Candidates(d) \cap Unparseable = {}
<1> SUFFICES ASSUME NEW i \in Enveloped(d) \ TakenAsRejected(d)
             PROVE  Records[d][i] \notin Unparseable
  BY DEF Candidates, EventsAt
<1> QED
  BY DEF Aligned, RejectionIndices, Enveloped

LEMMA RejectedUnfit ==
    ASSUME Aligned, NEW d \in Deliveries
    PROVE  /\ EventsAt(d, TakenAsRejected(d)) = EventsAt(d, RejectionIndices(d))
           /\ EventsAt(d, TakenAsRejected(d)) \subseteq Unparseable
  BY DEF Aligned, EventsAt, RejectionIndices

(* The cases of a step in which nothing is parked.                         *)
LEMMA PInvKept ==
    ASSUME PInv, UNCHANGED <<parked, unparked>>, raw' \cap Unparseable = {},
           \A d \in Deliveries : accepted'[d] \cap Unparseable = {},
           \A d \in Deliveries : phase'[d] \in {"deadlettered", "marked"} =>
               phase[d] \in {"deadlettered", "marked"},
           \A d \in Deliveries : told'[d] \in Success /\ d \notin Probes =>
               told[d] \in Success \/ phase[d] \in {"deadlettered", "marked"}
    PROVE  PInv'
  BY DEF PInv, DealtWith

LEMMA FinishParks ==
    ASSUME IInv, PInv, NEW d \in Deliveries, NEW answer, Finish(d, answer),
           UNCHANGED <<parked, unparked>>, raw' \cap Unparseable = {},
           answer \in Success /\ d \notin Probes => phase[d] = "marked"
    PROVE  PInv'
<1>1. /\ phase'[d] = "idle" /\ told'[d] \in {answer, told[d]} /\ accepted'[d] = {}
      /\ \A x \in Deliveries : x # d => /\ phase'[x] = phase[x] /\ told'[x] = told[x]
                                       /\ accepted'[x] = accepted[x]
  BY DEF Finish, IInv, TypeOK
<1>2. \A x \in Deliveries : accepted'[x] \cap Unparseable = {}
  BY <1>1 DEF PInv
<1> QED
  BY <1>1, <1>2, PInvKept

LEMMA StepPInv == Aligned /\ IInv /\ PInv /\ [Next]_vars => PInv'
<1> SUFFICES ASSUME Aligned, IInv, PInv, [Next]_vars PROVE PInv'
  OBVIOUS
<1>1. ASSUME NEW d \in Deliveries, Send(d) PROVE PInv'
  <2>1. /\ \A x \in Deliveries : phase'[x] \in {"deadlettered", "marked"} => phase'[x] = phase[x]
        /\ \A x \in Deliveries : told'[x] \in Success => told'[x] = told[x]
        /\ UNCHANGED <<accepted, raw, parked, unparked>>
    BY <1>1 DEF Send, IInv, TypeOK, Success
  <2> QED
    BY <2>1, PInvKept DEF PInv
<1>2. ASSUME NEW d \in Deliveries, Refuse(d) \/ AnswerProbe(d) PROVE PInv'
  <2>1. \E answer \in Answers : Finish(d, answer) /\ (answer \in Success => d \in Probes)
    BY <1>2 DEF Refuse, AnswerProbe, Answers, Success
  <2>2. UNCHANGED <<parked, unparked, raw>>
    BY <1>2 DEF Refuse, AnswerProbe
  <2> QED
    BY <2>1, <2>2, FinishParks DEF PInv
<1>3. ASSUME NEW d \in Deliveries, Admit(d) \/ Commit(d) PROVE PInv'
  <2>1. /\ \A x \in Deliveries : phase'[x] \in {"deadlettered", "marked"} => phase'[x] = phase[x]
        /\ UNCHANGED <<accepted, told, parked, unparked>>
    BY <1>3 DEF Admit, Commit, Proceed, IInv, TypeOK
  <2>2. raw' \cap Unparseable = {}
    BY <1>3 DEF Admit, Commit, PInv
  <2> QED
    BY <2>1, <2>2, PInvKept DEF PInv
<1>4. ASSUME NEW d \in Deliveries, Partition(d) PROVE PInv'
  <2>1. /\ \A x \in Deliveries : phase'[x] \in {"deadlettered", "marked"} => phase'[x] = phase[x]
        /\ UNCHANGED <<told, raw, parked, unparked>>
    BY <1>4 DEF Partition, Proceed, IInv, TypeOK
  <2>2. /\ accepted'[d] \subseteq Candidates(d)
        /\ \A x \in Deliveries : x # d => accepted'[x] = accepted[x]
    BY <1>4 DEF Partition, IInv, TypeOK
  <2>3. \A x \in Deliveries : accepted'[x] \cap Unparseable = {}
    BY <2>2, CandidatesFit DEF PInv
  <2> QED
    BY <2>1, <2>3, PInvKept DEF PInv
<1>5. ASSUME NEW d \in Deliveries, CommitFails(d) PROVE PInv'
  <2>1. Finish(d, "retry") /\ "retry" \notin Success /\ UNCHANGED <<parked, unparked>>
    BY <1>5 DEF CommitFails, Success
  <2>2. raw' \cap Unparseable = {}
    BY <1>5 DEF CommitFails, PInv
  <2> QED
    BY <2>1, <2>2, FinishParks
<1>6. ASSUME NEW d \in Deliveries, DeadLetter(d) PROVE PInv'
  <2> DEFINE rejected == EventsAt(d, TakenAsRejected(d))
  <2>1. PICK written \in SUBSET rejected :
            parked' = parked \cup written /\ unparked' = unparked \cup (rejected \ written)
    BY <1>6 DEF DeadLetter
  <2>2. /\ \A x \in Deliveries : x # d => phase'[x] = phase[x]
        /\ UNCHANGED <<accepted, told, raw>>
    BY <1>6 DEF DeadLetter, Proceed, IInv, TypeOK
  <2>3. parked' \subseteq Unparseable
    BY <2>1, RejectedUnfit DEF PInv
  <2>4. DealtWith(d)'
    BY <2>1, RejectedUnfit DEF DealtWith
  <2>5. \A x \in Deliveries : DealtWith(x) => DealtWith(x)'
    BY <2>1 DEF DealtWith
  <2> QED
    BY <2>2, <2>3, <2>4, <2>5 DEF PInv
<1>7. ASSUME NEW d \in Deliveries, Mark(d) PROVE PInv'
  <2>1. /\ phase[d] = "deadlettered"
        /\ \A x \in Deliveries : x # d => phase'[x] = phase[x]
        /\ UNCHANGED <<accepted, told, raw, parked, unparked>>
    BY <1>7 DEF Mark, Proceed, IInv, TypeOK
  <2> QED
    BY <2>1, PInvKept DEF PInv
<1>8. ASSUME NEW d \in Deliveries, Answer(d) PROVE PInv'
  <2>1. \E answer \in Answers : Finish(d, answer)
    BY <1>8 DEF Answer, Answers, Success
  <2>2. phase[d] = "marked" /\ UNCHANGED <<raw, parked, unparked>>
    BY <1>8 DEF Answer
  <2> QED
    BY <2>1, <2>2, FinishParks DEF PInv
<1>9. ASSUME Crash PROVE PInv'
  <2>1. /\ \A d \in Deliveries : phase'[d] = "idle" /\ accepted'[d] = {}
        /\ UNCHANGED <<told, raw, parked, unparked>>
    BY <1>9 DEF Crash
  <2> QED
    BY <2>1, PInvKept DEF PInv
<1>10. ASSUME UNCHANGED <<phase, told, accepted, raw, parked, unparked>> PROVE PInv'
  BY <1>10, PInvKept DEF PInv
<1> QED
  BY <1>1, <1>2, <1>3, <1>4, <1>5, <1>6, <1>7, <1>8, <1>9, <1>10
  DEF Next, Handle, HangUp, Expire, vars

(* With aligned rejections, fit and unfit records never mix: every         *)
(* rejected record of an acknowledged delivery is on the dead-letter topic *)
(* or in the log, and no fit one is.                                       *)
THEOREM RejectionsAreParked == Aligned => (Spec => []RejectedIsParked)
<1> SUFFICES ASSUME Aligned PROVE Spec => []RejectedIsParked
  OBVIOUS
<1>1. Init => PInv
  BY DEF Init, PInv, Success
<1>2. IInv /\ PInv /\ [Next]_vars => PInv'
  BY StepPInv
<1>3. PInv => RejectedIsParked
  BY DEF PInv, RejectedIsParked, DealtWith
<1> QED
  BY <1>1, <1>2, <1>3, Invariance, PTL DEF Spec
-----------------------------------------------------------------------------
(* The quota of a feed and the end of a service, in MCIngest.              *)

(* Deliveries and limits are counted.                                      *)
Volume == [events : Nat, bytes : Nat]
VolumesAssumption == FeedLimits \subseteq Volume /\ \A d \in DOMAIN Sizes : Sizes[d] \in Volume

(* A counter has at least what was let through in its time; the limit was  *)
(* compared with all of it.                                                *)
QuotaInv ==
    /\ limit \in Volume /\ used \in Volume /\ let \in Volume
    /\ \A what \in {"events", "bytes"} :
          limit[what] > 0 => let[what] <= used[what] /\ let[what] <= limit[what]

LEMMA QuotaSteps ==
    ASSUME VolumesAssumption, QuotaInv, Quotas!Next
    PROVE  QuotaInv'
<1>1. ASSUME NEW d \in DOMAIN Sizes, NEW what \in {"events", "bytes"}, NEW next, Quotas!Charge(d, what, next)
      PROVE  QuotaInv'
  <2> DEFINE total == Quotas!Total(what, d)
  <2>1. /\ Sizes[d][what] \in Nat /\ used[what] \in Nat /\ limit[what] \in Nat /\ let[what] \in Nat
    BY DEF VolumesAssumption, QuotaInv, Volume
  <2>2. /\ total \in Nat
        /\ total > limit[what] \/ total = used[what] + Sizes[d][what]
    BY <2>1 DEF Quotas!Total
  <2>3. /\ used' = [used EXCEPT ![what] = total] /\ limit' = limit
        /\ \/ let' = let
           \/ /\ limit[what] = 0 \/ total <= limit[what]
              /\ let' = [let EXCEPT ![what] = @ + Sizes[d][what]]
    BY <1>1, <2>1, <2>2 DEF Quotas!Charge, Quotas!Over
  <2> QED
    BY <2>1, <2>2, <2>3 DEF QuotaInv, Volume
<1>2. ASSUME NEW d \in DOMAIN Sizes, NEW what \in {"events", "bytes"}, Quotas!FailOpen(d, what)
      PROVE  QuotaInv'
  <2> DEFINE total == Quotas!Total(what, d)
  <2>1. /\ Sizes[d][what] \in Nat /\ used[what] \in Nat /\ limit[what] \in Nat /\ let[what] \in Nat
    BY DEF VolumesAssumption, QuotaInv, Volume
  <2>2. total \in Nat /\ (limit[what] > 0 /\ used[what] <= limit[what] => total >= used[what])
    BY <2>1 DEF Quotas!Total
  <2>3. total > limit[what] \/ total = used[what] + Sizes[d][what]
    BY <2>1 DEF Quotas!Total
  <2>4. (used' = used \/ used' = [used EXCEPT ![what] = total]) /\ UNCHANGED <<limit, let>>
    BY <1>2 DEF Quotas!FailOpen
  <2> QED
    BY <2>1, <2>2, <2>3, <2>4 DEF QuotaInv, Volume
<1>3. ASSUME Quotas!NextSecond \/ Quotas!NextDay PROVE QuotaInv'
  BY <1>3 DEF Quotas!NextSecond, Quotas!NextDay, QuotaInv, Volume
<1>4. ASSUME UNCHANGED <<limit, used, let>> PROVE QuotaInv'
  BY <1>4 DEF QuotaInv
<1> QED
  BY <1>1, <1>2, <1>3, <1>4
     DEF Quotas!Next, Quotas!Check, Quotas!CheckEventRate, Quotas!CheckDailyBytes

(* What is let through in a second or a day stays within the feed's limit, *)
(* for any deliveries and limits, however many receivers charge at once    *)
(* and whenever a counter is out of reach.                                 *)
THEOREM QuotaIsKept == ASSUME VolumesAssumption PROVE MCSpec => []LimitsHold
<1>1. MCInit => QuotaInv
  BY DEF MCInit, QuotaInv, Quotas!Init, VolumesAssumption, Volume, AnyLimit
<1>2. QuotaInv /\ [MCNext]_allVars => QuotaInv'
  <2> SUFFICES ASSUME QuotaInv, [MCNext]_allVars PROVE QuotaInv'
    OBVIOUS
  <2>1. CASE Quotas!Next
    BY <2>1, QuotaSteps
  <2>2. CASE UNCHANGED charging
    BY <2>2 DEF charging, QuotaInv
  <2> QED
    BY <2>1, <2>2 DEF MCNext, allVars
<1>3. QuotaInv => LimitsHold
  BY DEF QuotaInv, LimitsHold, Quotas!LimitsHold
<1> QED
  BY <1>1, <1>2, <1>3, PTL DEF MCSpec

(* A client is closed once nothing works with it any more, and nothing     *)
(* starts to.                                                              *)
ClosingInv ==
    /\ stage \in [Services!Services -> {"running", "draining", "closing", "exited"}]
    /\ worker \in [Workers -> {"running", "backoff", "returned"}]
    /\ DOMAIN open = Services!Services
    /\ \A s \in Services!Services :
          stage[s] \in {"running", "draining"} => open[s] = Services!Registered[s]
    /\ stage["processor"] \in {"closing", "exited"} => \A w \in Workers : worker[w] = "returned"
    /\ stage["ingest"] \in {"closing", "exited"} /\ "ingest" \notin late =>
          \A q \in Requests : request[q] # "handled"

LEMMA ClosingSteps ==
    ASSUME ClosingInv, Services!Next
    PROVE  ClosingInv'
<1> USE DEF Services!Services
<1>1. ASSUME NEW w \in Workers, Services!Fails(w) \/ Services!Proceeds(w) PROVE ClosingInv'
  BY <1>1 DEF Services!Fails, Services!Proceeds, Services!Restarts, Services!Returns, Services!Cancelled, ClosingInv
<1>2. ASSUME NEW q \in Requests, Services!Takes(q) \/ Services!Answers(q) PROVE ClosingInv'
  BY <1>2 DEF Services!Takes, Services!Answers, ClosingInv
<1>3. ASSUME Services!Flushes PROVE ClosingInv'
  BY <1>3 DEF Services!Flushes, ClosingInv
<1>4. ASSUME NEW s \in Services!Services, Services!Signal(s) \/ Services!GraceEnds(s) PROVE ClosingInv'
  BY <1>4 DEF Services!Signal, Services!GraceEnds, ClosingInv
<1>5. ASSUME NEW s \in Services!Services, Services!Drains(s) PROVE ClosingInv'
  BY <1>5 DEF Services!Drains, Services!Drained, ClosingInv
<1>6. ASSUME NEW s \in Services!Services, Services!Closes(s) \/ Services!Exits(s) PROVE ClosingInv'
  <2>1. CASE Services!Closes(s)
    BY <2>1 DEF Services!Closes, ClosingInv
  <2>2. CASE Services!Exits(s)
    BY <2>2 DEF Services!Exits, ClosingInv
  <2> QED
    BY <1>6, <2>1, <2>2
<1> QED
  BY <1>1, <1>2, <1>3, <1>4, <1>5, <1>6 DEF Services!Next, Services!ShutsDown

(* No client is closed under a worker, nor under a delivery within the     *)
(* grace period, however many workers fail and deliveries come.            *)
THEOREM ClosedInOrder == MCSpec => []ClosedAfterUse
<1>1. MCInit => ClosingInv
  BY DEF MCInit, ClosingInv, Services!Init, Services!Services, Services!Registered
<1>2. ClosingInv /\ [MCNext]_allVars => ClosingInv'
  <2> SUFFICES ASSUME ClosingInv, [MCNext]_allVars PROVE ClosingInv'
    OBVIOUS
  <2>1. CASE Services!Next
    BY <2>1, ClosingSteps
  <2>2. CASE UNCHANGED running
    BY <2>2 DEF running, ClosingInv
  <2> QED
    BY <2>1, <2>2 DEF MCNext, allVars
<1>3. ClosingInv => ClosedAfterUse
  <2> SUFFICES ASSUME ClosingInv PROVE ClosedAfterUse
    OBVIOUS
  <2>1. Len(Services!Registered["processor"]) = 3 /\ Len(Services!Registered["ingest"]) = 3
    BY DEF Services!Registered
  <2>2. \A s \in {"processor", "ingest"} : Len(open[s]) < 3 => stage[s] \in {"closing", "exited"}
    BY <2>1 DEF ClosingInv, Services!Services
  <2> QED
    BY <2>2 DEF ClosingInv, ClosedAfterUse, Services!ClosedAfterUse
<1> QED
  BY <1>1, <1>2, <1>3, PTL DEF MCSpec
=============================================================================
