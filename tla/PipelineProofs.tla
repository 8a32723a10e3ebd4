--------------------------- MODULE PipelineProofs ---------------------------
(***************************************************************************)
(* Proofs about the consumers, for any number of processors, records and   *)
(* faults.                                                                 *)
(*                                                                         *)
(* The argument: what the owner of a partition would commit is what it has *)
(* in hand (OwnerHolds), and a worker commits only when everything it has  *)
(* in hand is accounted for (NormalizerAt, DrainAt), so the committed      *)
(* offset never passes a record that is not.  A batch keeps its facts      *)
(* while other workers run, because stores and topics only grow.           *)
(***************************************************************************)
EXTENDS Pipeline, TLAPS, WellFoundedInduction

(* The fetch in hand lies on the topic and is empty between batches.       *)
InPlace(g, p) ==
    /\ batch[g][p] \subseteq 1..Len(topic[g])
    /\ todo[g][p] \subseteq batch[g][p]
    /\ polled[g][p] <= Len(topic[g])
    /\ phase[g][p] \in {"idle", "down"} => batch[g][p] = {}

(* What the owner of a partition would commit is what it has in hand.      *)
OwnerHolds(g, p) ==
    owner[g] = p =>
       /\ phase[g][p] # "down"
       /\ committed[g] <= polled[g][p]
       /\ \A i \in 1..Len(topic[g]) : committed[g] < i /\ i <= polled[g][p] => i \in batch[g][p]

RawStored == {"rawStored", "normalized", "normStored", "rejStored"}
(* How far a normalizer has come with its batch.                           *)
NormalizerAt(p) ==
    /\ passed[p] \subseteq Parsed(p)
    /\ todo["raw"][p] \subseteq Undecodable(p)
    /\ phase["raw"][p] # "handled" => todo["raw"][p] = {}
    /\ phase["raw"][p] \in RawStored => Of("raw", Decoded(p)) \subseteq rawEvents
    /\ phase["raw"][p] \in {"normStored", "rejStored"} => Of("raw", passed[p]) \subseteq normalized
    /\ phase["raw"][p] = "rejStored" => \A r \in Of("raw", Failed(p)) : rejectedRows[r] > 0
    /\ phase["raw"][p] = "handled" =>
          \A i \in batch["raw"][p] : i \in todo["raw"][p] \/ Accounted(topic["raw"][i])

(* How far a drain has come with its batch.                                *)
DrainAt(p) ==
    /\ phase["dlq"][p] \in {"down", "idle", "handled"}
    /\ \A i \in batch["dlq"][p] : i \in todo["dlq"][p] \/ Drained(topic["dlq"][i])

(* What each topic carries.                                                *)
Sorted ==
    /\ \A i \in 1..Len(topic["raw"]) : topic["raw"][i] \in Fit \cup Unfit \cup Broken
    /\ \A i \in 1..Len(topic["dlq"]) : topic["dlq"][i] \in Broken \cup Refused

IInv == /\ TypeOK
        /\ \A g \in Groups : committed[g] <= Len(topic[g])
        /\ \A g \in Groups, p \in Processors : InPlace(g, p) /\ OwnerHolds(g, p)
        /\ \A p \in Processors : NormalizerAt(p) /\ DrainAt(p)
        /\ Sorted
        /\ NothingSkipped
        /\ RawFirst
        /\ ForwardedIsStored

-----------------------------------------------------------------------------
(* What both groups have in common.                                        *)
Ok(g, r) == IF g = "raw" THEN Accounted(r) ELSE Drained(r)

At(g, p) == IF g = "raw" THEN NormalizerAt(p) ELSE DrainAt(p)

(* Topics and stores only grow.                                            *)
Grows ==
    /\ \A g \in Groups : /\ Len(topic[g]) <= Len(topic'[g])
                         /\ \A i \in 1..Len(topic[g]) : topic'[g][i] = topic[g][i]
    /\ rawEvents \subseteq rawEvents'
    /\ normalized \subseteq normalized'
    /\ forwarded \subseteq forwarded'
    /\ \A r \in Records : rejectedRows[r] <= rejectedRows'[r]

(* A step leaves a worker alone, or at least its batch.                    *)
SameBatch(h, q) ==
    /\ phase'[h][q] = phase[h][q]
    /\ batch'[h][q] = batch[h][q]
    /\ todo'[h][q] = todo[h][q]
    /\ h = "raw" => passed'[q] = passed[q]

Same(h, q) == SameBatch(h, q) /\ polled'[h][q] = polled[h][q]

(* What a step owes every worker it touches.                               *)
Sound(h, q) == InPlace(h, q) /\ OwnerHolds(h, q) /\ At(h, q)

-----------------------------------------------------------------------------
(* Every step satisfies Next: a non-empty set of offsets has a least one.  *)
LEMMA LeastIn == ASSUME NEW S \in SUBSET Nat, S # {} PROVE Least(S) \in S
<1> DEFINE R == OpToRel(<, Nat)
<1>1. R = {ss \in Nat \X Nat : ss[1] < ss[2]}
  BY DEF OpToRel
<1>2. IsWellFoundedOn(R, Nat)
  BY NatLessThanWellFounded
<1> HIDE DEF R
<1>3. PICK m \in S : \A k \in S : ~(<<k, m>> \in R)
  BY <1>2, WFMin, Zenon
<1>4. ASSUME NEW k \in S, ~(m <= k) PROVE FALSE
  <2>1. k \in Nat /\ m \in Nat /\ k < m
    BY <1>4
  <2> QED
    BY <2>1, <1>3, <1>1
<1> QED
  BY <1>4 DEF Least

LEMMA LenType ==
    ASSUME TypeOK, TypeOK', NEW g \in Groups
    PROVE  Len(topic[g]) \in Nat /\ Len(topic'[g]) \in Nat
  BY DEF TypeOK

(* What is accounted for stays so, because the stores only grow.           *)
LEMMA OkStays ==
    ASSUME TypeOK, TypeOK', Grows, NEW g \in Groups, NEW r \in Records, Ok(g, r)
    PROVE  Ok(g, r)'
<1>1. Published("dlq") \subseteq Published("dlq")'
  <2> SUFFICES ASSUME NEW i \in 1..Len(topic["dlq"])
               PROVE  topic["dlq"][i] \in {topic'["dlq"][j] : j \in 1..Len(topic'["dlq"])}
    BY DEF Published
  <2>1. Len(topic["dlq"]) \in Nat /\ Len(topic'["dlq"]) \in Nat
    BY LenType DEF Groups
  <2>2. i \in 1..Len(topic'["dlq"]) /\ topic'["dlq"][i] = topic["dlq"][i]
    BY <2>1 DEF Grows, Groups
  <2> QED
    BY <2>2
<1>2. rejectedRows[r] > 0 => rejectedRows'[r] > 0
  BY DEF Grows, TypeOK
<1> QED
  BY <1>1, <1>2 DEF Ok, Accounted, Drained, Grows

LEMMA TopicType ==
    ASSUME TypeOK, NEW g \in Groups, NEW i \in 1..Len(topic[g])
    PROVE  topic[g][i] \in Records
  BY DEF TypeOK

(* What a normalizer has established stays established.                    *)
LEMMA NormalizerStays ==
    ASSUME TypeOK, TypeOK', Grows, NEW p \in Processors, SameBatch("raw", p),
           InPlace("raw", p), NormalizerAt(p)
    PROVE  NormalizerAt(p)'
<1>1. \A i \in batch["raw"][p] : topic'["raw"][i] = topic["raw"][i]
  BY DEF Grows, InPlace, Groups
<1>2. /\ Decoded(p)' = Decoded(p) /\ Parsed(p)' = Parsed(p)
      /\ Failed(p)' = Failed(p) /\ Undecodable(p)' = Undecodable(p)
  BY <1>1 DEF SameBatch, Decoded, Parsed, Failed, Undecodable
<1>3. \A O \in SUBSET batch["raw"][p] : {topic'["raw"][i] : i \in O} = {topic["raw"][i] : i \in O}
  BY <1>1
<1>4. /\ Of("raw", Decoded(p))' = Of("raw", Decoded(p))
      /\ Of("raw", passed[p])' = Of("raw", passed[p])
      /\ Of("raw", Failed(p))' = Of("raw", Failed(p))
  BY <1>2, <1>3 DEF Of, SameBatch, NormalizerAt, Decoded, Parsed, Failed
<1>5. /\ passed'[p] \subseteq Parsed(p)' /\ todo'["raw"][p] \subseteq Undecodable(p)'
      /\ phase'["raw"][p] # "handled" => todo'["raw"][p] = {}
  BY <1>2 DEF SameBatch, NormalizerAt
<1>6. phase'["raw"][p] \in RawStored => Of("raw", Decoded(p))' \subseteq rawEvents'
  BY <1>4 DEF SameBatch, NormalizerAt, Grows
<1>7. phase'["raw"][p] \in {"normStored", "rejStored"} => Of("raw", passed[p])' \subseteq normalized'
  BY <1>4 DEF SameBatch, NormalizerAt, Grows
<1>8. phase'["raw"][p] = "rejStored" => \A r \in Of("raw", Failed(p))' : rejectedRows'[r] > 0
  <2> SUFFICES ASSUME phase'["raw"][p] = "rejStored", NEW r \in Of("raw", Failed(p))'
               PROVE  rejectedRows'[r] > 0
    OBVIOUS
  <2>1. r \in Of("raw", Failed(p)) /\ rejectedRows[r] > 0
    BY <1>4 DEF SameBatch, NormalizerAt
  <2>2. r \in Records
    BY <2>1, TopicType DEF Of, Failed, Decoded, InPlace, Groups
  <2> QED
    BY <2>1, <2>2 DEF Grows, TypeOK
<1>9. phase'["raw"][p] = "handled" =>
        \A i \in batch'["raw"][p] : i \in todo'["raw"][p] \/ Accounted(topic["raw"][i])'
  <2> SUFFICES ASSUME phase'["raw"][p] = "handled", NEW i \in batch'["raw"][p], i \notin todo'["raw"][p]
               PROVE  Accounted(topic["raw"][i])'
    OBVIOUS
  <2>1. Accounted(topic["raw"][i]) /\ topic'["raw"][i] = topic["raw"][i]
    BY <1>1 DEF SameBatch, NormalizerAt
  <2>2. topic["raw"][i] \in Records
    BY TopicType DEF InPlace, Groups, SameBatch
  <2>3. Ok("raw", topic["raw"][i])
    BY <2>1 DEF Ok
  <2>4. \A r \in Records : Ok("raw", r) => Ok("raw", r)'
    BY OkStays DEF Groups
  <2> QED
    BY <2>1, <2>2, <2>3, <2>4 DEF Ok, Accounted, Published
<1> QED
  BY <1>5, <1>6, <1>7, <1>8, <1>9 DEF NormalizerAt

(* Likewise for a drain.                                                   *)
LEMMA DrainStays ==
    ASSUME TypeOK, TypeOK', Grows, NEW p \in Processors, SameBatch("dlq", p),
           InPlace("dlq", p), DrainAt(p)
    PROVE  DrainAt(p)'
<1>1. \A i \in batch["dlq"][p] : topic'["dlq"][i] = topic["dlq"][i] /\ topic["dlq"][i] \in Records
  BY TopicType DEF Grows, InPlace, Groups
<1>2. \A r \in Records : Ok("dlq", r) => Ok("dlq", r)'
  BY OkStays DEF Groups
<1>3. \A r \in Records : Drained(r) => Drained(r)'
  BY <1>2 DEF Ok
<1>4. ASSUME NEW i \in batch'["dlq"][p], i \notin todo'["dlq"][p]
      PROVE  Drained(topic["dlq"][i])'
  BY <1>1, <1>3, <1>4 DEF DrainAt, SameBatch, Drained
<1> QED
  BY <1>4 DEF DrainAt, SameBatch

LEMMA AtStays ==
    ASSUME TypeOK, TypeOK', Grows, NEW g \in Groups, NEW p \in Processors, SameBatch(g, p),
           InPlace(g, p), At(g, p)
    PROVE  At(g, p)'
<1>1. CASE g = "raw"
  BY <1>1, NormalizerStays DEF At
<1>2. CASE g = "dlq"
  BY <1>2, DrainStays DEF At
<1> QED
  BY <1>1, <1>2 DEF Groups

LEMMA InPlaceStays ==
    ASSUME TypeOK, TypeOK', Grows, NEW g \in Groups, NEW p \in Processors, Same(g, p), InPlace(g, p)
    PROVE  InPlace(g, p)'
<1>1. Len(topic[g]) \in Nat /\ Len(topic'[g]) \in Nat /\ Len(topic[g]) <= Len(topic'[g])
  BY DEF TypeOK, Grows
<1>2. polled[g][p] \in Nat
  BY DEF TypeOK
<1>3. 1..Len(topic[g]) \subseteq 1..Len(topic'[g])
  BY <1>1
<1>4. batch'[g][p] \subseteq 1..Len(topic'[g])
  BY <1>3 DEF Same, SameBatch, InPlace
<1>5. polled'[g][p] <= Len(topic'[g])
  BY <1>1, <1>2 DEF Same, SameBatch, InPlace
<1> QED
  BY <1>4, <1>5 DEF Same, SameBatch, InPlace

(* The owner still holds what it would commit if the committed offset did  *)
(* not move: what is new on the topic lies beyond what it has polled.      *)
LEMMA OwnerHoldsStays ==
    ASSUME TypeOK, TypeOK', Grows, NEW g \in Groups, NEW p \in Processors, Same(g, p), InPlace(g, p),
           OwnerHolds(g, p), committed'[g] = committed[g], owner'[g] = p => owner[g] = p
    PROVE  OwnerHolds(g, p)'
<1>1. Len(topic[g]) \in Nat /\ Len(topic'[g]) \in Nat /\ polled[g][p] \in Nat /\ committed[g] \in Nat
  BY DEF TypeOK
<1> SUFFICES ASSUME owner'[g] = p
             PROVE  /\ phase'[g][p] # "down"
                    /\ committed'[g] <= polled'[g][p]
                    /\ \A i \in 1..Len(topic'[g]) :
                          committed'[g] < i /\ i <= polled'[g][p] => i \in batch'[g][p]
  BY DEF OwnerHolds
<1>2. phase'[g][p] # "down" /\ committed'[g] <= polled'[g][p]
  BY DEF Same, SameBatch, OwnerHolds
<1>3. ASSUME NEW i \in 1..Len(topic'[g]), committed'[g] < i, i <= polled'[g][p]
      PROVE  i \in batch'[g][p]
  <2>1. i \in 1..Len(topic[g])
    BY <1>1, <1>3 DEF Same, SameBatch, InPlace
  <2> QED
    BY <2>1, <1>3 DEF Same, SameBatch, OwnerHolds
<1> QED
  BY <1>2, <1>3

LEMMA SkippedStays ==
    ASSUME TypeOK, TypeOK', Grows, NothingSkipped, committed' = committed,
           \A g \in Groups : committed[g] <= Len(topic[g])
    PROVE  NothingSkipped'
<1>1. ASSUME NEW g \in Groups, NEW i \in 1..committed[g], Ok(g, topic[g][i])
      PROVE  Ok(g, topic[g][i])'
  <2>1. i \in 1..Len(topic[g])
    BY DEF TypeOK
  <2>2. topic'[g][i] = topic[g][i] /\ topic[g][i] \in Records
    BY <2>1, TopicType DEF Grows
  <2>3. \A r \in Records : Ok(g, r) => Ok(g, r)'
    BY OkStays
  <2> QED
    BY <2>2, <2>3, <1>1 DEF Ok, Accounted, Drained, Published
<1>2. \A g \in Groups : \A i \in 1..committed[g] : Ok(g, topic[g][i])
  BY DEF NothingSkipped, Ok, Groups
<1>3. \A g \in Groups : \A i \in 1..committed'[g] : Ok(g, topic[g][i])'
  BY <1>1, <1>2
<1> QED
  BY <1>3 DEF NothingSkipped, Ok, Groups, Accounted, Drained, Published

-----------------------------------------------------------------------------
(* A step that leaves the committed offsets alone keeps the invariant if   *)
(* it does for the workers it touches.                                     *)
LEMMA WorkerStep ==
    ASSUME IInv, TypeOK', Grows, committed' = committed,
           \A h \in Groups, q \in Processors :
              \/ Same(h, q) /\ (owner'[h] = q => owner[h] = q)
              \/ Sound(h, q)',
           Sorted', RawFirst', ForwardedIsStored'
    PROVE  IInv'
<1>1. \A h \in Groups : committed'[h] <= Len(topic'[h])
  BY DEF IInv, TypeOK, Grows
<1>2. ASSUME NEW h \in Groups, NEW q \in Processors
      PROVE  Sound(h, q)'
  <2>1. CASE Same(h, q) /\ (owner'[h] = q => owner[h] = q)
    <3>1. SameBatch(h, q) /\ InPlace(h, q) /\ OwnerHolds(h, q) /\ At(h, q)
      BY <2>1 DEF Same, IInv, At
    <3>2. InPlace(h, q)' /\ At(h, q)'
      BY <2>1, <3>1, InPlaceStays, AtStays DEF IInv
    <3>3. OwnerHolds(h, q)'
      BY <3>1, <2>1, OwnerHoldsStays DEF IInv
    <3> QED
      BY <3>2, <3>3 DEF Sound
  <2>2. CASE Sound(h, q)'
    BY <2>2
  <2> QED
    BY <2>1, <2>2
<1>3. \A q \in Processors : NormalizerAt(q)' /\ DrainAt(q)'
  <2> TAKE q \in Processors
  <2>1. At("raw", q)' /\ At("dlq", q)'
    BY <1>2 DEF Groups, Sound
  <2> QED
    BY <2>1 DEF At
<1>4. NothingSkipped'
  BY SkippedStays DEF IInv
<1> QED
  BY <1>1, <1>2, <1>3, <1>4 DEF IInv, Sound

(* A worker that is gone holds nothing.                                    *)
LEMMA Gone ==
    ASSUME TypeOK', NEW g \in Groups, NEW p \in Processors,
           phase'[g][p] = "down", owner'[g] # p, polled'[g][p] = 0,
           batch'[g][p] = {}, todo'[g][p] = {}, g = "raw" => passed'[p] = {}
    PROVE  Sound(g, p)'
<1>1. InPlace(g, p)'
  BY DEF InPlace, TypeOK
<1>2. OwnerHolds(g, p)'
  BY DEF OwnerHolds
<1>3. At(g, p)'
  <2>1. CASE g = "raw"
    BY <2>1 DEF At, NormalizerAt, RawStored
  <2>2. CASE g = "dlq"
    BY <2>2 DEF At, DrainAt
  <2> QED
    BY <2>1, <2>2 DEF Groups
<1> QED
  BY <1>1, <1>2, <1>3 DEF Sound

WorkersOK ==
    /\ owner \in [Groups -> Processors \cup {None}]
    /\ polled \in [Groups -> [Processors -> Nat]]
    /\ phase \in [Groups -> [Processors -> Phases]]
    /\ batch \in [Groups -> [Processors -> SUBSET Nat]]
    /\ todo \in [Groups -> [Processors -> SUBSET Nat]]
    /\ passed \in [Processors -> SUBSET Nat]

LEMMA LeaveType ==
    ASSUME TypeOK, NEW g \in Groups, NEW p \in Processors, Leave(g, p)
    PROVE  WorkersOK'
  BY PipelineAssumption DEF Leave, DropBatch, TypeOK, Phases, WorkersOK

(* A worker that returns an error is gone, and touches no other.           *)
LEMMA LeaveSound ==
    ASSUME TypeOK, TypeOK', NEW g \in Groups, NEW p \in Processors, Leave(g, p)
    PROVE  /\ Sound(g, p)'
           /\ \A h \in Groups, q \in Processors :
                 h # g \/ q # p => Same(h, q) /\ (owner'[h] = q => owner[h] = q)
<1>1. Sound(g, p)'
  <2>1. /\ phase'[g][p] = "down" /\ polled'[g][p] = 0
        /\ batch'[g][p] = {} /\ todo'[g][p] = {}
        /\ g = "raw" => passed'[p] = {}
    BY DEF Leave, DropBatch, TypeOK
  <2>2. owner'[g] # p
    BY PipelineAssumption DEF Leave, TypeOK
  <2> QED
    BY <2>1, <2>2, Gone
<1>2. ASSUME NEW h \in Groups, NEW q \in Processors, h # g \/ q # p
      PROVE  Same(h, q) /\ (owner'[h] = q => owner[h] = q)
  <2>1. /\ phase'[h][q] = phase[h][q] /\ polled'[h][q] = polled[h][q]
        /\ batch'[h][q] = batch[h][q] /\ todo'[h][q] = todo[h][q]
        /\ h = "raw" => passed'[q] = passed[q]
    BY <1>2 DEF Leave, DropBatch, TypeOK
  <2>2. owner'[h] = q => owner[h] = q
    BY PipelineAssumption DEF Leave, TypeOK
  <2> QED
    BY <2>1, <2>2 DEF Same, SameBatch
<1> QED
  BY <1>1, <1>2

(* So it keeps the invariant, whatever part of a write landed.             *)
LEMMA LeaveStep ==
    ASSUME IInv, TypeOK', Grows, committed' = committed,
           NEW g \in Groups, NEW p \in Processors, Leave(g, p),
           Sorted', RawFirst', ForwardedIsStored'
    PROVE  IInv'
<1>1. \A h \in Groups, q \in Processors :
         \/ Same(h, q) /\ (owner'[h] = q => owner[h] = q)
         \/ Sound(h, q)'
  BY LeaveSound DEF IInv
<1> QED
  BY <1>1, WorkerStep

-----------------------------------------------------------------------------
LEMMA InitIInv == Init => IInv
<1> SUFFICES ASSUME Init PROVE IInv
  OBVIOUS
<1>1. TypeOK
  BY PipelineAssumption DEF Init, TypeOK, Groups, Phases
<1>2. \A g \in Groups : committed[g] <= Len(topic[g]) /\ Len(topic[g]) = 0
  BY DEF Init
<1>3. \A g \in Groups, p \in Processors : InPlace(g, p) /\ OwnerHolds(g, p)
  BY PipelineAssumption DEF Init, InPlace, OwnerHolds
<1>4. \A p \in Processors : NormalizerAt(p) /\ DrainAt(p)
  BY DEF Init, NormalizerAt, DrainAt, Groups, RawStored
<1>5. Sorted /\ NothingSkipped
  BY <1>2 DEF Init, Sorted, NothingSkipped, Groups
<1>6. RawFirst /\ ForwardedIsStored
  BY DEF Init, RawFirst, ForwardedIsStored
<1> QED
  BY <1>1, <1>2, <1>3, <1>4, <1>5, <1>6 DEF IInv

-----------------------------------------------------------------------------
(* The offsets of a batch, and the records at them, are what they should   *)
(* be.                                                                     *)
LEMMA DecodedType ==
    ASSUME IInv, NEW p \in Processors
    PROVE  /\ Of("raw", Decoded(p)) \subseteq Fit \cup Unfit
           /\ Of("raw", passed[p]) \subseteq Fit
           /\ Of("raw", passed[p]) \subseteq Of("raw", Decoded(p))
           /\ Of("raw", Failed(p)) \subseteq Of("raw", Decoded(p))
<1>1. InPlace("raw", p) /\ NormalizerAt(p)
  BY DEF IInv, Groups
<1>2. \A i \in Decoded(p) : topic["raw"][i] \in Fit \cup Unfit
  BY <1>1 DEF IInv, Sorted, Decoded, InPlace
<1> QED
  BY <1>1, <1>2 DEF Of, Parsed, Failed, NormalizerAt

(* More rows never hide one.                                               *)
LEMMA RowsGrow ==
    ASSUME TypeOK, NEW R
    PROVE  /\ WithRows(R) \in [Records -> Nat]
           /\ \A r \in Records : rejectedRows[r] <= WithRows(R)[r]
           /\ \A r \in Records : WithRows(R)[r] > 0 <=> rejectedRows[r] > 0 \/ r \in R
<1>1. \A r \in Records : rejectedRows[r] \in Nat
  BY DEF TypeOK
<1>2. \A r \in Records : WithRows(R)[r] = rejectedRows[r] + IF r \in R THEN 1 ELSE 0
  BY DEF WithRows
<1>3. WithRows(R) = [r \in Records |-> WithRows(R)[r]]
  BY DEF WithRows
<1>4. \A r \in Records : WithRows(R)[r] \in Nat
  BY <1>1, <1>2
<1> QED
  BY <1>1, <1>2, <1>3, <1>4

(* A topic that gains a record keeps the others in their places.           *)
LEMMA AppendGrows ==
    ASSUME TypeOK, NEW g \in Groups, NEW r \in Records, topic' = [topic EXCEPT ![g] = Append(@, r)]
    PROVE  /\ topic' \in [Groups -> Seq(Records)]
           /\ \A h \in Groups : /\ Len(topic[h]) <= Len(topic'[h])
                                 /\ \A i \in 1..Len(topic[h]) : topic'[h][i] = topic[h][i]
           /\ \A h \in Groups : \A i \in 1..Len(topic'[h]) :
                 i \in 1..Len(topic[h]) \/ (h = g /\ topic'[h][i] = r)
<1>1. /\ topic'[g] = Append(topic[g], r) /\ topic[g] \in Seq(Records)
      /\ \A h \in Groups : h # g => topic'[h] = topic[h]
  BY DEF TypeOK
<1>2. /\ Len(topic'[g]) = Len(topic[g]) + 1 /\ Len(topic[g]) \in Nat
      /\ \A i \in 1..Len(topic[g]) : topic'[g][i] = topic[g][i]
      /\ topic'[g][Len(topic[g]) + 1] = r
      /\ topic'[g] \in Seq(Records)
  BY <1>1
<1>3. \A h \in Groups : Len(topic[h]) \in Nat
  BY DEF TypeOK
<1>4. topic' \in [Groups -> Seq(Records)]
  BY <1>1, <1>2 DEF TypeOK
<1>5. \A h \in Groups : /\ Len(topic[h]) <= Len(topic'[h])
                        /\ \A i \in 1..Len(topic[h]) : topic'[h][i] = topic[h][i]
  BY <1>1, <1>2, <1>3
<1>6. \A h \in Groups : \A i \in 1..Len(topic'[h]) :
         i \in 1..Len(topic[h]) \/ (h = g /\ topic'[h][i] = r)
  BY <1>1, <1>2
<1> QED
  BY <1>4, <1>5, <1>6

LEMMA TopicKept ==
    ASSUME TypeOK, topic' = topic
    PROVE  \A h \in Groups : /\ Len(topic[h]) <= Len(topic'[h])
                             /\ \A i \in 1..Len(topic[h]) : topic'[h][i] = topic[h][i]
  BY DEF TypeOK

LEMMA StoresKept ==
    ASSUME TypeOK, UNCHANGED stores
    PROVE  /\ rawEvents \subseteq rawEvents' /\ normalized \subseteq normalized'
           /\ forwarded \subseteq forwarded'
           /\ \A r \in Records : rejectedRows[r] <= rejectedRows'[r]
  BY DEF TypeOK, stores

-----------------------------------------------------------------------------
(* The step lemmas: every action keeps the invariant.                      *)

LEMMA ReceiveStep == ASSUME IInv, NEW r \in Records, Receive(r) PROVE IInv' /\ Grows
<1> DEFINE g == IF r \in Refused THEN "dlq" ELSE "raw"
<1>1. g \in Groups /\ topic' = [topic EXCEPT ![g] = Append(@, r)]
  BY DEF Receive, Groups
<1> HIDE DEF g
<1>2. /\ topic' \in [Groups -> Seq(Records)]
      /\ \A h \in Groups : /\ Len(topic[h]) <= Len(topic'[h])
                            /\ \A i \in 1..Len(topic[h]) : topic'[h][i] = topic[h][i]
      /\ \A h \in Groups : \A i \in 1..Len(topic'[h]) :
            i \in 1..Len(topic[h]) \/ (h = g /\ topic'[h][i] = r)
  BY <1>1, AppendGrows DEF IInv
<1>3. TypeOK'
  BY <1>2 DEF Receive, stores, IInv, TypeOK
<1>4. Grows
  BY <1>2, StoresKept DEF Receive, IInv, Grows
<1>5. Sorted'
  BY <1>2 DEF IInv, Sorted, Groups, g, Records
<1>6. RawFirst' /\ ForwardedIsStored'
  BY DEF Receive, stores, IInv, RawFirst, ForwardedIsStored
<1>7. \A h \in Groups, q \in Processors : Same(h, q) /\ (owner'[h] = q => owner[h] = q)
  BY DEF Receive, Same, SameBatch
<1> QED
  BY <1>3, <1>4, <1>5, <1>6, <1>7, WorkerStep DEF Receive

LEMMA AssignStep ==
    ASSUME IInv, NEW g \in Groups, NEW p \in Processors, Assign(g, p) PROVE IInv' /\ Grows
<1>1. TypeOK'
  BY PipelineAssumption DEF Assign, Fault, stores, IInv, TypeOK
<1>2. Grows
  BY TopicKept, StoresKept DEF Assign, IInv, Grows
<1>3. Sorted' /\ RawFirst' /\ ForwardedIsStored'
  BY DEF Assign, stores, IInv, Sorted, RawFirst, ForwardedIsStored
<1>4. Sound(g, p)'
  <2>1. SameBatch(g, p) /\ polled'[g][p] = committed[g] /\ committed' = committed /\ topic' = topic
    BY DEF Assign, SameBatch, IInv, TypeOK
  <2>2. InPlace(g, p) /\ At(g, p) /\ committed[g] \in Nat /\ committed[g] <= Len(topic[g])
    BY DEF IInv, At, TypeOK
  <2>3. At(g, p)'
    BY <1>1, <1>2, <2>1, <2>2, AtStays DEF IInv
  <2>4. InPlace(g, p)'
    BY <2>1, <2>2 DEF InPlace, SameBatch
  <2>5. OwnerHolds(g, p)'
    <3>1. phase'[g][p] # "down"
      BY DEF Assign
    <3>2. \A i \in 1..Len(topic[g]) : ~(committed[g] < i /\ i <= committed[g])
      BY <2>2
    <3> QED
      BY <3>1, <3>2, <2>1, <2>2 DEF OwnerHolds
  <2> QED
    BY <2>3, <2>4, <2>5 DEF Sound
<1>5. ASSUME NEW h \in Groups, NEW q \in Processors, h # g \/ q # p
      PROVE  Same(h, q) /\ (owner'[h] = q => owner[h] = q)
  BY <1>5 DEF Assign, Same, SameBatch, IInv, TypeOK
<1>6. \A h \in Groups, q \in Processors :
         \/ Same(h, q) /\ (owner'[h] = q => owner[h] = q)
         \/ Sound(h, q)'
  BY <1>4, <1>5
<1> QED
  BY <1>1, <1>2, <1>3, <1>6, WorkerStep DEF Assign

(* A step inside one worker's loop touches that worker only.               *)
LEMMA InnerStep ==
    ASSUME IInv, TypeOK', Grows, committed' = committed, owner' = owner,
           NEW g \in Groups, NEW p \in Processors,
           \A h \in Groups, q \in Processors : h # g \/ q # p => Same(h, q),
           Sound(g, p)', Sorted', RawFirst', ForwardedIsStored'
    PROVE  IInv'
<1>1. \A h \in Groups, q \in Processors :
         \/ Same(h, q) /\ (owner'[h] = q => owner[h] = q)
         \/ Sound(h, q)'
  OBVIOUS
<1> QED
  BY <1>1, WorkerStep

LEMMA RestartStep ==
    ASSUME IInv, NEW g \in Groups, NEW p \in Processors, Restart(g, p) PROVE IInv' /\ Grows
<1>1. TypeOK'
  BY DEF Restart, Go, broker, stores, IInv, TypeOK, Phases
<1>2. Grows
  BY TopicKept, StoresKept DEF Restart, broker, IInv, Grows
<1>3. Sorted' /\ RawFirst' /\ ForwardedIsStored'
  BY DEF Restart, broker, stores, IInv, Sorted, RawFirst, ForwardedIsStored
<1>4. \A h \in Groups, q \in Processors : h # g \/ q # p => Same(h, q)
  BY DEF Restart, Go, Same, SameBatch, IInv, TypeOK
<1>5. Sound(g, p)'
  <2>1. phase'[g][p] = "idle" /\ batch'[g][p] = {} /\ todo'[g][p] = {} /\ owner[g] # p
    BY DEF Restart, Go, broker, IInv, TypeOK, InPlace, OwnerHolds
  <2>2. InPlace(g, p)' /\ OwnerHolds(g, p)'
    BY <2>1 DEF Restart, broker, IInv, InPlace, OwnerHolds
  <2>3. At(g, p)'
    <3>1. CASE g = "raw"
      <4>1. passed'[p] = {}
        BY <3>1, <2>1 DEF Restart, IInv, NormalizerAt, Parsed, Decoded, InPlace
      <4> QED
        BY <4>1, <3>1, <2>1 DEF At, NormalizerAt, RawStored
    <3>2. CASE g = "dlq"
      BY <3>2, <2>1 DEF At, DrainAt
    <3> QED
      BY <3>1, <3>2 DEF Groups
  <2> QED
    BY <2>2, <2>3 DEF Sound
<1> QED
  BY <1>1, <1>2, <1>3, <1>4, <1>5, InnerStep DEF Restart, broker

LEMMA PollStep ==
    ASSUME IInv, NEW g \in Groups, NEW p \in Processors, Poll(g, p) PROVE IInv' /\ Grows
<1>1. PICK n \in polled[g][p]+1 .. Len(topic[g]) :
        /\ batch' = [batch EXCEPT ![g][p] = polled[g][p]+1 .. n]
        /\ todo' = [todo EXCEPT ![g][p] = IF g = "dlq" THEN polled[g][p]+1 .. n ELSE {}]
        /\ polled' = [polled EXCEPT ![g][p] = n]
  BY DEF Poll
<1>2. /\ polled[g][p] \in Nat /\ committed[g] \in Nat /\ Len(topic[g]) \in Nat
      /\ InPlace(g, p) /\ OwnerHolds(g, p) /\ committed[g] <= polled[g][p]
      /\ batch[g][p] = {}
  BY DEF Poll, IInv, TypeOK, InPlace, OwnerHolds
<1>3. n \in Nat /\ n <= Len(topic[g]) /\ polled[g][p]+1 .. n \in SUBSET Nat
  BY <1>2
<1>4. TypeOK'
  BY <1>1, <1>3 DEF Poll, Go, broker, stores, IInv, TypeOK, Phases
<1>5. Grows
  BY TopicKept, StoresKept DEF Poll, broker, IInv, Grows
<1>6. Sorted' /\ RawFirst' /\ ForwardedIsStored'
  BY DEF Poll, broker, stores, IInv, Sorted, RawFirst, ForwardedIsStored
<1>7. \A h \in Groups, q \in Processors : h # g \/ q # p => Same(h, q)
  BY <1>1 DEF Poll, Go, Same, SameBatch, IInv, TypeOK
<1>8. Sound(g, p)'
  <2>1. /\ batch'[g][p] = polled[g][p]+1 .. n /\ polled'[g][p] = n
        /\ todo'[g][p] = IF g = "dlq" THEN polled[g][p]+1 .. n ELSE {}
        /\ phase'[g][p] = IF g = "dlq" THEN "handled" ELSE "polled"
        /\ topic' = topic /\ committed' = committed /\ owner' = owner /\ passed' = passed
    BY <1>1 DEF Poll, Go, broker, IInv, TypeOK
  <2>2. InPlace(g, p)'
    BY <1>2, <1>3, <2>1 DEF InPlace
  <2>3. OwnerHolds(g, p)'
    <3>1. committed[g] <= n
      BY <1>2
    <3>2. ASSUME NEW i \in 1..Len(topic[g]), committed[g] < i, i <= n
          PROVE  i \in polled[g][p]+1 .. n
      <4>1. ~(i <= polled[g][p])
        BY <1>2, <3>2 DEF Poll, OwnerHolds
      <4> QED
        BY <4>1, <3>2, <1>2
    <3> QED
      BY <3>1, <3>2, <2>1 DEF OwnerHolds
  <2>4. At(g, p)'
    <3>1. CASE g = "raw"
      <4>1. passed'[p] = {}
        BY <3>1, <2>1, <1>2 DEF IInv, NormalizerAt, Parsed, Decoded
      <4> QED
        BY <4>1, <3>1, <2>1 DEF At, NormalizerAt, RawStored
    <3>2. CASE g = "dlq"
      BY <3>2, <2>1 DEF At, DrainAt
    <3> QED
      BY <3>1, <3>2 DEF Groups
  <2> QED
    BY <2>2, <2>3, <2>4 DEF Sound
<1> QED
  BY <1>4, <1>5, <1>6, <1>7, <1>8, InnerStep DEF Poll, broker

LEMMA PollFailsStep ==
    ASSUME IInv, NEW g \in Groups, NEW p \in Processors, PollFails(g, p) PROVE IInv' /\ Grows
<1>1. TypeOK'
  <2>1. WorkersOK'
    BY LeaveType DEF PollFails, IInv
  <2>2. faults' \in 0..MaxFaults
    BY PipelineAssumption DEF PollFails, Fault, IInv, TypeOK
  <2> QED
    BY <2>1, <2>2 DEF WorkersOK, PollFails, stores, IInv, TypeOK
<1>2. Grows
  BY TopicKept, StoresKept DEF PollFails, IInv, Grows
<1>3. Sorted' /\ RawFirst' /\ ForwardedIsStored'
  BY DEF PollFails, stores, IInv, Sorted, RawFirst, ForwardedIsStored
<1> QED
  BY <1>1, <1>2, <1>3, LeaveStep DEF PollFails

(* The heart of the matter: a worker that has handled its batch may commit *)
(* what its client would commit.                                           *)
LEMMA CommitSound ==
    ASSUME IInv, NEW g \in Groups, NEW p \in Processors,
           phase[g][p] = "handled", todo[g][p] = {}
    PROVE  /\ Committing(g, p) \in Nat
           /\ committed[g] <= Committing(g, p)
           /\ Committing(g, p) <= Len(topic[g])
           /\ \A i \in 1..Committing(g, p) : Ok(g, topic[g][i])
<1>1. /\ polled[g][p] \in Nat /\ committed[g] \in Nat /\ Len(topic[g]) \in Nat
      /\ InPlace(g, p) /\ OwnerHolds(g, p) /\ committed[g] <= Len(topic[g])
  BY DEF IInv, TypeOK
<1>2. \A i \in 1..committed[g] : Ok(g, topic[g][i])
  BY DEF IInv, NothingSkipped, Ok, Groups
<1>3. \A i \in batch[g][p] : Ok(g, topic[g][i])
  BY DEF IInv, NormalizerAt, DrainAt, Ok, Groups
<1>4. CASE owner[g] = p
  <2>1. Committing(g, p) = polled[g][p] /\ committed[g] <= polled[g][p] /\ polled[g][p] <= Len(topic[g])
    BY <1>4, <1>1 DEF Committing, OwnerHolds, InPlace
  <2>2. ASSUME NEW i \in 1..polled[g][p], ~(i <= committed[g]) PROVE i \in batch[g][p]
    <3>1. i \in 1..Len(topic[g]) /\ committed[g] < i /\ i <= polled[g][p]
      BY <1>1, <2>1, <2>2
    <3> QED
      BY <3>1, <1>1, <1>4 DEF OwnerHolds
  <2>3. \A i \in 1..polled[g][p] : Ok(g, topic[g][i])
    BY <2>2, <1>1, <1>2, <1>3
  <2> QED
    BY <2>1, <2>3, <1>1
<1>5. CASE owner[g] # p
  BY <1>5, <1>1, <1>2 DEF Committing
<1> QED
  BY <1>4, <1>5

(* What a commit leaves of the invariant's parts about offsets.            *)
LEMMA CommitOffsets ==
    ASSUME IInv, NEW g \in Groups, NEW p \in Processors,
           phase[g][p] = "handled", todo[g][p] = {},
           committed' = [committed EXCEPT ![g] = Committing(g, p)],
           UNCHANGED <<topic, stores>>
    PROVE  /\ committed' \in [Groups -> Nat]
           /\ \A h \in Groups : committed'[h] <= Len(topic'[h])
           /\ NothingSkipped'
<1>1. /\ Committing(g, p) \in Nat /\ Committing(g, p) <= Len(topic[g])
      /\ \A i \in 1..Committing(g, p) : Ok(g, topic[g][i])
  BY CommitSound
<1>2. committed'[g] = Committing(g, p) /\ \A h \in Groups : h # g => committed'[h] = committed[h]
  BY DEF IInv, TypeOK
<1>3. committed' \in [Groups -> Nat] /\ \A h \in Groups : committed'[h] <= Len(topic'[h])
  BY <1>1, <1>2 DEF IInv, TypeOK
<1>4. \A h \in Groups : \A i \in 1..committed[h] : Ok(h, topic[h][i])
  BY DEF IInv, NothingSkipped, Ok, Groups
<1>5. \A h \in Groups : \A i \in 1..committed'[h] : Ok(h, topic[h][i])
  BY <1>1, <1>2, <1>4
<1>6. \A h \in Groups : \A i \in 1..committed'[h] : Ok(h, topic[h][i])'
  BY <1>5 DEF Ok, Accounted, Drained, Published, stores
<1> QED
  BY <1>3, <1>6 DEF NothingSkipped, Ok, Groups

(* A commit keeps the invariant if it does for the worker that commits:    *)
(* any other worker does not own that partition.                           *)
LEMMA CommitKeeps ==
    ASSUME IInv, TypeOK', NEW g \in Groups, NEW p \in Processors,
           phase[g][p] = "handled", todo[g][p] = {},
           committed' = [committed EXCEPT ![g] = Committing(g, p)],
           UNCHANGED <<topic, stores>>,
           \A h \in Groups, q \in Processors :
              h # g \/ q # p => Same(h, q) /\ (owner'[h] = q => owner[h] = q),
           Sound(g, p)'
    PROVE  IInv'
<1>1. /\ \A h \in Groups : committed'[h] <= Len(topic'[h])
      /\ NothingSkipped'
  BY CommitOffsets
<1>2. Grows
  BY TopicKept, StoresKept DEF IInv, Grows
<1>3. Sorted' /\ RawFirst' /\ ForwardedIsStored'
  BY DEF stores, IInv, Sorted, RawFirst, ForwardedIsStored
<1>4. ASSUME NEW h \in Groups, NEW q \in Processors, h # g \/ q # p
      PROVE  Sound(h, q)'
  <2>1. /\ Same(h, q) /\ InPlace(h, q) /\ At(h, q) /\ OwnerHolds(h, q)
        /\ owner'[h] = q => owner[h] = q
    BY <1>4 DEF IInv, At
  <2>2. InPlace(h, q)' /\ At(h, q)'
    BY <2>1, <1>2, InPlaceStays, AtStays DEF IInv, Same
  <2>3. OwnerHolds(h, q)'
    <3>1. CASE h = g /\ owner[g] = p
      BY <3>1, <2>1, <1>4 DEF OwnerHolds
    <3>2. CASE h # g \/ owner[g] # p
      <4>1. committed'[h] = committed[h]
        BY <3>2 DEF Committing, IInv, TypeOK
      <4> QED
        BY <4>1, <2>1, <1>2, OwnerHoldsStays DEF IInv
    <3> QED
      BY <3>1, <3>2
  <2> QED
    BY <2>2, <2>3 DEF Sound
<1>5. \A h \in Groups, q \in Processors : Sound(h, q)'
  BY <1>4
<1>6. \A q \in Processors : NormalizerAt(q)' /\ DrainAt(q)'
  <2> TAKE q \in Processors
  <2>1. At("raw", q)' /\ At("dlq", q)'
    BY <1>5 DEF Groups, Sound
  <2> QED
    BY <2>1 DEF At
<1> QED
  BY <1>1, <1>3, <1>5, <1>6 DEF IInv, Sound

LEMMA CommitStep ==
    ASSUME IInv, NEW g \in Groups, NEW p \in Processors, Commit(g, p) PROVE IInv' /\ Grows
<1>1. TypeOK'
  <2>1. committed' \in [Groups -> Nat]
    BY CommitOffsets DEF Commit
  <2> QED
    BY <2>1 DEF Commit, Go, DropBatch, stores, IInv, TypeOK, Phases
<1>2. \A h \in Groups, q \in Processors :
         h # g \/ q # p => Same(h, q) /\ (owner'[h] = q => owner[h] = q)
  BY DEF Commit, Go, DropBatch, Same, SameBatch, IInv, TypeOK
<1>3. Sound(g, p)'
  <2>1. /\ phase'[g][p] = "idle" /\ batch'[g][p] = {} /\ todo'[g][p] = {}
        /\ g = "raw" => passed'[p] = {}
        /\ committed'[g] = Committing(g, p)
        /\ topic' = topic /\ owner' = owner /\ polled' = polled
    BY DEF Commit, Go, DropBatch, IInv, TypeOK
  <2>2. InPlace(g, p)'
    BY <2>1 DEF IInv, InPlace
  <2>3. OwnerHolds(g, p)'
    <3>1. polled[g][p] \in Nat /\ \A i \in 1..Len(topic[g]) : ~(polled[g][p] < i /\ i <= polled[g][p])
      BY DEF IInv, TypeOK
    <3> QED
      BY <3>1, <2>1 DEF OwnerHolds, Committing
  <2>4. At(g, p)'
    <3>1. CASE g = "raw"
      BY <3>1, <2>1 DEF At, NormalizerAt, RawStored
    <3>2. CASE g = "dlq"
      BY <3>2, <2>1 DEF At, DrainAt
    <3> QED
      BY <3>1, <3>2 DEF Groups
  <2> QED
    BY <2>2, <2>3, <2>4 DEF Sound
<1>4. Grows
  BY TopicKept, StoresKept DEF Commit, IInv, Grows
<1> QED
  BY <1>1, <1>2, <1>3, <1>4, CommitKeeps DEF Commit

LEMMA CommitFailsStep ==
    ASSUME IInv, NEW g \in Groups, NEW p \in Processors, CommitFails(g, p) PROVE IInv' /\ Grows
<1>1. CASE committed' = committed
  <2>1. TypeOK'
    <3>1. WorkersOK'
      BY LeaveType DEF CommitFails, IInv
    <3>2. faults' \in 0..MaxFaults
      BY PipelineAssumption DEF CommitFails, Fault, IInv, TypeOK
    <3> QED
      BY <1>1, <3>1, <3>2 DEF WorkersOK, CommitFails, stores, IInv, TypeOK
  <2>2. Grows
    BY TopicKept, StoresKept DEF CommitFails, IInv, Grows
  <2>3. Sorted' /\ RawFirst' /\ ForwardedIsStored'
    BY DEF CommitFails, stores, IInv, Sorted, RawFirst, ForwardedIsStored
  <2> QED
    BY <1>1, <2>1, <2>2, <2>3, LeaveStep DEF CommitFails
<1>2. CASE committed' = [committed EXCEPT ![g] = Committing(g, p)]
  <2>1. TypeOK'
    <3>1. committed' \in [Groups -> Nat]
      BY <1>2, CommitOffsets DEF CommitFails
    <3>2. WorkersOK'
      BY LeaveType DEF CommitFails, IInv
    <3>3. faults' \in 0..MaxFaults
      BY PipelineAssumption DEF CommitFails, Fault, IInv, TypeOK
    <3> QED
      BY <3>1, <3>2, <3>3 DEF WorkersOK, CommitFails, stores, IInv, TypeOK
  <2>2. Leave(g, p)
    BY DEF CommitFails
  <2>3. Sound(g, p)'
    BY <2>1, <2>2, LeaveSound DEF IInv
  <2>4. \A h \in Groups, q \in Processors :
           h # g \/ q # p => Same(h, q) /\ (owner'[h] = q => owner[h] = q)
    BY <2>2, LeaveSound, <2>1 DEF IInv
  <2>5. Grows
    BY TopicKept, StoresKept DEF CommitFails, IInv, Grows
  <2> QED
    BY <1>2, <2>1, <2>3, <2>4, <2>5, CommitKeeps DEF CommitFails
<1> QED
  BY <1>1, <1>2 DEF CommitFails

-----------------------------------------------------------------------------
(* The steps of a batch.                                                   *)

(* A worker in the middle of its batch holds what it held.                 *)
LEMMA HoldStays ==
    ASSUME IInv, TypeOK', Grows, committed' = committed, owner' = owner,
           NEW g \in Groups, NEW p \in Processors,
           batch'[g][p] = batch[g][p], polled'[g][p] = polled[g][p],
           phase[g][p] # "down", phase'[g][p] \notin {"down", "idle"},
           todo'[g][p] \subseteq batch[g][p]
    PROVE  InPlace(g, p)' /\ OwnerHolds(g, p)'
<1>1. /\ Len(topic[g]) \in Nat /\ Len(topic'[g]) \in Nat /\ Len(topic[g]) <= Len(topic'[g])
      /\ polled[g][p] \in Nat /\ committed[g] \in Nat
      /\ InPlace(g, p) /\ OwnerHolds(g, p)
  BY LenType DEF IInv, TypeOK, Grows
<1>2. 1..Len(topic[g]) \subseteq 1..Len(topic'[g])
  BY <1>1
<1>3. InPlace(g, p)'
  BY <1>1, <1>2 DEF InPlace
<1>4. ASSUME owner[g] = p, NEW i \in 1..Len(topic'[g]), committed[g] < i, i <= polled[g][p]
      PROVE  i \in batch[g][p]
  <2>1. i \in 1..Len(topic[g])
    BY <1>1, <1>4 DEF InPlace
  <2> QED
    BY <2>1, <1>1, <1>4 DEF OwnerHolds
<1>5. OwnerHolds(g, p)'
  BY <1>1, <1>4 DEF OwnerHolds
<1> QED
  BY <1>3, <1>5

(* The same fetch decodes and parses to the same records.                  *)
LEMMA BatchStays ==
    ASSUME IInv, NEW p \in Processors, topic' = topic, batch'["raw"][p] = batch["raw"][p]
    PROVE  /\ Decoded(p)' = Decoded(p)
           /\ Parsed(p)' = Parsed(p)
           /\ Undecodable(p)' = Undecodable(p)
           /\ Of("raw", Decoded(p))' = Of("raw", Decoded(p))
           /\ passed'[p] = passed[p] => /\ Failed(p)' = Failed(p)
                                        /\ Of("raw", Failed(p))' = Of("raw", Failed(p))
                                        /\ Of("raw", passed[p])' = Of("raw", passed[p])
<1>1. Decoded(p)' = Decoded(p)
  BY DEF Decoded
<1> QED
  BY <1>1 DEF Parsed, Undecodable, Failed, Of

LEMMA StoreRawStep == ASSUME IInv, NEW p \in Processors, StoreRaw(p) PROVE IInv' /\ Grows
<1>1. "raw" \in Groups
  BY DEF Groups
<1>2. TypeOK'
  <2>1. rawEvents' \subseteq Fit \cup Unfit
    BY DecodedType DEF StoreRaw, IInv, TypeOK
  <2>2. Undecodable(p) \in SUBSET Nat
    BY <1>1 DEF Undecodable, IInv, TypeOK
  <2> QED
    BY <2>1, <2>2, <1>1 DEF StoreRaw, Go, broker, IInv, TypeOK, Phases
<1>3. Grows
  BY TopicKept DEF StoreRaw, broker, IInv, Grows, TypeOK
<1>4. Sorted' /\ RawFirst' /\ ForwardedIsStored'
  BY DEF StoreRaw, broker, IInv, Sorted, RawFirst, ForwardedIsStored
<1>5. \A h \in Groups, q \in Processors : h # "raw" \/ q # p => Same(h, q)
  BY <1>1 DEF StoreRaw, Go, Same, SameBatch, IInv, TypeOK
<1>6. Sound("raw", p)'
  <2>1. /\ phase'["raw"][p] = IF Decoded(p) = {} THEN "handled" ELSE "rawStored"
        /\ todo'["raw"][p] = IF Decoded(p) = {} THEN Undecodable(p) ELSE {}
        /\ batch' = batch /\ polled' = polled /\ topic' = topic /\ passed' = passed
        /\ committed' = committed /\ owner' = owner
        /\ rawEvents' = rawEvents \cup Of("raw", Decoded(p))
    BY <1>1 DEF StoreRaw, Go, broker, IInv, TypeOK
  <2>2. InPlace("raw", p)' /\ OwnerHolds("raw", p)'
    BY <1>1, <1>2, <1>3, <2>1, HoldStays DEF StoreRaw, Undecodable
  <2>3. /\ Parsed(p)' = Parsed(p) /\ Undecodable(p)' = Undecodable(p)
        /\ Decoded(p)' = Decoded(p)
        /\ Of("raw", Decoded(p))' = Of("raw", Decoded(p))
    BY <2>1, BatchStays
  <2>4. passed[p] \subseteq Parsed(p)
    BY DEF IInv, NormalizerAt
  <2>5. NormalizerAt(p)'
    <3>1. CASE Decoded(p) = {}
      BY <3>1, <2>1, <2>3, <2>4 DEF NormalizerAt, RawStored, Undecodable
    <3>2. CASE Decoded(p) # {}
      BY <3>2, <2>1, <2>3, <2>4 DEF NormalizerAt, RawStored
    <3> QED
      BY <3>1, <3>2
  <2> QED
    BY <2>2, <2>5 DEF Sound, At
<1> QED
  BY <1>1, <1>2, <1>3, <1>4, <1>5, <1>6, InnerStep DEF StoreRaw, broker

LEMMA StoreRawFailsStep == ASSUME IInv, NEW p \in Processors, StoreRawFails(p) PROVE IInv' /\ Grows
<1>1. "raw" \in Groups
  BY DEF Groups
<1>2. PICK W \in SUBSET Decoded(p) : rawEvents' = rawEvents \cup Of("raw", W)
  BY DEF StoreRawFails
<1>3. TypeOK'
  <2>1. WorkersOK'
    BY <1>1, LeaveType DEF StoreRawFails, IInv
  <2>2. faults' \in 0..MaxFaults
    BY PipelineAssumption DEF StoreRawFails, Fault, IInv, TypeOK
  <2>3. rawEvents' \subseteq Fit \cup Unfit
    BY <1>2, DecodedType DEF Of, IInv, TypeOK
  <2> QED
    BY <2>1, <2>2, <2>3 DEF WorkersOK, StoreRawFails, IInv, TypeOK
<1>4. Grows
  BY <1>2, TopicKept DEF StoreRawFails, IInv, Grows, TypeOK
<1>5. Sorted' /\ RawFirst' /\ ForwardedIsStored'
  BY <1>2 DEF StoreRawFails, IInv, Sorted, RawFirst, ForwardedIsStored
<1> QED
  BY <1>1, <1>3, <1>4, <1>5, LeaveStep DEF StoreRawFails

LEMMA NormalizeStep == ASSUME IInv, NEW p \in Processors, Normalize(p) PROVE IInv' /\ Grows
<1>1. "raw" \in Groups
  BY DEF Groups
<1>2. PICK L \in Starved(p) : passed' = [passed EXCEPT ![p] = Parsed(p) \ L]
  BY DEF Normalize
<1>3. TypeOK'
  <2>1. Parsed(p) \ L \in SUBSET Nat
    BY <1>1 DEF Parsed, Decoded, IInv, TypeOK
  <2> QED
    BY <1>1, <1>2, <2>1 DEF Normalize, Go, broker, stores, IInv, TypeOK, Phases
<1>4. Grows
  BY TopicKept, StoresKept DEF Normalize, broker, IInv, Grows
<1>5. Sorted' /\ RawFirst' /\ ForwardedIsStored'
  BY DEF Normalize, broker, stores, IInv, Sorted, RawFirst, ForwardedIsStored
<1>6. \A h \in Groups, q \in Processors : h # "raw" \/ q # p => Same(h, q)
  BY <1>1, <1>2 DEF Normalize, Go, Same, SameBatch, IInv, TypeOK
<1>7. Sound("raw", p)'
  <2>1. /\ phase["raw"][p] = "rawStored" /\ phase'["raw"][p] = "normalized"
        /\ todo' = todo /\ batch' = batch /\ polled' = polled /\ topic' = topic
        /\ committed' = committed /\ owner' = owner /\ rawEvents' = rawEvents
        /\ passed'[p] = Parsed(p) \ L
    BY <1>1, <1>2 DEF Normalize, Go, broker, stores, IInv, TypeOK
  <2>2. NormalizerAt(p) /\ InPlace("raw", p)
    BY <1>1 DEF IInv
  <2>3. InPlace("raw", p)' /\ OwnerHolds("raw", p)'
    BY <1>1, <1>3, <1>4, <2>1, <2>2, HoldStays DEF InPlace
  <2>4. Parsed(p)' = Parsed(p) /\ Of("raw", Decoded(p))' = Of("raw", Decoded(p))
    BY <2>1, BatchStays
  <2>5. NormalizerAt(p)'
    BY <2>1, <2>2, <2>4 DEF NormalizerAt, RawStored
  <2> QED
    BY <2>3, <2>5 DEF Sound, At
<1> QED
  BY <1>1, <1>3, <1>4, <1>5, <1>6, <1>7, InnerStep DEF Normalize, broker

LEMMA StoreNormalizedStep == ASSUME IInv, NEW p \in Processors, StoreNormalized(p) PROVE IInv' /\ Grows
<1>1. "raw" \in Groups
  BY DEF Groups
<1>2. TypeOK'
  BY <1>1, DecodedType DEF StoreNormalized, Go, broker, IInv, TypeOK, Phases
<1>3. Grows
  BY TopicKept DEF StoreNormalized, broker, IInv, Grows, TypeOK
<1>4. NormalizerAt(p) /\ InPlace("raw", p)
  BY <1>1 DEF IInv
<1>5. Of("raw", Decoded(p)) \subseteq rawEvents
  BY <1>4 DEF StoreNormalized, NormalizerAt, RawStored
<1>6. Sorted' /\ RawFirst' /\ ForwardedIsStored'
  BY <1>5, DecodedType DEF StoreNormalized, broker, IInv, Sorted, RawFirst, ForwardedIsStored
<1>7. \A h \in Groups, q \in Processors : h # "raw" \/ q # p => Same(h, q)
  BY <1>1 DEF StoreNormalized, Go, Same, SameBatch, IInv, TypeOK
<1>8. Sound("raw", p)'
  <2>1. /\ phase["raw"][p] = "normalized" /\ phase'["raw"][p] = "normStored"
        /\ todo' = todo /\ batch' = batch /\ polled' = polled /\ topic' = topic
        /\ committed' = committed /\ owner' = owner /\ rawEvents' = rawEvents /\ passed' = passed
        /\ normalized' = normalized \cup Of("raw", passed[p])
    BY <1>1 DEF StoreNormalized, Go, broker, IInv, TypeOK
  <2>2. InPlace("raw", p)' /\ OwnerHolds("raw", p)'
    BY <1>1, <1>2, <1>3, <1>4, <2>1, HoldStays DEF InPlace
  <2>3. /\ Parsed(p)' = Parsed(p) /\ Of("raw", Decoded(p))' = Of("raw", Decoded(p))
        /\ Of("raw", passed[p])' = Of("raw", passed[p])
    BY <2>1, BatchStays
  <2>4. NormalizerAt(p)'
    BY <2>1, <1>4, <1>5, <2>3 DEF NormalizerAt, RawStored
  <2> QED
    BY <2>2, <2>4 DEF Sound, At
<1> QED
  BY <1>1, <1>2, <1>3, <1>6, <1>7, <1>8, InnerStep DEF StoreNormalized, broker

LEMMA StoreNormalizedFailsStep ==
    ASSUME IInv, NEW p \in Processors, StoreNormalizedFails(p) PROVE IInv' /\ Grows
<1>1. "raw" \in Groups
  BY DEF Groups
<1>2. PICK W \in SUBSET passed[p] : normalized' = normalized \cup Of("raw", W)
  BY DEF StoreNormalizedFails
<1>3. Of("raw", W) \subseteq Fit /\ Of("raw", W) \subseteq rawEvents
  <2>1. Of("raw", W) \subseteq Of("raw", passed[p])
    BY <1>2 DEF Of
  <2>2. Of("raw", Decoded(p)) \subseteq rawEvents
    BY DEF StoreNormalizedFails, IInv, NormalizerAt, RawStored
  <2> QED
    BY <2>1, <2>2, DecodedType
<1>4. TypeOK'
  <2>1. WorkersOK'
    BY <1>1, LeaveType DEF StoreNormalizedFails, IInv
  <2>2. faults' \in 0..MaxFaults
    BY PipelineAssumption DEF StoreNormalizedFails, Fault, IInv, TypeOK
  <2> QED
    BY <1>2, <1>3, <2>1, <2>2 DEF WorkersOK, StoreNormalizedFails, IInv, TypeOK
<1>5. Grows
  BY <1>2, TopicKept DEF StoreNormalizedFails, IInv, Grows, TypeOK
<1>6. Sorted' /\ RawFirst' /\ ForwardedIsStored'
  BY <1>2, <1>3 DEF StoreNormalizedFails, IInv, Sorted, RawFirst, ForwardedIsStored
<1> QED
  BY <1>1, <1>4, <1>5, <1>6, LeaveStep DEF StoreNormalizedFails

LEMMA StoreRejectedStep == ASSUME IInv, NEW p \in Processors, StoreRejected(p) PROVE IInv' /\ Grows
<1>1. "raw" \in Groups
  BY DEF Groups
<1>2. /\ rejectedRows' = WithRows(Of("raw", Failed(p)))
      /\ rejectedRows' \in [Records -> Nat]
      /\ \A r \in Records : rejectedRows[r] <= rejectedRows'[r]
      /\ \A r \in Records : rejectedRows'[r] > 0 <=> rejectedRows[r] > 0 \/ r \in Of("raw", Failed(p))
  BY RowsGrow DEF StoreRejected, IInv
<1>3. TypeOK'
  BY <1>1, <1>2 DEF StoreRejected, Go, broker, IInv, TypeOK, Phases
<1>4. Grows
  BY <1>2, TopicKept DEF StoreRejected, broker, IInv, Grows
<1>5. NormalizerAt(p) /\ InPlace("raw", p)
  BY <1>1 DEF IInv
<1>6. Of("raw", Decoded(p)) \subseteq rawEvents
  BY <1>5 DEF StoreRejected, NormalizerAt, RawStored
<1>7. Sorted' /\ RawFirst' /\ ForwardedIsStored'
  BY <1>2, <1>6, DecodedType DEF StoreRejected, broker, IInv, Sorted, RawFirst, ForwardedIsStored
<1>8. \A h \in Groups, q \in Processors : h # "raw" \/ q # p => Same(h, q)
  BY <1>1 DEF StoreRejected, Go, Same, SameBatch, IInv, TypeOK
<1>9. Sound("raw", p)'
  <2>1. /\ phase["raw"][p] = "normStored" /\ phase'["raw"][p] = "rejStored"
        /\ todo' = todo /\ batch' = batch /\ polled' = polled /\ topic' = topic
        /\ committed' = committed /\ owner' = owner /\ passed' = passed
        /\ rawEvents' = rawEvents /\ normalized' = normalized
    BY <1>1 DEF StoreRejected, Go, broker, IInv, TypeOK
  <2>2. InPlace("raw", p)' /\ OwnerHolds("raw", p)'
    BY <1>1, <1>3, <1>4, <1>5, <2>1, HoldStays DEF InPlace
  <2>3. /\ Parsed(p)' = Parsed(p) /\ Of("raw", Decoded(p))' = Of("raw", Decoded(p))
        /\ Of("raw", passed[p])' = Of("raw", passed[p]) /\ Of("raw", Failed(p))' = Of("raw", Failed(p))
    BY <2>1, BatchStays
  <2>4. \A r \in Of("raw", Failed(p)) : rejectedRows'[r] > 0
    BY <1>2, DecodedType DEF Records
  <2>5. NormalizerAt(p)'
    BY <2>1, <1>5, <1>6, <2>3, <2>4 DEF NormalizerAt, RawStored
  <2> QED
    BY <2>2, <2>5 DEF Sound, At
<1> QED
  BY <1>1, <1>3, <1>4, <1>7, <1>8, <1>9, InnerStep DEF StoreRejected, broker

LEMMA StoreRejectedFailsStep ==
    ASSUME IInv, NEW p \in Processors, StoreRejectedFails(p) PROVE IInv' /\ Grows
<1>1. "raw" \in Groups
  BY DEF Groups
<1>2. PICK W \in SUBSET Failed(p) : rejectedRows' = WithRows(Of("raw", W))
  BY DEF StoreRejectedFails
<1>3. /\ rejectedRows' \in [Records -> Nat]
      /\ \A r \in Records : rejectedRows[r] <= rejectedRows'[r]
      /\ \A r \in Records : rejectedRows'[r] > 0 <=> rejectedRows[r] > 0 \/ r \in Of("raw", W)
  BY <1>2, RowsGrow DEF IInv
<1>4. Of("raw", W) \subseteq rawEvents
  <2>1. Of("raw", W) \subseteq Of("raw", Failed(p))
    BY <1>2 DEF Of
  <2>2. Of("raw", Decoded(p)) \subseteq rawEvents
    BY DEF StoreRejectedFails, IInv, NormalizerAt, RawStored
  <2> QED
    BY <2>1, <2>2, DecodedType
<1>5. TypeOK'
  <2>1. WorkersOK'
    BY <1>1, LeaveType DEF StoreRejectedFails, IInv
  <2>2. faults' \in 0..MaxFaults
    BY PipelineAssumption DEF StoreRejectedFails, Fault, IInv, TypeOK
  <2> QED
    BY <1>3, <2>1, <2>2 DEF WorkersOK, StoreRejectedFails, IInv, TypeOK
<1>6. Grows
  BY <1>3, TopicKept DEF StoreRejectedFails, IInv, Grows
<1>7. Sorted' /\ RawFirst' /\ ForwardedIsStored'
  BY <1>3, <1>4 DEF StoreRejectedFails, IInv, Sorted, RawFirst, ForwardedIsStored
<1> QED
  BY <1>1, <1>5, <1>6, <1>7, LeaveStep DEF StoreRejectedFails

(* With the forward, everything readable in the batch is accounted for,    *)
(* and the rest is still to be parked.                                     *)
LEMMA ForwardStep == ASSUME IInv, NEW p \in Processors, Forward(p) PROVE IInv' /\ Grows
<1>1. "raw" \in Groups
  BY DEF Groups
<1>2. NormalizerAt(p) /\ InPlace("raw", p)
  BY <1>1 DEF IInv
<1>3. /\ Of("raw", Decoded(p)) \subseteq rawEvents
      /\ Of("raw", passed[p]) \subseteq normalized
      /\ \A r \in Of("raw", Failed(p)) : rejectedRows[r] > 0
  BY <1>2 DEF Forward, NormalizerAt, RawStored
<1>4. TypeOK'
  <2>1. Undecodable(p) \in SUBSET Nat
    BY <1>1 DEF Undecodable, IInv, TypeOK
  <2> QED
    BY <1>1, <2>1, DecodedType DEF Forward, Go, broker, IInv, TypeOK, Phases
<1>5. Grows
  BY TopicKept DEF Forward, broker, IInv, Grows, TypeOK
<1>6. Sorted' /\ RawFirst' /\ ForwardedIsStored'
  BY <1>3, DecodedType DEF Forward, broker, IInv, Sorted, RawFirst, ForwardedIsStored
<1>7. \A h \in Groups, q \in Processors : h # "raw" \/ q # p => Same(h, q)
  BY <1>1 DEF Forward, Go, Same, SameBatch, IInv, TypeOK
<1>8. Sound("raw", p)'
  <2>1. /\ phase["raw"][p] = "rejStored" /\ phase'["raw"][p] = "handled"
        /\ batch' = batch /\ polled' = polled /\ topic' = topic
        /\ committed' = committed /\ owner' = owner /\ passed' = passed
        /\ rawEvents' = rawEvents /\ normalized' = normalized /\ rejectedRows' = rejectedRows
        /\ todo'["raw"][p] = Undecodable(p)
        /\ forwarded' = forwarded \cup Of("raw", passed[p])
    BY <1>1 DEF Forward, Go, broker, IInv, TypeOK
  <2>2. InPlace("raw", p)' /\ OwnerHolds("raw", p)'
    BY <1>1, <1>4, <1>5, <2>1, HoldStays DEF Undecodable
  <2>3. Parsed(p)' = Parsed(p) /\ Undecodable(p)' = Undecodable(p)
    BY <2>1, BatchStays
  <2>4. ASSUME NEW i \in batch["raw"][p], i \notin Undecodable(p)
        PROVE  Accounted(topic["raw"][i])'
    <3>1. i \in Decoded(p) /\ topic["raw"][i] \notin Broken /\ topic["raw"][i] \in rawEvents
      BY <2>4, <1>3 DEF Undecodable, Decoded, Of
    <3>2. CASE i \in passed[p]
      BY <3>1, <3>2, <1>3, <2>1 DEF Of, Accounted
    <3>3. CASE i \notin passed[p]
      BY <3>1, <3>3, <1>3, <2>1 DEF Of, Failed, Accounted
    <3> QED
      BY <3>2, <3>3
  <2>5. NormalizerAt(p)'
    BY <2>1, <1>2, <2>3, <2>4 DEF NormalizerAt, RawStored
  <2> QED
    BY <2>2, <2>5 DEF Sound, At
<1> QED
  BY <1>1, <1>4, <1>5, <1>6, <1>7, <1>8, InnerStep DEF Forward, broker

LEMMA ForwardFailsStep == ASSUME IInv, NEW p \in Processors, ForwardFails(p) PROVE IInv' /\ Grows
<1>1. "raw" \in Groups
  BY DEF Groups
<1>2. PICK W \in SUBSET passed[p] : forwarded' = forwarded \cup Of("raw", W)
  BY DEF ForwardFails
<1>3. /\ Of("raw", W) \subseteq Fit
      /\ Of("raw", W) \subseteq rawEvents
      /\ Of("raw", W) \subseteq normalized
  <2>1. Of("raw", W) \subseteq Of("raw", passed[p])
    BY <1>2 DEF Of
  <2>2. Of("raw", Decoded(p)) \subseteq rawEvents /\ Of("raw", passed[p]) \subseteq normalized
    BY DEF ForwardFails, IInv, NormalizerAt, RawStored
  <2> QED
    BY <2>1, <2>2, DecodedType
<1>4. TypeOK'
  <2>1. WorkersOK'
    BY <1>1, LeaveType DEF ForwardFails, IInv
  <2>2. faults' \in 0..MaxFaults
    BY PipelineAssumption DEF ForwardFails, Fault, IInv, TypeOK
  <2> QED
    BY <1>2, <1>3, <2>1, <2>2 DEF WorkersOK, ForwardFails, IInv, TypeOK
<1>5. Grows
  BY <1>2, TopicKept DEF ForwardFails, IInv, Grows, TypeOK
<1>6. Sorted' /\ RawFirst' /\ ForwardedIsStored'
  BY <1>2, <1>3 DEF ForwardFails, IInv, Sorted, RawFirst, ForwardedIsStored
<1> QED
  BY <1>1, <1>4, <1>5, <1>6, LeaveStep DEF ForwardFails

-----------------------------------------------------------------------------
(* The records handled one by one.                                         *)

LEMMA NextTodoIn ==
    ASSUME IInv, NEW g \in Groups, NEW p \in Processors, todo[g][p] # {}
    PROVE  /\ Least(todo[g][p]) \in todo[g][p]
           /\ Least(todo[g][p]) \in batch[g][p]
           /\ Least(todo[g][p]) \in 1..Len(topic[g])
           /\ NextTodo(g, p) = topic[g][Least(todo[g][p])]
           /\ NextTodo(g, p) \in Records
<1>1. todo[g][p] \in SUBSET Nat /\ InPlace(g, p)
  BY DEF IInv, TypeOK
<1>2. Least(todo[g][p]) \in todo[g][p]
  BY <1>1, LeastIn
<1>3. Least(todo[g][p]) \in batch[g][p] /\ Least(todo[g][p]) \in 1..Len(topic[g])
  BY <1>1, <1>2 DEF InPlace
<1> QED
  BY <1>2, <1>3, TopicType DEF NextTodo, IInv

LEMMA DeadLetterStep == ASSUME IInv, NEW p \in Processors, DeadLetter(p) PROVE IInv' /\ Grows
<1> DEFINE i == Least(todo["raw"][p])
           r == NextTodo("raw", p)
<1>1. "raw" \in Groups /\ "dlq" \in Groups
  BY DEF Groups
<1>2. NormalizerAt(p) /\ InPlace("raw", p)
  BY <1>1 DEF IInv
<1>3. i \in todo["raw"][p] /\ i \in batch["raw"][p] /\ r = topic["raw"][i] /\ r \in Records
  BY <1>1, NextTodoIn DEF DeadLetter
<1>4. r \in Broken
  BY <1>2, <1>3 DEF NormalizerAt, Undecodable, Decoded
<1>5. /\ topic' = [topic EXCEPT !["dlq"] = Append(@, r)]
      /\ todo' = [todo EXCEPT !["raw"][p] = @ \ {i}]
  BY DEF DeadLetter, Tick
<1> HIDE DEF i, r
<1>6. /\ topic' \in [Groups -> Seq(Records)]
      /\ \A h \in Groups : /\ Len(topic[h]) <= Len(topic'[h])
                            /\ \A j \in 1..Len(topic[h]) : topic'[h][j] = topic[h][j]
      /\ \A h \in Groups : \A j \in 1..Len(topic'[h]) :
            j \in 1..Len(topic[h]) \/ (h = "dlq" /\ topic'[h][j] = r)
  BY <1>1, <1>3, <1>5, AppendGrows DEF IInv
<1>7. TypeOK'
  BY <1>1, <1>5, <1>6 DEF DeadLetter, stores, IInv, TypeOK
<1>8. Grows
  BY <1>6, StoresKept DEF DeadLetter, IInv, Grows
<1>9. Sorted' /\ RawFirst' /\ ForwardedIsStored'
  <2>1. Sorted'
    BY <1>1, <1>4, <1>6 DEF IInv, Sorted
  <2> QED
    BY <2>1 DEF DeadLetter, stores, IInv, RawFirst, ForwardedIsStored
<1>10. \A h \in Groups, q \in Processors : h # "raw" \/ q # p => Same(h, q)
  BY <1>1, <1>5 DEF DeadLetter, Same, SameBatch, IInv, TypeOK
<1>11. Sound("raw", p)'
  <2>1. /\ phase["raw"][p] = "handled" /\ phase' = phase /\ batch' = batch /\ polled' = polled
        /\ committed' = committed /\ owner' = owner /\ passed' = passed
        /\ rawEvents' = rawEvents /\ normalized' = normalized /\ rejectedRows' = rejectedRows
        /\ forwarded' = forwarded
        /\ todo'["raw"][p] = todo["raw"][p] \ {i}
        /\ topic'["raw"] = topic["raw"]
        /\ topic'["dlq"] = Append(topic["dlq"], r)
    BY <1>1, <1>5 DEF DeadLetter, stores, IInv, TypeOK
  <2>2. InPlace("raw", p)' /\ OwnerHolds("raw", p)'
    BY <1>1, <1>2, <1>7, <1>8, <2>1, HoldStays DEF InPlace
  <2>3. Parsed(p)' = Parsed(p) /\ Undecodable(p)' = Undecodable(p)
    BY <2>1 DEF Parsed, Undecodable, Decoded
  <2>4. r \in Published("dlq")'
    <3>1. topic["dlq"] \in Seq(Records)
      BY <1>1 DEF IInv, TypeOK
    <3>2. Len(topic'["dlq"]) = Len(topic["dlq"]) + 1 /\ topic'["dlq"][Len(topic["dlq"]) + 1] = r
      BY <2>1, <3>1, <1>3
    <3>3. Len(topic["dlq"]) + 1 \in 1..Len(topic'["dlq"])
      BY <3>1, <3>2
    <3> QED
      BY <3>2, <3>3 DEF Published
  <2>5. ASSUME NEW j \in batch["raw"][p], j \notin todo["raw"][p] \ {i}
        PROVE  Accounted(topic["raw"][j])'
    <3>1. CASE j = i
      BY <3>1, <1>3, <1>4, <2>1, <2>4 DEF Accounted
    <3>2. CASE j # i
      <4>1. Accounted(topic["raw"][j]) /\ topic["raw"][j] \in Records
        BY <3>2, <2>5, <2>1, <1>1, <1>2, TopicType DEF NormalizerAt, InPlace, IInv
      <4>2. Ok("raw", topic["raw"][j])'
        <5>1. \A x \in Records : Ok("raw", x) => Ok("raw", x)'
          BY <1>1, <1>7, <1>8, OkStays DEF IInv
        <5> QED
          BY <4>1, <5>1, <2>1 DEF Ok, Accounted, Published
      <4> QED
        BY <4>2 DEF Ok
    <3> QED
      BY <3>1, <3>2
  <2>6. NormalizerAt(p)'
    BY <2>1, <1>2, <2>3, <2>5 DEF NormalizerAt, RawStored
  <2> QED
    BY <2>2, <2>6 DEF Sound, At
<1> QED
  BY <1>1, <1>7, <1>8, <1>9, <1>10, <1>11, InnerStep DEF DeadLetter

LEMMA DeadLetterFailsStep == ASSUME IInv, NEW p \in Processors, DeadLetterFails(p) PROVE IInv' /\ Grows
<1> DEFINE r == NextTodo("raw", p)
<1>1. "raw" \in Groups /\ "dlq" \in Groups
  BY DEF Groups
<1>2. r \in Records /\ r \in Broken
  BY <1>1, NextTodoIn DEF DeadLetterFails, IInv, NormalizerAt, Undecodable, Decoded
<1>3. topic' \in {topic, [topic EXCEPT !["dlq"] = Append(@, r)]}
  BY DEF DeadLetterFails
<1> HIDE DEF r
<1>4. /\ topic' \in [Groups -> Seq(Records)]
      /\ \A h \in Groups : /\ Len(topic[h]) <= Len(topic'[h])
                            /\ \A j \in 1..Len(topic[h]) : topic'[h][j] = topic[h][j]
      /\ \A h \in Groups : \A j \in 1..Len(topic'[h]) :
            j \in 1..Len(topic[h]) \/ (h = "dlq" /\ topic'[h][j] = r)
  <2>1. CASE topic' = topic
    BY <2>1, TopicKept DEF IInv, TypeOK
  <2>2. CASE topic' = [topic EXCEPT !["dlq"] = Append(@, r)]
    BY <2>2, <1>1, <1>2, AppendGrows DEF IInv
  <2> QED
    BY <2>1, <2>2, <1>3
<1>5. TypeOK'
  <2>1. WorkersOK'
    BY <1>1, LeaveType DEF DeadLetterFails, IInv
  <2>2. faults' \in 0..MaxFaults
    BY PipelineAssumption DEF DeadLetterFails, Fault, IInv, TypeOK
  <2> QED
    BY <1>4, <2>1, <2>2 DEF WorkersOK, DeadLetterFails, stores, IInv, TypeOK
<1>6. Grows
  BY <1>4, StoresKept DEF DeadLetterFails, IInv, Grows
<1>7. Sorted' /\ RawFirst' /\ ForwardedIsStored'
  <2>1. Sorted'
    BY <1>1, <1>2, <1>4 DEF IInv, Sorted
  <2> QED
    BY <2>1 DEF DeadLetterFails, stores, IInv, RawFirst, ForwardedIsStored
<1> QED
  BY <1>1, <1>5, <1>6, <1>7, LeaveStep DEF DeadLetterFails

LEMMA DrainStep == ASSUME IInv, NEW p \in Processors, Drain(p) PROVE IInv' /\ Grows
<1> DEFINE i == Least(todo["dlq"][p])
           r == NextTodo("dlq", p)
<1>1. "dlq" \in Groups
  BY DEF Groups
<1>2. DrainAt(p) /\ InPlace("dlq", p)
  BY <1>1 DEF IInv
<1>3. i \in todo["dlq"][p] /\ i \in batch["dlq"][p] /\ i \in 1..Len(topic["dlq"])
      /\ r = topic["dlq"][i] /\ r \in Records
  BY <1>1, NextTodoIn DEF Drain
<1>4. r \in Broken \cup Refused
  BY <1>3 DEF IInv, Sorted
<1>5. /\ rejectedRows' = WithRows({r} \ Broken)
      /\ todo' = [todo EXCEPT !["dlq"][p] = @ \ {i}]
  BY DEF Drain, Tick
<1> HIDE DEF i, r
<1>6. /\ rejectedRows' \in [Records -> Nat]
      /\ \A x \in Records : rejectedRows[x] <= rejectedRows'[x]
      /\ \A x \in Records : rejectedRows'[x] > 0 <=> rejectedRows[x] > 0 \/ x \in {r} \ Broken
  BY <1>5, RowsGrow DEF IInv
<1>7. TypeOK'
  BY <1>1, <1>5, <1>6 DEF Drain, broker, IInv, TypeOK
<1>8. Grows
  BY <1>6, TopicKept DEF Drain, broker, IInv, Grows
<1>9. Sorted' /\ RawFirst' /\ ForwardedIsStored'
  BY <1>4, <1>6 DEF Drain, broker, IInv, Sorted, RawFirst, ForwardedIsStored
<1>10. \A h \in Groups, q \in Processors : h # "dlq" \/ q # p => Same(h, q)
  BY <1>1, <1>5 DEF Drain, Same, SameBatch, IInv, TypeOK
<1>11. Sound("dlq", p)'
  <2>1. /\ phase["dlq"][p] = "handled" /\ phase' = phase /\ batch' = batch /\ polled' = polled
        /\ committed' = committed /\ owner' = owner /\ topic' = topic
        /\ todo'["dlq"][p] = todo["dlq"][p] \ {i}
    BY <1>1, <1>5 DEF Drain, broker, IInv, TypeOK
  <2>2. InPlace("dlq", p)' /\ OwnerHolds("dlq", p)'
    BY <1>1, <1>2, <1>7, <1>8, <2>1, HoldStays DEF InPlace
  <2>3. ASSUME NEW j \in batch["dlq"][p], j \notin todo["dlq"][p] \ {i}
        PROVE  Drained(topic["dlq"][j])'
    <3>1. topic["dlq"][j] \in Records
      BY <1>1, <1>2, TopicType DEF InPlace, IInv
    <3>2. CASE j = i
      BY <3>1, <3>2, <1>3, <1>6, <2>1 DEF Drained
    <3>3. CASE j # i
      BY <3>1, <3>3, <2>3, <1>2, <1>6, <2>1 DEF DrainAt, Drained
    <3> QED
      BY <3>2, <3>3
  <2>4. DrainAt(p)'
    BY <2>1, <2>3, <1>2 DEF DrainAt
  <2> QED
    BY <2>2, <2>4 DEF Sound, At
<1> QED
  BY <1>1, <1>7, <1>8, <1>9, <1>10, <1>11, InnerStep DEF Drain, broker

LEMMA DrainFailsStep == ASSUME IInv, NEW p \in Processors, DrainFails(p) PROVE IInv' /\ Grows
<1> DEFINE r == NextTodo("dlq", p)
<1>1. "dlq" \in Groups
  BY DEF Groups
<1>2. r \in Records /\ r \in Broken \cup Refused
  BY <1>1, NextTodoIn DEF DrainFails, IInv, Sorted
<1>3. rejectedRows' \in {rejectedRows, WithRows({r})}
  BY DEF DrainFails
<1> HIDE DEF r
<1>4. /\ rejectedRows' \in [Records -> Nat]
      /\ \A x \in Records : rejectedRows[x] <= rejectedRows'[x]
      /\ \A x \in Records : rejectedRows'[x] > 0 => rejectedRows[x] > 0 \/ x = r
  <2>1. CASE rejectedRows' = rejectedRows
    BY <2>1 DEF IInv, TypeOK
  <2>2. CASE rejectedRows' = WithRows({r})
    BY <2>2, RowsGrow DEF IInv
  <2> QED
    BY <2>1, <2>2, <1>3
<1>5. TypeOK'
  <2>1. WorkersOK'
    BY <1>1, LeaveType DEF DrainFails, IInv
  <2>2. faults' \in 0..MaxFaults
    BY PipelineAssumption DEF DrainFails, Fault, IInv, TypeOK
  <2> QED
    BY <1>4, <2>1, <2>2 DEF WorkersOK, DrainFails, IInv, TypeOK
<1>6. Grows
  BY <1>4, TopicKept DEF DrainFails, IInv, Grows
<1>7. Sorted' /\ RawFirst' /\ ForwardedIsStored'
  <2>1. RawFirst'
    <3>1. \A x \in Records \ Refused : x = r => x \in Broken
      BY <1>2
    <3>2. r \notin Broken
      BY DEF DrainFails, r
    <3> QED
      BY <1>4, <3>1, <3>2 DEF DrainFails, IInv, RawFirst
  <2> QED
    BY <2>1 DEF DrainFails, IInv, Sorted, ForwardedIsStored
<1> QED
  BY <1>1, <1>5, <1>6, <1>7, LeaveStep DEF DrainFails

LEMMA CrashStep == ASSUME IInv, NEW p \in Processors, Crash(p) PROVE IInv' /\ Grows
<1>0. /\ \A h \in Groups : /\ phase[h] \in [Processors -> Phases]
                            /\ polled[h] \in [Processors -> Nat]
                            /\ batch[h] \in [Processors -> SUBSET Nat]
                            /\ todo[h] \in [Processors -> SUBSET Nat]
      /\ passed \in [Processors -> SUBSET Nat]
  BY DEF IInv, TypeOK
<1>1. \A h \in Groups :
        /\ phase'[h] = [phase[h] EXCEPT ![p] = "down"]
        /\ owner'[h] = IF owner[h] = p THEN None ELSE owner[h]
        /\ polled'[h] = [polled[h] EXCEPT ![p] = 0]
        /\ batch'[h] = [batch[h] EXCEPT ![p] = {}]
        /\ todo'[h] = [todo[h] EXCEPT ![p] = {}]
  BY DEF Crash
<1>2. passed' = [passed EXCEPT ![p] = {}] /\ committed' = committed
  BY DEF Crash
<1>3. TypeOK'
  <2>1. phase' \in [Groups -> [Processors -> Phases]]
    BY DEF Crash, IInv, TypeOK, Phases
  <2>2. owner' \in [Groups -> Processors \cup {None}]
    BY DEF Crash, IInv, TypeOK
  <2>3. polled' \in [Groups -> [Processors -> Nat]]
    BY DEF Crash, IInv, TypeOK
  <2>4. batch' \in [Groups -> [Processors -> SUBSET Nat]]
    BY DEF Crash, IInv, TypeOK
  <2>5. todo' \in [Groups -> [Processors -> SUBSET Nat]]
    BY DEF Crash, IInv, TypeOK
  <2>6. passed' \in [Processors -> SUBSET Nat]
    BY DEF Crash, IInv, TypeOK
  <2>7. faults' \in 0..MaxFaults
    BY PipelineAssumption DEF Crash, Fault, IInv, TypeOK
  <2> QED
    BY <2>1, <2>2, <2>3, <2>4, <2>5, <2>6, <2>7 DEF Crash, stores, IInv, TypeOK
<1>4. Grows
  BY TopicKept, StoresKept DEF Crash, IInv, Grows
<1>5. Sorted' /\ RawFirst' /\ ForwardedIsStored'
  BY DEF Crash, stores, IInv, Sorted, RawFirst, ForwardedIsStored
<1>6. \A h \in Groups : Sound(h, p)'
  <2> TAKE h \in Groups
  <2>1. phase'[h][p] = "down" /\ polled'[h][p] = 0
    BY <1>0, <1>1
  <2>2. batch'[h][p] = {} /\ todo'[h][p] = {}
    <3>1. batch'[h] = [batch[h] EXCEPT ![p] = {}] /\ batch[h] \in [Processors -> SUBSET Nat]
      BY <1>0, <1>1
    <3>2. todo'[h] = [todo[h] EXCEPT ![p] = {}] /\ todo[h] \in [Processors -> SUBSET Nat]
      BY <1>0, <1>1
    <3>3. batch'[h][p] = {}
      BY <3>1
    <3>4. todo'[h][p] = {}
      BY <3>2
    <3> QED
      BY <3>3, <3>4
  <2>3. passed'[p] = {}
    BY <1>0, <1>2
  <2>4. owner'[h] # p
    BY <1>1, PipelineAssumption
  <2> QED
    BY <2>1, <2>2, <2>3, <2>4, <1>3, Gone
<1>7. ASSUME NEW h \in Groups, NEW q \in Processors, q # p
      PROVE  Same(h, q) /\ (owner'[h] = q => owner[h] = q)
  <2>1. owner'[h] = q => owner[h] = q
    BY <1>1, PipelineAssumption
  <2>2. passed'[q] = passed[q]
    BY <1>2, <1>7 DEF IInv, TypeOK
  <2> QED
    BY <1>0, <1>1, <1>7, <2>1, <2>2 DEF Same, SameBatch
<1>8. \A h \in Groups, q \in Processors :
         \/ Same(h, q) /\ (owner'[h] = q => owner[h] = q)
         \/ Sound(h, q)'
  BY <1>6, <1>7
<1> QED
  BY <1>2, <1>3, <1>4, <1>5, <1>8, WorkerStep

LEMMA StutterStep == ASSUME IInv, UNCHANGED vars PROVE IInv' /\ Grows
<1>1. TypeOK'
  BY DEF vars, broker, stores, IInv, TypeOK
<1>2. Grows
  BY TopicKept, StoresKept DEF vars, broker, IInv, Grows
<1>3. Sorted' /\ RawFirst' /\ ForwardedIsStored'
  BY DEF vars, broker, stores, IInv, Sorted, RawFirst, ForwardedIsStored
<1>4. \A h \in Groups, q \in Processors : Same(h, q) /\ (owner'[h] = q => owner[h] = q)
  BY DEF vars, broker, Same, SameBatch
<1> QED
  BY <1>1, <1>2, <1>3, <1>4, WorkerStep DEF vars, broker

-----------------------------------------------------------------------------
LEMMA NextKeeps == IInv /\ [Next]_vars => IInv' /\ Grows
<1> SUFFICES ASSUME IInv, [Next]_vars PROVE IInv' /\ Grows
  OBVIOUS
<1>1. CASE UNCHANGED vars
  BY <1>1, StutterStep
<1>2. ASSUME NEW r \in Records, Receive(r) PROVE IInv' /\ Grows
  BY <1>2, ReceiveStep
<1>3. ASSUME NEW g \in Groups, NEW p \in Processors,
             Assign(g, p) \/ Loop(g, p) \/ PollFails(g, p) \/ CommitFails(g, p)
      PROVE  IInv' /\ Grows
  BY <1>3, AssignStep, RestartStep, PollStep, CommitStep, PollFailsStep, CommitFailsStep DEF Loop
<1>4. ASSUME NEW p \in Processors, Batch(p) PROVE IInv' /\ Grows
  BY <1>4, StoreRawStep, NormalizeStep, StoreNormalizedStep, StoreRejectedStep, ForwardStep,
     DeadLetterStep DEF Batch
<1>5. ASSUME NEW p \in Processors, Drain(p) PROVE IInv' /\ Grows
  BY <1>5, DrainStep
<1>6. ASSUME NEW p \in Processors, Fails(p) PROVE IInv' /\ Grows
  BY <1>6, StoreRawFailsStep, StoreNormalizedFailsStep, StoreRejectedFailsStep, ForwardFailsStep,
     DeadLetterFailsStep, DrainFailsStep, CrashStep DEF Fails
<1> QED
  BY <1>1, <1>2, <1>3, <1>4, <1>5, <1>6 DEF Next

LEMMA Invariance == Spec => []IInv
<1> QED
  BY InitIInv, NextKeeps, PTL DEF Spec

(* The state keeps its type; in particular only fit records are ever       *)
(* normalized or forwarded, and no refused one is stored as raw.           *)
THEOREM PipelineTypeOK == Spec => []TypeOK
<1>1. IInv => TypeOK
  BY DEF IInv
<1> QED
  BY <1>1, Invariance, PTL

(* No committed offset ever passes a record that is not accounted for      *)
(* (stream.RunBatch, normalize.HandleBatch, DeadLetterWorker.Handle), with *)
(* any number of processors, failures, restarts and rebalances.            *)
THEOREM CommitsSkipNothing == Spec => []NothingSkipped
<1>1. IInv => NothingSkipped
  BY DEF IInv
<1> QED
  BY <1>1, Invariance, PTL

(* Everything derived from a record, an event in the correlation topic and *)
(* a rejection included, waits until the record's raw bytes, and for that  *)
(* event its normalized form, are stored (normalize.HandleBatch,           *)
(* normalize.forwardBatch).                                                *)
THEOREM NothingComesFirst == Spec => []StoredInOrder
<1>1. IInv => StoredInOrder
  BY DEF IInv, StoredInOrder
<1> QED
  BY <1>1, Invariance, PTL

-----------------------------------------------------------------------------
(* The consumers implement AtLeastOnce.                                    *)

(* The records a group is done with, and what its view of a step may be.   *)
Finished(g) == {r \in Records : Ok(g, r)}

GroupStep(g) ==
    \/ /\ \E r \in Records : topic'[g] = Append(topic[g], r)
       /\ Finished(g)' = Finished(g) /\ committed'[g] = committed[g]
    \/ /\ Finished(g) \subseteq Finished(g)'
       /\ topic'[g] = topic[g] /\ committed'[g] = committed[g]
    \/ /\ committed'[g] \in 1..Len(topic[g]) /\ committed'[g] > committed[g]
       /\ \A i \in 1..committed'[g] : topic[g][i] \in Finished(g)
       /\ topic'[g] = topic[g] /\ Finished(g)' = Finished(g)

LEMMA FinishedGrows ==
    ASSUME TypeOK, TypeOK', Grows, NEW g \in Groups
    PROVE  Finished(g) \subseteq Finished(g)'
  BY OkStays DEF Finished

(* A commit is seen by its own group only, and covers finished records.    *)
LEMMA CommitSeen ==
    ASSUME IInv, IInv', Grows, NEW g \in Groups, NEW p \in Processors,
           phase[g][p] = "handled", todo[g][p] = {},
           committed' = [committed EXCEPT ![g] = Committing(g, p)],
           UNCHANGED <<topic, stores>>
    PROVE  \A h \in Groups : GroupStep(h)
<1> TAKE h \in Groups
<1>1. Finished(h)' = Finished(h)
  BY DEF Finished, Ok, Accounted, Drained, Published, stores
<1>2. CASE h # g \/ Committing(g, p) = committed[g]
  <2>1. committed'[h] = committed[h]
    BY <1>2 DEF IInv, TypeOK
  <2> QED
    BY <1>1, <2>1 DEF GroupStep
<1>3. CASE h = g /\ Committing(g, p) # committed[g]
  <2>1. /\ Committing(g, p) \in Nat /\ committed[g] <= Committing(g, p)
        /\ Committing(g, p) <= Len(topic[g])
        /\ \A i \in 1..Committing(g, p) : Ok(g, topic[g][i])
        /\ committed[g] \in Nat /\ Len(topic[g]) \in Nat
    <3>1. /\ Committing(g, p) \in Nat /\ committed[g] <= Committing(g, p)
          /\ Committing(g, p) <= Len(topic[g])
          /\ \A i \in 1..Committing(g, p) : Ok(g, topic[g][i])
      BY CommitSound
    <3> QED
      BY <3>1 DEF IInv, TypeOK
  <2>2. committed'[g] = Committing(g, p)
    BY DEF IInv, TypeOK
  <2>3. committed'[g] \in 1..Len(topic[g]) /\ committed'[g] > committed[g]
    BY <1>3, <2>1, <2>2
  <2>4. \A i \in 1..committed'[g] : topic[g][i] \in Finished(g)
    BY <2>1, <2>2, <2>3, TopicType DEF Finished, IInv
  <2> QED
    BY <1>1, <1>3, <2>3, <2>4 DEF GroupStep
<1> QED
  BY <1>2, <1>3

(* Most steps show a group at most that more of its records are finished.  *)
LEMMA QuietSeen ==
    ASSUME IInv, IInv', Grows, NEW g \in Groups, topic'[g] = topic[g], committed' = committed
    PROVE  GroupStep(g)
  BY FinishedGrows DEF IInv, GroupStep

LEMMA EveryStepSeen == ASSUME IInv, IInv', Grows, [Next]_vars PROVE \A g \in Groups : GroupStep(g)
<1> USE DEF Groups
<1>1. CASE UNCHANGED vars
  BY <1>1, QuietSeen DEF vars, broker
<1>2. ASSUME NEW r \in Records, Receive(r) PROVE \A g \in Groups : GroupStep(g)
  <2> TAKE g \in Groups
  <2> DEFINE h == IF r \in Refused THEN "dlq" ELSE "raw"
  <2>1. topic' = [topic EXCEPT ![h] = Append(@, r)] /\ committed' = committed
    BY <1>2 DEF Receive
  <2>2. CASE g = h
    <3>1. topic'[g] = Append(topic[g], r) /\ committed'[g] = committed[g]
      BY <2>1, <2>2 DEF IInv, TypeOK
    <3>2. Finished(g)' = Finished(g)
      <4>1. g = "raw" => topic'["dlq"] = topic["dlq"]
        BY <2>1, <2>2 DEF IInv, TypeOK
      <4> QED
        BY <1>2, <4>1 DEF Receive, stores, Finished, Ok, Accounted, Drained, Published
    <3> QED
      BY <3>1, <3>2 DEF GroupStep
  <2>3. CASE g # h
    BY <2>1, <2>3, QuietSeen DEF IInv, TypeOK
  <2> QED
    BY <2>2, <2>3
<1>3. ASSUME NEW p \in Processors, DeadLetter(p) \/ DeadLetterFails(p)
      PROVE  \A g \in Groups : GroupStep(g)
  <2> DEFINE r == NextTodo("raw", p)
  <2>1. r \in Records /\ committed' = committed
    BY <1>3, NextTodoIn DEF DeadLetter, DeadLetterFails
  <2>2. topic' = topic \/ topic' = [topic EXCEPT !["dlq"] = Append(@, r)]
    BY <1>3 DEF DeadLetter, DeadLetterFails
  <2> HIDE DEF r
  <2>3. GroupStep("raw")
    BY <2>1, <2>2, QuietSeen DEF IInv, TypeOK
  <2>4. GroupStep("dlq")
    <3>1. CASE topic' = topic
      BY <3>1, <2>1, QuietSeen
    <3>2. CASE topic' = [topic EXCEPT !["dlq"] = Append(@, r)]
      <4>1. topic'["dlq"] = Append(topic["dlq"], r)
        BY <3>2 DEF IInv, TypeOK
      <4>2. Finished("dlq")' = Finished("dlq")
        BY <1>3 DEF DeadLetter, DeadLetterFails, stores, Finished, Ok, Drained
      <4> QED
        BY <4>1, <4>2, <2>1 DEF GroupStep
    <3> QED
      BY <2>2, <3>1, <3>2
  <2> QED
    BY <2>3, <2>4
<1>4. ASSUME NEW g \in Groups, NEW p \in Processors, Commit(g, p)
      PROVE  \A h \in Groups : GroupStep(h)
  BY <1>4, CommitSeen DEF Commit
<1>5. ASSUME NEW g \in Groups, NEW p \in Processors, CommitFails(g, p)
      PROVE  \A h \in Groups : GroupStep(h)
  <2>1. CASE committed' = committed
    BY <1>5, <2>1, QuietSeen DEF CommitFails
  <2>2. CASE committed' = [committed EXCEPT ![g] = Committing(g, p)]
    BY <1>5, <2>2, CommitSeen DEF CommitFails
  <2> QED
    BY <1>5, <2>1, <2>2 DEF CommitFails
<1>6. ASSUME NEW g \in Groups, NEW p \in Processors,
             Assign(g, p) \/ Restart(g, p) \/ Poll(g, p) \/ PollFails(g, p)
      PROVE  \A h \in Groups : GroupStep(h)
  <2>1. topic' = topic /\ committed' = committed
    BY <1>6 DEF Assign, Restart, Poll, PollFails, broker
  <2> QED
    BY <2>1, QuietSeen
<1>7. ASSUME NEW p \in Processors,
             \/ StoreRaw(p) \/ Normalize(p) \/ StoreNormalized(p) \/ StoreRejected(p) \/ Forward(p)
             \/ Drain(p) \/ StoreRawFails(p) \/ StoreNormalizedFails(p) \/ StoreRejectedFails(p)
             \/ ForwardFails(p) \/ DrainFails(p) \/ Crash(p)
      PROVE  \A h \in Groups : GroupStep(h)
  <2>1. topic' = topic /\ committed' = committed
    BY <1>7 DEF StoreRaw, Normalize, StoreNormalized, StoreRejected, Forward, Drain, StoreRawFails,
       StoreNormalizedFails, StoreRejectedFails, ForwardFails, DrainFails, Crash, broker
  <2> QED
    BY <2>1, QuietSeen
<1> QED
  BY <1>1, <1>2, <1>3, <1>4, <1>5, <1>6, <1>7 DEF Next, Loop, Batch, Fails

(* The normalizer's group implements AtLeastOnce: its committed offset     *)
(* only moves forward, and only past records that are accounted for        *)
(* (stream.RunBatch).                                                      *)
THEOREM RawIsAtLeastOnce == Spec => AtLeastOnceRaw
<1>1. Init => RawGroup!Init
  BY DEF Init, RawGroup!Init, Groups
<1>2. IInv /\ IInv' /\ Grows /\ [Next]_vars => [RawGroup!Next]_(RawGroup!vars)
  <2> SUFFICES ASSUME IInv, IInv', Grows, [Next]_vars PROVE [RawGroup!Next]_(RawGroup!vars)
    OBVIOUS
  <2>1. GroupStep("raw")
    BY EveryStepSeen DEF Groups
  <2>2. Finished("raw") = {r \in Records : Accounted(r)}
    BY DEF Finished, Ok
  <2>3. Finished("raw")' = {r \in Records : Accounted(r)}'
    BY DEF Finished, Ok
  <2> QED
    BY <2>1, <2>2, <2>3
       DEF GroupStep, RawGroup!Next, RawGroup!vars, RawGroup!Publish, RawGroup!Handle, RawGroup!CommitTo
<1> QED
  BY <1>1, <1>2, InitIInv, NextKeeps, PTL DEF Spec, AtLeastOnceRaw, RawGroup!Spec

(* So does the drain's, for the dead letters (DeadLetterWorker.Handle).    *)
THEOREM DlqIsAtLeastOnce == Spec => AtLeastOnceDlq
<1>1. Init => DlqGroup!Init
  BY DEF Init, DlqGroup!Init, Groups
<1>2. IInv /\ IInv' /\ Grows /\ [Next]_vars => [DlqGroup!Next]_(DlqGroup!vars)
  <2> SUFFICES ASSUME IInv, IInv', Grows, [Next]_vars PROVE [DlqGroup!Next]_(DlqGroup!vars)
    OBVIOUS
  <2>1. GroupStep("dlq")
    BY EveryStepSeen DEF Groups
  <2>2. Finished("dlq") = {r \in Records : Drained(r)}
    BY DEF Finished, Ok
  <2>3. Finished("dlq")' = {r \in Records : Drained(r)}'
    BY DEF Finished, Ok
  <2> QED
    BY <2>1, <2>2, <2>3
       DEF GroupStep, DlqGroup!Next, DlqGroup!vars, DlqGroup!Publish, DlqGroup!Handle, DlqGroup!CommitTo
<1> QED
  BY <1>1, <1>2, InitIInv, NextKeeps, PTL DEF Spec, AtLeastOnceDlq, DlqGroup!Spec

(* Each group keeps the promise of a consumer group for its own topic,     *)
(* whatever happens to the other (kafka/client.go Consumer.Run).           *)
THEOREM GroupsAreAtLeastOnce == Spec => AtLeastOnceGroups
  BY RawIsAtLeastOnce, DlqIsAtLeastOnce, PTL DEF AtLeastOnceGroups
=============================================================================
