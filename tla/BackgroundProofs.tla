-------------------------- MODULE BackgroundProofs --------------------------
(***************************************************************************)
(* Proofs about the workers of MCBackground that run on a schedule: the    *)
(* pull worker and the alerting worker, for any number of processes.       *)
(*                                                                         *)
(* The pull worker, any feed and any number of faults.  A process knows a  *)
(* position up to which the log is committed, and it has in hand           *)
(* every position something is owed of from there to the last position it  *)
(* fetched (Held).  What is owed of the first batch in hand is durable or  *)
(* about to be published, since no record that is owed has an envelope at  *)
(* the place of a rejected record (OwedAreCandidates).  So when the batch  *)
(* is published, the log is committed up to it, and that is the only       *)
(* position the process ever writes to the feed's row.                     *)
(*                                                                         *)
(* Alerting, any operators, groups, alerts and failures.  Whoever has read *)
(* an alert's row holds its lock, and the row he has in hand is the        *)
(* alert's row still, since nobody else writes an alert whose lock he does *)
(* not hold (Writing).  What he changes of it is therefore all that the    *)
(* alert's row changes.                                                    *)
(***************************************************************************)
EXTENDS MCBackground, Sequences, TLAPS, WellFoundedInduction, FiniteSetTheorems

(* What a process knows and has in hand.                                   *)
Held(p) ==
    /\ Passed(from[p])
    /\ at[p] \in {"idle", "listed"} => hand[p] = {}
    /\ \A k \in hand[p] : from[p] < k
    /\ \A k \in hand[p] : \A n \in from[p] + 1 .. k : Owed(n) # {} => n \in hand[p]
    /\ at[p] = "publish" => Owed(Batch(p)) \subseteq durable[Batch(p)] \cup accepted[p]
    /\ at[p] = "mark" => accepted[p] \subseteq durable[Batch(p)]
    /\ at[p] \in {"mark", "advance"} => Owed(Batch(p)) \subseteq durable[Batch(p)]

MarksAreDurable == \A n \in 1..feed.length : marked[n] \subseteq durable[n]

IInv ==
    /\ TypeOK
    /\ begun > 0 => begun + Lookback <= top
    /\ MarksAreDurable
    /\ Passed(watermark)
    /\ \A p \in Processes : Held(p)

-----------------------------------------------------------------------------
(* The first batch in hand.                                                *)
LEMMA BatchIsLeast ==
    ASSUME TypeOK, NEW p \in Processes, hand[p] # {}
    PROVE  /\ Batch(p) \in hand[p] /\ Batch(p) \in 1..top
           /\ \A k \in hand[p] : Batch(p) <= k
<1> DEFINE R == OpToRel(<, Nat)
           S == hand[p]
<1>1. R = {ss \in Nat \X Nat : ss[1] < ss[2]}
  BY DEF OpToRel
<1>2. IsWellFoundedOn(R, Nat)
  BY NatLessThanWellFounded
<1>3. S \subseteq 1..top /\ S \subseteq Nat /\ S # {}
  BY PullerAssumption DEF TypeOK
<1>4. Batch(p) = CHOOSE x \in S : \A y \in S : x =< y
  BY DEF Batch, Min
<1> HIDE DEF R, S
<1>5. PICK m \in S : \A k \in S : ~(<<k, m>> \in R)
  BY <1>2, <1>3, WFMin, Zenon
<1>6. ASSUME NEW k \in S, ~(m <= k) PROVE FALSE
  <2>1. k \in Nat /\ m \in Nat /\ k < m
    BY <1>6, <1>3
  <2> QED
    BY <2>1, <1>5, <1>1
<1>7. Batch(p) \in S /\ \A k \in S : Batch(p) <= k
  BY <1>4, <1>5, <1>6
<1> QED
  BY <1>3, <1>7 DEF S

(* The sets a fetch returns lie after where it began.                      *)
LEMMA OfferedType ==
    ASSUME TypeOK, NEW f \in 0..top
    PROVE  /\ Offered(f) \subseteq f + 1 .. top
           /\ \A X : X \subseteq Offered(f) => X \subseteq 1..top
<1>1. f \in Nat /\ top \in Nat /\ feed.kind \in Kinds
  BY PullerAssumption DEF TypeOK
<1>2. Offered(f) \subseteq f + 1 .. top
  <2>1. CASE feed.kind = "objects"
    BY <2>1 DEF Offered
  <2>2. CASE feed.kind = "windows"
    BY <2>2 DEF Offered, Reach
  <2>3. CASE feed.kind = "pages"
    BY <2>3 DEF Offered, Reach
  <2> QED
    BY <1>1, <2>1, <2>2, <2>3 DEF Kinds
<1> QED
  BY <1>1, <1>2

LEMMA StartType ==
    ASSUME TypeOK, NEW f \in 0..top
    PROVE  /\ Start(f) \in 0..top /\ f <= Start(f)
           /\ Start(f) > f => Start(f) + Lookback <= top
<1>1. top \in Nat /\ Lookback \in Nat /\ f \in Nat
  BY PullerAssumption DEF TypeOK
<1> QED
  BY <1>1 DEF Start

-----------------------------------------------------------------------------
(* Type correctness.                                                       *)

LEMMA ReturnType ==
    ASSUME TypeOK, NEW p \in Processes, Return(p),
           feed' = feed, top' = top, watermark' \in 0..top, begun' \in 0..top,
           durable' \in [1..feed.length -> SUBSET Nat], marked' \in [1..feed.length -> SUBSET Nat], faults' \in 0..MaxFaults
    PROVE  TypeOK'
<1>1. top \in Nat
  BY PullerAssumption DEF TypeOK
<1> QED
  BY <1>1 DEF TypeOK, Return, Go, Places

LEMMA TakeType ==
    ASSUME TypeOK, NEW p \in Processes, at[p] = "listed", NEW f \in 0..top, NEW S \in SUBSET (1..top),
           Take(p, f, S), faults' \in 0..MaxFaults,
           UNCHANGED <<feed, top, watermark, durable, marked>>
    PROVE  TypeOK'
<1>1. begun' \in 0..top
  BY DEF Take, TypeOK
<1>2. CASE S = {}
  BY <1>1, <1>2, ReturnType DEF Take, TypeOK
<1>3. CASE S # {}
  <2>1. top \in Nat
    BY PullerAssumption DEF TypeOK
  <2>2. /\ hand' = [hand EXCEPT ![p] = S]
        /\ from' = [from EXCEPT ![p] = f]
        /\ tail' = [tail EXCEPT ![p] = IF feed.kind = "pages" /\ top \in S THEN top ELSE 0]
        /\ at' = [at EXCEPT ![p] = "batch"]
        /\ accepted' = accepted
    BY <1>3 DEF Take, Go
  <2> QED
    BY <1>1, <1>3, <2>1, <2>2 DEF TypeOK, Places
<1> QED
  BY <1>2, <1>3

LEMMA NextBatchType ==
    ASSUME TypeOK, NEW p \in Processes, hand[p] # {}, NextBatch(p),
           feed' = feed, top' = top, watermark' \in 0..top, begun' = begun,
           durable' = durable, marked' = marked, faults' = faults
    PROVE  TypeOK'
<1>1. top \in Nat
  BY PullerAssumption DEF TypeOK
<1>2. CASE hand[p] = {Batch(p)}
  BY <1>2, ReturnType DEF NextBatch, TypeOK
<1>3. CASE hand[p] # {Batch(p)}
  <2>1. Batch(p) \in hand[p] /\ Batch(p) \in 1..top
    BY BatchIsLeast
  <2>2. hand[p] \ {Batch(p)} # {}
    BY <1>3, <2>1
  <2>3. /\ hand' = [hand EXCEPT ![p] = hand[p] \ {Batch(p)}]
        /\ from' = [from EXCEPT ![p] = Batch(p)]
        /\ accepted' = [accepted EXCEPT ![p] = {}]
        /\ at' = [at EXCEPT ![p] = "batch"]
        /\ tail' = tail
    BY <1>3 DEF NextBatch, Go
  <2> HIDE DEF Batch
  <2> QED
    BY <1>1, <2>1, <2>2, <2>3 DEF TypeOK, Places
<1> QED
  BY <1>2, <1>3

LEMMA CappedUpTo ==
    \A S, n : Capped(S) \subseteq S /\ UpTo(S, n) \subseteq S
BY DEF Capped, UpTo

LEMMA TypeStep ==
    ASSUME TypeOK, Next PROVE TypeOK'
<1> USE PullerAssumption
<1>0. top \in Nat /\ feed.length \in Nat /\ top <= feed.length
  BY DEF TypeOK
<1>1. ASSUME NEW p \in Processes, ListFeed(p) PROVE TypeOK'
  <2>1. /\ at' = [at EXCEPT ![p] = "listed"] /\ from' = [from EXCEPT ![p] = watermark]
        /\ UNCHANGED <<feed, top, watermark, begun, durable, marked, hand, tail, accepted, faults>>
    BY <1>1 DEF ListFeed, Go
  <2> QED
    BY <1>0, <2>1 DEF TypeOK, Places
<1>2. ASSUME NEW p \in Processes, Fetch(p) PROVE TypeOK'
  <2> DEFINE f == Start(from[p])
             S == Capped(Offered(f))
  <2>1. f \in 0..top
    BY <1>0, StartType DEF TypeOK
  <2> HIDE DEF f
  <2>2. S \in SUBSET (1..top)
    BY <2>1, OfferedType, CappedUpTo
  <2>3. at[p] = "listed" /\ Take(p, f, S) /\ faults' = faults
        /\ UNCHANGED <<feed, top, watermark, durable, marked>>
    BY <1>2 DEF Fetch, f
  <2> HIDE DEF S
  <2>4. faults' \in 0..MaxFaults
    BY <2>3 DEF TypeOK
  <2> QED
    BY <2>1, <2>2, <2>3, <2>4, TakeType
<1>3. ASSUME NEW p \in Processes, FetchFails(p) PROVE TypeOK'
  <2> DEFINE f == Start(from[p])
  <2>1. f \in 0..top
    BY <1>0, StartType DEF TypeOK
  <2>2. PICK n \in 0..top : Take(p, f, Capped(UpTo(Offered(f), n)))
    BY <1>3 DEF FetchFails
  <2> DEFINE S == Capped(UpTo(Offered(f), n))
  <2> HIDE DEF f
  <2>3. S \subseteq Offered(f)
    BY CappedUpTo
  <2>4. S \in SUBSET (1..top)
    BY <2>1, <2>3, OfferedType
  <2>5. at[p] = "listed" /\ faults' \in 0..MaxFaults
        /\ UNCHANGED <<feed, top, watermark, durable, marked>>
    BY <1>3 DEF FetchFails, Fault, TypeOK
  <2>6. Take(p, f, S)
    BY <2>2
  <2> HIDE DEF S
  <2> QED
    BY <2>1, <2>4, <2>5, <2>6, TakeType
<1>4. ASSUME NEW p \in Processes, PollFails(p) \/ Crash(p) PROVE TypeOK'
  <2>1. /\ Return(p) /\ UNCHANGED <<feed, top, watermark, begun, durable, marked>>
        /\ faults' \in 0..MaxFaults
    BY <1>4 DEF TypeOK, PollFails, Crash, Fault
  <2>2. watermark' \in 0..top /\ begun' \in 0..top /\ durable' \in [1..feed.length -> SUBSET Nat] /\ marked' \in [1..feed.length -> SUBSET Nat]
    BY <2>1 DEF TypeOK
  <2> QED
    BY <2>1, <2>2, ReturnType
<1>5. ASSUME NEW p \in Processes, SkipGarbage(p) PROVE TypeOK'
  BY <1>0, <1>5 DEF TypeOK, SkipGarbage, Go, Places
<1>6. ASSUME NEW p \in Processes, Filter(p) PROVE TypeOK'
  <2> DEFINE n == Batch(p)
  <2>1. \E S \in SUBSET Nat : accepted' = [accepted EXCEPT ![p] = S]
    <3>1. Candidates(n) \subseteq Nat
      <4>1. hand[p] # {}
        BY <1>6 DEF Filter, TypeOK
      <4>2. n \in 1..feed.length
        BY <1>0, <4>1, BatchIsLeast
      <4>3. DOMAIN Records(n) \subseteq Nat
        <5> HIDE DEF n
        <5>1. feed.records[n] \in Seq(RecordKinds)
          BY <4>2 DEF TypeOK
        <5> QED
          BY <5>1 DEF Records
      <4> QED
        BY <4>3 DEF Candidates, Carried
    <3>2. Candidates(n) \ marked[n] \subseteq Nat
      BY <3>1
    <3>3. \/ accepted' = [accepted EXCEPT ![p] = Candidates(n) \ marked[n]]
          \/ accepted' = [accepted EXCEPT ![p] = Candidates(n)]
      BY <1>6 DEF Filter
    <3> HIDE DEF n
    <3> QED
      BY <3>1, <3>2, <3>3
  <2>2. /\ faults' \in 0..MaxFaults
        /\ at[p] = "batch" /\ at' = [at EXCEPT ![p] = "publish"]
        /\ UNCHANGED <<feed, top, watermark, begun, durable, marked, from, hand, tail>>
    BY <1>6 DEF Filter, Fault, TypeOK, Go
  <2> QED
    BY <1>0, <2>1, <2>2 DEF TypeOK, Places
<1>7. ASSUME NEW p \in Processes, Publish(p) PROVE TypeOK'
  <2>1. hand[p] # {}
    BY <1>7 DEF Publish, TypeOK
  <2>2. Batch(p) \in 1..feed.length
    BY <1>0, <2>1, BatchIsLeast
  <2> DEFINE n == Batch(p)
  <2>3. durable' = [durable EXCEPT ![n] = durable[n] \cup accepted[p]]
    BY <1>7 DEF Publish
  <2> HIDE DEF n
  <2>4. durable' \in [1..feed.length -> SUBSET Nat]
    BY <2>3 DEF TypeOK
  <2>5. \E w \in {"advance", "mark"} : at' = [at EXCEPT ![p] = w]
    BY <1>7 DEF Publish, Go
  <2>6. UNCHANGED <<feed, top, watermark, begun, marked, from, hand, tail, accepted, faults>>
    BY <1>7 DEF Publish
  <2> QED
    BY <1>0, <2>1, <2>4, <2>5, <2>6 DEF TypeOK, Places
<1>8. ASSUME NEW p \in Processes, PublishFails(p) PROVE TypeOK'
  <2>1. PICK part \in SUBSET accepted[p] : durable' = [durable EXCEPT ![Batch(p)] = durable[Batch(p)] \cup part]
    BY <1>8 DEF PublishFails
  <2> DEFINE n == Batch(p)
  <2>2. durable' = [durable EXCEPT ![n] = durable[n] \cup part]
    BY <2>1
  <2> HIDE DEF n
  <2>3. durable' \in [1..feed.length -> SUBSET Nat]
    BY <2>2 DEF TypeOK
  <2> QED
    <3>1. /\ Return(p) /\ UNCHANGED <<feed, top, watermark, begun, marked>>
          /\ faults' \in 0..MaxFaults
      BY <1>8 DEF TypeOK, PublishFails, Fault
    <3>2. watermark' \in 0..top /\ begun' \in 0..top /\ marked' \in [1..feed.length -> SUBSET Nat]
      BY <3>1 DEF TypeOK
    <3> QED
      BY <2>3, <3>1, <3>2, ReturnType
<1>9. ASSUME NEW p \in Processes, Mark(p) PROVE TypeOK'
  <2>1. hand[p] # {}
    BY <1>9 DEF Mark, TypeOK
  <2>2. PICK part \in SUBSET accepted[p] : marked' = [marked EXCEPT ![Batch(p)] = marked[Batch(p)] \cup part]
    BY <1>9 DEF Mark
  <2> DEFINE n == Batch(p)
  <2>3. marked' = [marked EXCEPT ![n] = marked[n] \cup part]
    BY <2>2
  <2> HIDE DEF n
  <2>4. marked' \in [1..feed.length -> SUBSET Nat]
    BY <2>3 DEF TypeOK
  <2>5. faults' \in 0..MaxFaults /\ at' = [at EXCEPT ![p] = "advance"]
        /\ UNCHANGED <<feed, top, watermark, begun, durable, from, hand, tail, accepted>>
    BY <1>9 DEF Mark, TypeOK, Fault, Go
  <2> QED
    BY <1>0, <2>1, <2>4, <2>5 DEF TypeOK, Places
<1>10. ASSUME NEW p \in Processes, Advance(p) PROVE TypeOK'
  <2>1. hand[p] # {}
    BY <1>10 DEF Advance, TypeOK
  <2>2. watermark' \in 0..top
    BY <1>10, <2>1, BatchIsLeast, <1>0 DEF Advance, TypeOK
  <2> QED
    BY <1>10, <2>1, <2>2, NextBatchType DEF TypeOK, Advance
<1>11. ASSUME NEW p \in Processes, AdvanceFails(p) PROVE TypeOK'
  <2>1. hand[p] # {}
    BY <1>11 DEF AdvanceFails, TypeOK
  <2>2. watermark' \in 0..top
    <3>1. Batch(p) \in 0..top
      BY <1>0, <2>1, BatchIsLeast
    <3>2. watermark' = watermark \/ watermark' = Batch(p)
      BY <1>11 DEF AdvanceFails
    <3> QED
      BY <3>1, <3>2 DEF TypeOK
  <2>3. faults' \in 0..MaxFaults
    BY <1>11 DEF AdvanceFails, Fault, TypeOK
  <2> QED
    BY <1>11, <2>2, <2>3, ReturnType DEF TypeOK, AdvanceFails
<1>12. ASSUME Log PROVE TypeOK'
  <2>1. top' = top + 1 /\ top' \in Nat /\ top < feed.length
    BY <1>0, <1>12 DEF Log
  <2> QED
    BY <1>0, <1>12, <2>1 DEF TypeOK, Log, local
<1> QED
  BY <1>1, <1>2, <1>3, <1>4, <1>5, <1>6, <1>7, <1>8, <1>9, <1>10, <1>11, <1>12 DEF Next, Poll

(* The state stays of its type.                                            *)
THEOREM PullTypeCorrect == Spec => []TypeOK
<1>1. Init => TypeOK
  BY PullerAssumption DEF Init, TypeOK, Places
<1>2. TypeOK /\ [Next]_vars => TypeOK'
  <2>1. ASSUME TypeOK, UNCHANGED vars PROVE TypeOK'
    BY <2>1 DEF TypeOK, vars, local
  <2> QED
    BY <2>1, TypeStep
<1> QED
  BY <1>1, <1>2, PTL DEF Spec

-----------------------------------------------------------------------------
(* What is known stays true while the stream grows and the feed's start    *)
(* moves up.                                                               *)
Grows == \A n \in 1..feed.length : durable[n] \subseteq durable'[n]

Steady ==
    /\ feed' = feed
    /\ begun <= begun'
    /\ Grows

LEMMA PassedStays ==
    ASSUME TypeOK, TypeOK', Steady, NEW n \in Nat, n <= feed.length
    PROVE  Passed(n) => \A k \in begun' + 1 .. n : Owed(k) \subseteq durable'[k]
<1>1. begun \in Nat /\ feed.length \in Nat /\ begun' \in Nat
  BY PullerAssumption DEF TypeOK
<1> SUFFICES ASSUME Passed(n), NEW k \in begun' + 1 .. n
             PROVE  Owed(k) \subseteq durable'[k]
  OBVIOUS
<1>2. k \in begun + 1 .. n /\ k \in 1..feed.length
  <2>1. PICK b \in Nat : begun' = b
    BY <1>1
  <2>2. begun <= b /\ k \in b + 1 .. n
    BY <2>1 DEF Steady
  <2> QED
    BY <1>1, <2>2
<1> QED
  BY <1>2 DEF Passed, Steady, Grows

(* What is owed of a batch is a matter of the feed alone.                  *)
LEMMA SameOwed ==
    ASSUME feed' = feed, NEW n
    PROVE  Owed(n)' = Owed(n)
BY DEF Owed, Fit, Displaced, Records

(* No fit record that is owed is taken for a rejected one: with no         *)
(* filtered record ahead of a rejected one, as many records as its         *)
(* envelope's place are ahead of the record.                               *)
LEMMA OwedAreCandidates ==
    ASSUME TypeOK, NEW n \in 1..feed.length
    PROVE  Owed(n) \subseteq Candidates(n)
<1>1. Records(n) \in Seq(RecordKinds)
  BY PullerAssumption DEF TypeOK, Records
<1> SUFFICES ASSUME NEW i \in Owed(n), EnvelopeOf(n, i) \in Rejections(n)
             PROVE  FALSE
  BY DEF Candidates, Owed, Fit, Carried
<1> DEFINE e == EnvelopeOf(n, i)
           l == Len(Records(n))
           C == {k \in Carried(n) : k <= i}
<1>2. /\ i \in 1..l /\ Records(n)[i] = "fit" /\ e \in 1..l /\ Records(n)[e] = "rejected" /\ l \in Nat
      /\ e < i => \A j \in 1..(i - 1) : j < e => Records(n)[j] # "filtered"
  BY <1>1 DEF Owed, Fit, Displaced, Rejections
<1>3. IsFiniteSet(C) /\ C \subseteq 1..i
  <2>1. C \subseteq 1..i /\ 1 \in Int /\ i \in Int
    BY <1>1, <1>2 DEF Carried
  <2> QED
    BY <2>1, FS_Interval, FS_Subset
<1>4. e = Cardinality(C)
  BY DEF EnvelopeOf
<1> HIDE DEF e, C, l
<1>5. e <= i
  <2>1. IsFiniteSet(1..i) /\ Cardinality(1..i) = i
    <3>1. 1 \in Int /\ i \in Int /\ i >= 1
      BY <1>2
    <3>2. Cardinality(1..i) = IF 1 > i THEN 0 ELSE i - 1 + 1
      BY <3>1, FS_Interval
    <3> QED
      BY <3>1, <3>2, FS_Interval
  <2> QED
    BY <1>3, <1>4, <2>1, FS_Subset
<1>6. e # i
  BY <1>2
<1>7. ((1..e) \cup {i}) \subseteq C
  <2>1. ASSUME NEW k \in 1..e PROVE k \in C
    <3>1. k \in 1..l /\ k <= i /\ k \in Nat
      BY <1>2, <1>5
    <3>2. Records(n)[k] # "filtered"
      BY <1>2, <1>5, <1>6, <3>1
    <3> QED
      BY <1>1, <3>1, <3>2 DEF C, Carried, l
  <2>2. i \in C
    BY <1>1, <1>2 DEF C, Carried, l
  <2> QED
    BY <2>1, <2>2
<1>8. Cardinality((1..e) \cup {i}) = e + 1 /\ IsFiniteSet((1..e) \cup {i})
  <2>1. IsFiniteSet(1..e) /\ Cardinality(1..e) = e
    <3>1. 1 \in Int /\ e \in Int /\ e >= 1
      BY <1>2
    <3>2. Cardinality(1..e) = IF 1 > e THEN 0 ELSE e - 1 + 1
      BY <3>1, FS_Interval
    <3> QED
      BY <3>1, <3>2, FS_Interval
  <2>2. i \notin 1..e
    BY <1>2, <1>5, <1>6
  <2> QED
    BY <2>1, <2>2, FS_AddElement
<1> QED
  BY <1>2, <1>3, <1>4, <1>7, <1>8, FS_Subset

(* A process that does not move keeps what it knows.                       *)
LEMMA HeldStays ==
    ASSUME TypeOK, TypeOK', Steady, NEW q \in Processes, Held(q),
           at'[q] = at[q], from'[q] = from[q], hand'[q] = hand[q], accepted'[q] = accepted[q]
    PROVE  Held(q)'
<1>1. from[q] \in Nat
  BY PullerAssumption DEF TypeOK
<1>2. Passed(from[q])'
  <2>1. Passed(from[q])
    BY DEF Held
  <2>2. from[q] <= feed.length
    BY PullerAssumption DEF TypeOK
  <2>3. \A k \in begun' + 1 .. from[q] : Owed(k) \subseteq durable'[k]
    BY <1>1, <2>1, <2>2, PassedStays
  <2> QED
    BY <2>3, SameOwed DEF Passed, Steady
<1>3. Batch(q)' = Batch(q)
  BY DEF Batch
<1>4. \A n : Owed(n)' = Owed(n)
  BY SameOwed DEF Steady
<1>5. at[q] \in {"publish", "mark", "advance"} =>
        Batch(q) \in 1..feed.length /\ durable[Batch(q)] \subseteq durable'[Batch(q)]
  <2> SUFFICES ASSUME at[q] \in {"publish", "mark", "advance"}
               PROVE  Batch(q) \in 1..feed.length /\ durable[Batch(q)] \subseteq durable'[Batch(q)]
    OBVIOUS
  <2>1. hand[q] # {}
    BY DEF TypeOK
  <2>2. Batch(q) \in 1..feed.length
    BY <2>1, BatchIsLeast, PullerAssumption DEF TypeOK
  <2> HIDE DEF Batch
  <2> QED
    BY <2>2 DEF Steady, Grows
<1> HIDE DEF Batch
<1> QED
  BY <1>2, <1>3, <1>4, <1>5 DEF Held, Steady

(* A poll that is over has nothing in hand.                                *)
LEMMA ReturnHeld ==
    ASSUME TypeOK, TypeOK', NEW p \in Processes, Return(p) PROVE Held(p)'
<1>1. from'[p] = 0 /\ hand'[p] = {} /\ at'[p] = "idle"
  BY DEF Return, Go, TypeOK
<1>2. PICK b \in Nat : begun' = b
  BY PullerAssumption DEF TypeOK
<1>3. Passed(from[p])'
  <2>1. b + 1 .. 0 = {}
    OBVIOUS
  <2>2. begun' + 1 .. from'[p] = {}
    BY <1>1, <1>2, <2>1
  <2> QED
    BY <2>2 DEF Passed
<1> QED
  BY <1>1, <1>3 DEF Held

(* The fetched batches are the first readable ones after its start.        *)
LEMMA OfferedIsPrefix ==
    ASSUME TypeOK, NEW f \in 0..top, NEW k \in Offered(f), NEW n \in f + 1 .. k, Owed(n) # {}
    PROVE  n \in Offered(f)
<1>1. f \in Nat /\ top \in Nat /\ MaxBatches \in Nat /\ feed.kind \in Kinds
  BY PullerAssumption DEF TypeOK
<1>2. k \in f + 1 .. top /\ n \in f + 1 .. top /\ n <= k
  BY <1>1, OfferedType
<1>0. ~IsEmpty(n)
  BY DEF IsEmpty, Owed, Fit
<1>3. CASE feed.kind = "objects"
  BY <1>0, <1>2, <1>3 DEF Offered
<1>4. CASE feed.kind = "windows"
  <2>1. k <= f + MaxBatches
    BY <1>4 DEF Offered, Reach
  <2>2. n \in Reach(f)
    BY <1>1, <1>2, <2>1 DEF Reach
  <2> QED
    BY <1>0, <1>4, <2>2 DEF Offered
<1>5. CASE feed.kind = "pages"
  <2>1. k <= f + MaxBatches /\ \A j \in f + 1 .. k : ~IsEmpty(j)
    BY <1>5 DEF Offered, Reach
  <2>2. n \in Reach(f)
    BY <1>1, <1>2, <2>1 DEF Reach
  <2>3. \A j \in f + 1 .. n : ~IsEmpty(j)
    BY <1>1, <1>2, <2>1
  <2> QED
    BY <1>5, <2>2, <2>3 DEF Offered
<1> QED
  BY <1>1, <1>3, <1>4, <1>5 DEF Kinds

(* Cutting a fetch short, or capping it, keeps the first ones.             *)
LEMMA CutsArePrefixes ==
    ASSUME top \in Nat, NEW S \in SUBSET (0..top), NEW m \in Capped(S), NEW n \in S, n <= m
    PROVE  n \in Capped(S)
<1> DEFINE A == {k \in S : k <= n}
           B == {k \in S : k <= m}
<1>0. m \in Nat /\ n \in Nat /\ \A k \in S : k \in Nat
  BY DEF Capped
<1>1. A \subseteq B
  <2>1. ASSUME NEW k \in S, k <= n PROVE k <= m
    <3>1. k \in Nat
      BY <1>0
    <3> HIDE DEF A, B
    <3> QED
      BY <1>0, <2>1, <3>1
  <2> QED
    BY <2>1
<1>2. IsFiniteSet(B)
  <2>1. IsFiniteSet(0..top)
    BY FS_Interval
  <2> QED
    BY <2>1, FS_Subset
<1>3. Cardinality(A) <= Cardinality(B)
  BY <1>1, <1>2, FS_Subset
<1>4. Cardinality(A) \in Nat /\ Cardinality(B) \in Nat
  BY <1>1, <1>2, FS_Subset, FS_CardinalityType
<1>5. Cardinality(B) <= MaxBatches
  BY DEF Capped
<1> QED
  BY <1>3, <1>4, <1>5, PullerAssumption DEF Capped

(* What a fetch leaves in hand is everything readable up to its last batch. *)
LEMMA TakeHeld ==
    ASSUME IInv, TypeOK', NEW p \in Processes, NEW S,
           LET f == Start(from[p]) IN
             /\ S \subseteq Offered(f)
             /\ \A m \in S, n \in Offered(f) : n <= m => n \in S
             /\ Take(p, f, S),
           UNCHANGED <<feed, top, watermark, durable, marked>>
    PROVE  IInv'
<1> DEFINE f == Start(from[p])
<1>1. /\ top \in Nat /\ begun \in Nat /\ Lookback \in Nat /\ from[p] \in 0..top /\ from[p] \in Nat
      /\ TypeOK
  BY PullerAssumption DEF TypeOK, IInv
<1>2. f \in 0..top /\ f \in Nat /\ from[p] <= f /\ (f > from[p] => f + Lookback <= top)
  BY <1>1, StartType
<1>3. begun' = IF f > from[p] THEN f ELSE begun
  BY DEF Take
<1>4. PICK b \in Nat : /\ begun' = b /\ begun <= b
                       /\ (b > 0 => b + Lookback <= top)
                       /\ (f > from[p] => b = f) /\ (~(f > from[p]) => b = begun)
  <2>1. CASE f > from[p]
    <3>1. from[p] = 0
      BY <2>1, <1>1 DEF Start
    <3>2. f = top - Lookback /\ top > Lookback
      BY <2>1, <1>1 DEF Start
    <3>3. begun <= f
      BY <1>1, <1>2, <3>2 DEF IInv
    <3> QED
      BY <1>2, <1>3, <2>1, <3>3
  <2>2. CASE ~(f > from[p])
    BY <1>1, <1>3, <2>2 DEF IInv
  <2> QED
    BY <2>1, <2>2
<1>5. Steady
  BY <1>4 DEF Steady, Grows
<1>6. begun' > 0 => begun' + Lookback <= top'
  BY <1>4
<1>7. Passed(watermark)'
  <2>1. watermark \in Nat /\ Passed(watermark)
    BY PullerAssumption, <1>1 DEF TypeOK, IInv
  <2>2. \A k \in begun' + 1 .. watermark : Owed(k) \subseteq durable'[k]
    <3>1. watermark <= feed.length
      BY PullerAssumption, <1>1 DEF TypeOK
    <3> QED
      BY <1>1, <1>5, <2>1, <3>1, PassedStays
  <2> QED
    BY <2>2, SameOwed DEF Passed
<1>8. ASSUME NEW q \in Processes, q # p PROVE Held(q)'
  <2>1. Held(q)
    BY DEF IInv
  <2>2. at'[q] = at[q] /\ from'[q] = from[q] /\ hand'[q] = hand[q] /\ accepted'[q] = accepted[q]
    BY <1>1, <1>8 DEF Take, Return, Go, TypeOK
  <2> QED
    BY <1>1, <1>5, <2>1, <2>2, HeldStays
<1>9. Held(p)'
  <2>1. CASE S = {}
    BY <1>1, <2>1, ReturnHeld DEF Take
  <2>2. CASE S # {}
    <3>1. hand'[p] = S /\ from'[p] = f /\ at'[p] = "batch"
      BY <1>1, <2>2 DEF Take, Go, TypeOK
    <3>2. \A k \in begun' + 1 .. f : Owed(k) \subseteq durable'[k]
      <4>1. CASE f > from[p]
        <5>1. b + 1 .. f = {}
          BY <1>2, <1>4, <4>1
        <5> QED
          BY <1>4, <5>1
      <4>2. CASE ~(f > from[p])
        <5>1. f = from[p]
          BY <1>1, <1>2, <4>2
        <5>2. Passed(f)
          BY <5>1 DEF IInv, Held
        <5>3. f <= feed.length
          BY <1>1, <1>2, PullerAssumption DEF TypeOK
        <5> HIDE DEF f
        <5> QED
          BY <1>1, <1>2, <1>5, <5>2, <5>3, PassedStays
      <4> QED
        BY <4>1, <4>2
    <3>3. Passed(from[p])'
      BY <3>1, <3>2, SameOwed DEF Passed
    <3>4. S \subseteq f + 1 .. top
      BY <1>1, <1>2, OfferedType
    <3>5. \A k \in S : f < k
      BY <1>1, <1>2, <3>4
    <3>6. ASSUME NEW k \in S, NEW n \in f + 1 .. k, Owed(n) # {} PROVE n \in S
      <4>1. n \in Offered(f)
        <5>1. k \in Offered(f)
          OBVIOUS
        <5> HIDE DEF f
        <5> QED
          BY <1>1, <1>2, <3>6, <5>1, OfferedIsPrefix
      <4>2. n <= k
        BY <1>1, <1>2, <3>4
      <4> QED
        BY <4>1, <4>2
    <3> QED
      BY <3>1, <3>3, <3>5, <3>6, SameOwed DEF Held
  <2> QED
    BY <2>1, <2>2
<1>10. MarksAreDurable'
  BY DEF IInv, MarksAreDurable
<1> QED
  BY <1>6, <1>7, <1>8, <1>9, <1>10 DEF IInv

-----------------------------------------------------------------------------
(* A step that moves one process, and leaves the others their knowledge.   *)
LEMMA StepHeld ==
    ASSUME IInv, TypeOK', NEW p \in Processes, Steady, Held(p)',
           begun' = begun, top' = top, MarksAreDurable',
           \A q \in Processes \ {p} : /\ at'[q] = at[q] /\ from'[q] = from[q]
                                      /\ hand'[q] = hand[q] /\ accepted'[q] = accepted[q],
           watermark' = watermark \/ Passed(watermark)'
    PROVE  IInv'
<1>1. TypeOK /\ \A q \in Processes : Held(q)
  BY DEF IInv
<1>2. Passed(watermark)'
  <2>1. CASE watermark' = watermark
    <3>1. watermark \in Nat /\ Passed(watermark)
      BY PullerAssumption, <1>1 DEF TypeOK, IInv
    <3>2. watermark <= feed.length
      BY PullerAssumption, <1>1 DEF TypeOK
    <3>3. \A k \in begun' + 1 .. watermark : Owed(k) \subseteq durable'[k]
      BY <1>1, <3>1, <3>2, PassedStays
    <3> QED
      BY <2>1, <3>3, SameOwed DEF Passed, Steady
  <2> QED
    BY <2>1
<1>3. ASSUME NEW q \in Processes, q # p PROVE Held(q)'
  BY <1>1, <1>3, HeldStays
<1> QED
  BY <1>2, <1>3 DEF IInv

(* With its first batch durable, a process knows the log up to it.         *)
LEMMA PassedBatch ==
    ASSUME IInv, NEW p \in Processes, hand[p] # {},
           Owed(Batch(p)) \subseteq durable[Batch(p)]
    PROVE  Passed(Batch(p))
<1> DEFINE b == Batch(p)
<1>1. /\ b \in hand[p] /\ b \in Nat /\ \A k \in hand[p] : b <= k
      /\ from[p] \in Nat /\ begun \in Nat /\ hand[p] \subseteq Nat
  BY PullerAssumption, BatchIsLeast DEF IInv, TypeOK
<1>2. /\ Passed(from[p])
      /\ \A n \in from[p] + 1 .. b : Owed(n) # {} => n \in hand[p]
  BY <1>1 DEF IInv, Held
<1>3. Owed(b) \subseteq durable[b]
  OBVIOUS
<1> HIDE DEF b
<1>4. ASSUME NEW k \in begun + 1 .. b, Owed(k) # {} PROVE Owed(k) \subseteq durable[k]
  <2>1. CASE k <= from[p]
    BY <1>1, <1>2, <1>4, <2>1 DEF Passed
  <2>2. CASE ~(k <= from[p])
    <3>1. k \in from[p] + 1 .. b
      BY <1>1, <2>2
    <3>2. k = b
      BY <1>1, <1>2, <1>4, <3>1
    <3> QED
      BY <1>3, <1>4, <3>2
  <2> QED
    BY <2>1, <2>2
<1>5. Passed(b)
  BY <1>4 DEF Passed
<1> QED
  BY <1>5 DEF b

LEMMA InitInvariant == Init => IInv
<1> SUFFICES ASSUME Init PROVE IInv
  OBVIOUS
<1>1. TypeOK
  BY PullerAssumption DEF Init, TypeOK, Places
<1>2. \A p \in Processes : Held(p)
  BY DEF Init, Held, Passed
<1> QED
  BY <1>1, <1>2 DEF Init, IInv, Passed, MarksAreDurable

LEMMA StepInvariant == ASSUME IInv, Next PROVE IInv'
<1>1. TypeOK /\ top \in Nat /\ begun \in Nat /\ MarksAreDurable
  BY PullerAssumption DEF TypeOK, IInv
<1>2. TypeOK'
  BY <1>1, TypeStep
<1>3. ASSUME NEW p \in Processes, ListFeed(p) PROVE IInv'
  <2>1. /\ at' = [at EXCEPT ![p] = "listed"] /\ from' = [from EXCEPT ![p] = watermark]
        /\ UNCHANGED <<feed, top, watermark, begun, durable, marked, hand, accepted>>
        /\ at[p] = "idle"
    BY <1>3 DEF ListFeed, Go
  <2>2. Held(p)'
    <3>1. /\ hand'[p] = {} /\ from'[p] = watermark /\ at'[p] = "listed"
      BY <1>1, <2>1 DEF Held, IInv, TypeOK
    <3>2. Passed(from[p])'
      BY <2>1, <3>1, SameOwed DEF IInv, Passed
    <3> QED
      BY <3>1, <3>2 DEF Held
  <2>3. Steady
    BY <1>1, <2>1 DEF Steady, Grows
  <2>4. \A q \in Processes \ {p} : /\ at'[q] = at[q] /\ from'[q] = from[q]
                                   /\ hand'[q] = hand[q] /\ accepted'[q] = accepted[q]
    BY <1>1, <2>1 DEF TypeOK
  <2>5. MarksAreDurable' /\ begun' = begun /\ top' = top /\ watermark' = watermark
    BY <1>1, <2>1 DEF MarksAreDurable
  <2> QED
    BY <1>2, <2>2, <2>3, <2>4, <2>5, StepHeld
<1>4. ASSUME NEW p \in Processes, Fetch(p) PROVE IInv'
  <2> DEFINE f == Start(from[p])
             S == Capped(Offered(f))
  <2>1. Take(p, f, S) /\ UNCHANGED <<feed, top, watermark, durable, marked>>
    BY <1>4 DEF Fetch
  <2>2. f \in 0..top /\ Offered(f) \in SUBSET (0..top)
    <3>1. from[p] \in 0..top
      BY <1>1 DEF TypeOK
    <3>2. f \in 0..top
      BY <1>1, <3>1, StartType
    <3> HIDE DEF f
    <3>3. \A X : X \subseteq Offered(f) => X \subseteq 1..top
      BY <1>1, <3>2, OfferedType
    <3>4. 1..top \subseteq 0..top
      BY <1>1
    <3> QED
      BY <3>2, <3>3, <3>4
  <2>3. S \subseteq Offered(f) /\ \A m \in S, n \in Offered(f) : n <= m => n \in S
    <3> HIDE DEF f
    <3> QED
      BY <1>1, <2>2, CappedUpTo, CutsArePrefixes
  <2> HIDE DEF S
  <2> QED
    BY <1>2, <2>1, <2>3, TakeHeld
<1>5. ASSUME NEW p \in Processes, FetchFails(p) PROVE IInv'
  <2> DEFINE f == Start(from[p])
  <2>1. PICK l \in 0..top : Take(p, f, Capped(UpTo(Offered(f), l)))
    BY <1>5 DEF FetchFails
  <2> DEFINE C == UpTo(Offered(f), l)
             S == Capped(C)
  <2>2. f \in 0..top /\ Offered(f) \in SUBSET (0..top)
    <3>1. from[p] \in 0..top
      BY <1>1 DEF TypeOK
    <3>2. f \in 0..top
      BY <1>1, <3>1, StartType
    <3> HIDE DEF f
    <3>3. \A X : X \subseteq Offered(f) => X \subseteq 1..top
      BY <1>1, <3>2, OfferedType
    <3>4. 1..top \subseteq 0..top
      BY <1>1
    <3> QED
      BY <3>2, <3>3, <3>4
  <2>3. S \subseteq Offered(f) /\ \A m \in S, n \in Offered(f) : n <= m => n \in S
    <3> HIDE DEF f
    <3>1. C \subseteq Offered(f) /\ S \subseteq C /\ C \in SUBSET (0..top)
      BY <2>2, CappedUpTo
    <3>2. ASSUME NEW m \in S, NEW n \in Offered(f), n <= m PROVE n \in S
      <4>1. m \in C /\ m <= l /\ m \in Nat /\ n \in Nat /\ l \in Nat
        BY <1>1, <2>2, <3>1 DEF UpTo
      <4>2. n <= l
        BY <3>2, <4>1
      <4>3. n \in C
        BY <4>2 DEF UpTo
      <4> HIDE DEF C
      <4> QED
        BY <1>1, <3>1, <3>2, <4>3, CutsArePrefixes
    <3> QED
      BY <3>1, <3>2
  <2>4. Take(p, f, S) /\ UNCHANGED <<feed, top, watermark, durable, marked>>
    BY <1>5, <2>1 DEF FetchFails
  <2> HIDE DEF S
  <2> QED
    BY <1>2, <2>3, <2>4, TakeHeld
<1>6. ASSUME NEW p \in Processes, Return(p), feed' = feed, top' = top, begun' = begun,
             Grows, MarksAreDurable',
             watermark' = watermark \/ Passed(watermark)'
      PROVE  IInv'
  <2>1. Held(p)'
    BY <1>1, <1>2, <1>6, ReturnHeld
  <2>2. Steady
    BY <1>1, <1>6 DEF Steady
  <2>3. \A q \in Processes \ {p} : /\ at'[q] = at[q] /\ from'[q] = from[q]
                                   /\ hand'[q] = hand[q] /\ accepted'[q] = accepted[q]
    BY <1>1, <1>6 DEF TypeOK, Return, Go
  <2> QED
    BY <1>2, <1>6, <2>1, <2>2, <2>3, StepHeld
<1>7. ASSUME NEW p \in Processes, PollFails(p) \/ Crash(p) PROVE IInv'
  <2>1. Return(p) /\ UNCHANGED <<feed, top, watermark, begun, durable, marked>>
    BY <1>7 DEF PollFails, Crash
  <2>2. MarksAreDurable' /\ Grows
    BY <1>1, <2>1 DEF MarksAreDurable, Grows
  <2> QED
    BY <1>6, <2>1, <2>2
<1>8. ASSUME NEW p \in Processes, at'[p] \in {"publish", "mark", "advance"},
             UNCHANGED <<feed, top, watermark, begun, from, hand>>,
             at' = [at EXCEPT ![p] = at'[p]], \A q \in Processes \ {p} : accepted'[q] = accepted[q],
             Grows, MarksAreDurable',
             at'[p] = "publish" => Owed(Batch(p)) \subseteq durable'[Batch(p)] \cup accepted'[p],
             at'[p] = "mark" => accepted'[p] \subseteq durable'[Batch(p)],
             at'[p] \in {"mark", "advance"} => Owed(Batch(p)) \subseteq durable'[Batch(p)]
      PROVE  IInv'
  <2>1. Steady
    BY <1>1, <1>8 DEF Steady
  <2>2. Batch(p)' = Batch(p)
    BY <1>8 DEF Batch
  <2>3. Passed(from[p])'
    <3>1. from[p] \in Nat /\ Passed(from[p]) /\ from[p] <= feed.length
      BY <1>1, PullerAssumption DEF IInv, Held, TypeOK
    <3>2. \A k \in begun' + 1 .. from[p] : Owed(k) \subseteq durable'[k]
      BY <1>1, <1>2, <2>1, <3>1, PassedStays
    <3> QED
      BY <1>8, <3>2, SameOwed DEF Passed
  <2>4. /\ \A k \in hand'[p] : from'[p] < k
        /\ \A k \in hand'[p] : \A n \in from'[p] + 1 .. k : Owed(n) # {} => n \in hand'[p]
    BY <1>1, <1>8 DEF IInv, Held
  <2>5. Held(p)'
    <3> HIDE DEF Batch
    <3> QED
      BY <1>8, <2>2, <2>3, <2>4, SameOwed DEF Held
  <2>6. \A q \in Processes \ {p} : /\ at'[q] = at[q] /\ from'[q] = from[q]
                                   /\ hand'[q] = hand[q] /\ accepted'[q] = accepted[q]
    BY <1>1, <1>8 DEF TypeOK
  <2> QED
    BY <1>2, <1>8, <2>1, <2>5, <2>6, StepHeld
<1>17. ASSUME NEW p \in Processes, hand[p] # {}
       PROVE  /\ Batch(p) \in 1..feed.length
              /\ Owed(Batch(p)) \subseteq Candidates(Batch(p))
              /\ durable[Batch(p)] \subseteq Nat
  <2>1. Batch(p) \in 1..feed.length
    BY <1>1, <1>17, BatchIsLeast, PullerAssumption DEF TypeOK
  <2>2. durable[Batch(p)] \subseteq Nat
    BY <1>1, <2>1 DEF TypeOK
  <2> HIDE DEF Batch
  <2> QED
    BY <1>1, <2>1, <2>2, OwedAreCandidates
<1>9. ASSUME NEW p \in Processes, SkipGarbage(p) PROVE IInv'
  <2>1. /\ at' = [at EXCEPT ![p] = "advance"] /\ IsGarbage(Batch(p))
        /\ UNCHANGED <<feed, top, watermark, begun, durable, marked, from, hand, accepted>>
    BY <1>9 DEF SkipGarbage, Go
  <2>2. at'[p] = "advance"
    BY <1>1, <2>1 DEF TypeOK
  <2>3. Owed(Batch(p)) = {}
    <3>1. Records(Batch(p)) = <<>>
      BY <1>1, <2>1, PullerAssumption DEF IsGarbage, Records, TypeOK
    <3> QED
      BY <3>1 DEF Owed, Fit
  <2>4. Grows /\ MarksAreDurable'
    BY <1>1, <2>1 DEF Grows, MarksAreDurable
  <2> HIDE DEF Batch
  <2> QED
    BY <1>1, <1>8, <2>1, <2>2, <2>3, <2>4
<1>10. ASSUME NEW p \in Processes, Filter(p) PROVE IInv'
  <2>1. /\ at' = [at EXCEPT ![p] = "publish"] /\ at[p] = "batch"
        /\ UNCHANGED <<feed, top, watermark, begun, durable, marked, from, hand>>
    BY <1>10 DEF Filter, Go
  <2>2. at'[p] = "publish" /\ hand[p] # {}
    BY <1>1, <2>1 DEF TypeOK
  <2> DEFINE n == Batch(p)
  <2>3. \/ accepted' = [accepted EXCEPT ![p] = Candidates(n) \ marked[n]]
        \/ accepted' = [accepted EXCEPT ![p] = Candidates(n)]
    BY <1>10 DEF Filter
  <2>4. n \in 1..feed.length /\ Owed(n) \subseteq Candidates(n)
    BY <1>17, <2>2
  <2>5. Grows /\ MarksAreDurable'
    BY <1>1, <2>1 DEF Grows, MarksAreDurable
  <2>6. Owed(n) \subseteq durable'[n] \cup accepted'[p]
    <3> HIDE DEF n
    <3>1. marked[n] \subseteq durable[n] /\ durable' = durable
      BY <1>1, <2>1, <2>4 DEF MarksAreDurable
    <3>2. accepted'[p] = Candidates(n) \ marked[n] \/ accepted'[p] = Candidates(n)
      BY <1>1, <2>3 DEF TypeOK
    <3> QED
      BY <2>4, <3>1, <3>2
  <2>7. \A q \in Processes \ {p} : accepted'[q] = accepted[q]
    <3> HIDE DEF n
    <3> QED
      BY <1>1, <2>3 DEF TypeOK
  <2>8. at' = [at EXCEPT ![p] = at'[p]]
    BY <2>1, <2>2
  <2> QED
    BY <1>8, <2>1, <2>2, <2>5, <2>6, <2>7, <2>8
<1>11. ASSUME NEW p \in Processes, Publish(p) PROVE IInv'
  <2> DEFINE n == Batch(p)
  <2>1. /\ at[p] = "publish" /\ UNCHANGED <<feed, top, watermark, begun, marked, from, hand, accepted>>
        /\ durable' = [durable EXCEPT ![n] = durable[n] \cup accepted[p]]
    BY <1>11 DEF Publish
  <2>2. hand[p] # {}
    BY <1>1, <2>1 DEF TypeOK
  <2>3. n \in 1..feed.length
    BY <1>17, <2>2
  <2>4. Owed(n) \subseteq durable[n] \cup accepted[p]
    BY <2>1 DEF IInv, Held
  <2>5. at'[p] \in {"mark", "advance"} /\ at' = [at EXCEPT ![p] = at'[p]]
    <3>1. \E w \in {"mark", "advance"} : at' = [at EXCEPT ![p] = w]
      BY <1>11 DEF Publish, Go
    <3> QED
      BY <1>1, <3>1 DEF TypeOK
  <2>6. /\ durable'[n] = durable[n] \cup accepted[p]
        /\ Grows /\ MarksAreDurable'
    <3> HIDE DEF n
    <3> QED
      BY <1>1, <2>1, <2>3 DEF TypeOK, Grows, MarksAreDurable
  <2>7. Owed(n) \subseteq durable'[n] /\ accepted'[p] \subseteq durable'[n]
    BY <2>1, <2>4, <2>6
  <2>8. \A q \in Processes \ {p} : accepted'[q] = accepted[q]
    BY <2>1
  <2> QED
    BY <1>8, <2>1, <2>5, <2>6, <2>7, <2>8
<1>12. ASSUME NEW p \in Processes, PublishFails(p) PROVE IInv'
  <2>1. /\ Return(p) /\ UNCHANGED <<feed, top, watermark, begun, marked>>
        /\ \E part \in SUBSET accepted[p] : durable' = [durable EXCEPT ![Batch(p)] = durable[Batch(p)] \cup part]
    BY <1>12 DEF PublishFails
  <2>2. Grows /\ MarksAreDurable'
    <3> HIDE DEF Batch
    <3> QED
      BY <1>1, <2>1 DEF TypeOK, Grows, MarksAreDurable
  <2> QED
    BY <1>6, <2>1, <2>2
<1>13. ASSUME NEW p \in Processes, Mark(p) PROVE IInv'
  <2> DEFINE n == Batch(p)
  <2>1. /\ at' = [at EXCEPT ![p] = "advance"] /\ at[p] = "mark"
        /\ UNCHANGED <<feed, top, watermark, begun, durable, from, hand, accepted>>
    BY <1>13 DEF Mark, Go
  <2>2. at'[p] = "advance"
    BY <1>1, <2>1 DEF TypeOK
  <2>3. Owed(n) \subseteq durable[n] /\ accepted[p] \subseteq durable[n]
    BY <2>1 DEF IInv, Held
  <2>4. PICK part \in SUBSET accepted[p] : marked' = [marked EXCEPT ![n] = marked[n] \cup part]
    BY <1>13 DEF Mark
  <2>5. Grows /\ MarksAreDurable'
    <3> HIDE DEF n
    <3> QED
      BY <1>1, <2>1, <2>3, <2>4 DEF TypeOK, Grows, MarksAreDurable
  <2>6. at' = [at EXCEPT ![p] = at'[p]] /\ \A q \in Processes \ {p} : accepted'[q] = accepted[q]
    BY <2>1, <2>2
  <2> QED
    BY <1>8, <2>1, <2>2, <2>3, <2>5, <2>6
<1>14. ASSUME NEW p \in Processes, Advance(p) PROVE IInv'
  <2>1. /\ at[p] = "advance" /\ hand[p] # {}
        /\ UNCHANGED <<feed, top, begun, durable, marked>>
        /\ watermark' = watermark \/ watermark' = Batch(p)
        /\ NextBatch(p)
    BY <1>1, <1>14 DEF Advance, TypeOK
  <2>2. Passed(Batch(p))
    BY <2>1, PassedBatch DEF IInv, Held
  <2>3. Batch(p) \in hand[p] /\ Batch(p) \in Nat /\ \A k \in hand[p] : Batch(p) <= k
    BY <1>1, <2>1, BatchIsLeast
  <2>4. watermark' = watermark \/ Passed(watermark)'
    BY <2>1, <2>2, SameOwed DEF Passed
  <2>5. CASE hand[p] = {Batch(p)}
    <3>1. Return(p)
      BY <2>1, <2>5 DEF NextBatch
    <3>2. Grows /\ MarksAreDurable'
      BY <1>1, <2>1 DEF Grows, MarksAreDurable
    <3> QED
      BY <1>1, <1>6, <2>1, <2>4, <3>1, <3>2
  <2>6. CASE hand[p] # {Batch(p)}
    <3> DEFINE b == Batch(p)
    <3>1. /\ hand' = [hand EXCEPT ![p] = hand[p] \ {b}]
          /\ from' = [from EXCEPT ![p] = b]
          /\ accepted' = [accepted EXCEPT ![p] = {}]
          /\ at' = [at EXCEPT ![p] = "batch"]
      BY <2>1, <2>6 DEF NextBatch, Go
    <3> HIDE DEF b
    <3>2. hand'[p] = hand[p] \ {b} /\ from'[p] = b /\ at'[p] = "batch"
      BY <1>1, <3>1 DEF TypeOK
    <3>3. Passed(from[p])'
      BY <2>1, <2>2, <3>2, SameOwed DEF Passed, b
    <3>4. hand[p] \subseteq Nat /\ from[p] \in Nat /\ from[p] < b /\ b \in Nat
      BY <1>1, <2>3, PullerAssumption DEF TypeOK, IInv, Held, b
    <3>5. ASSUME NEW k \in hand[p] \ {b} PROVE b < k
      BY <2>3, <3>4 DEF b
    <3>6. ASSUME NEW k \in hand[p] \ {b}, NEW n \in b + 1 .. k, Owed(n) # {}
          PROVE  n \in hand[p] \ {b}
      <4>1. n \in from[p] + 1 .. k /\ n # b
        BY <3>4
      <4> QED
        BY <3>6, <4>1 DEF IInv, Held
    <3>7. Held(p)'
      BY <2>1, <3>2, <3>3, <3>5, <3>6, SameOwed DEF Held
    <3>8. Steady
      BY <1>1, <2>1 DEF Steady, Grows
    <3>9. \A q \in Processes \ {p} : /\ at'[q] = at[q] /\ from'[q] = from[q]
                                     /\ hand'[q] = hand[q] /\ accepted'[q] = accepted[q]
      BY <1>1, <3>1 DEF TypeOK
    <3>10. MarksAreDurable'
      BY <1>1, <2>1 DEF MarksAreDurable
    <3> QED
      BY <1>2, <2>1, <2>4, <3>7, <3>8, <3>9, <3>10, StepHeld
  <2> QED
    BY <2>5, <2>6
<1>15. ASSUME NEW p \in Processes, AdvanceFails(p) PROVE IInv'
  <2>1. /\ at[p] = "advance" /\ hand[p] # {} /\ Return(p)
        /\ UNCHANGED <<feed, top, begun, durable, marked>>
        /\ watermark' = watermark \/ watermark' = Batch(p)
    BY <1>1, <1>15 DEF AdvanceFails, TypeOK
  <2>2. Passed(Batch(p))
    BY <2>1, PassedBatch DEF IInv, Held
  <2>3. watermark' = watermark \/ Passed(watermark)'
    BY <2>1, <2>2, SameOwed DEF Passed
  <2>4. Grows /\ MarksAreDurable'
    BY <1>1, <2>1 DEF Grows, MarksAreDurable
  <2> QED
    BY <1>1, <1>6, <2>1, <2>3, <2>4
<1>16. ASSUME Log PROVE IInv'
  <2>1. /\ top' = top + 1 /\ UNCHANGED <<feed, watermark, begun, durable, marked, at, from, hand, accepted>>
    BY <1>16 DEF Log, local
  <2>2. begun > 0 => begun + Lookback <= top'
    BY <1>1, <2>1, PullerAssumption DEF IInv
  <2>3. \A q \in Processes : Held(q)'
    BY <2>1, SameOwed DEF IInv, Held, Passed, Batch
  <2>4. Passed(watermark)' /\ MarksAreDurable'
    BY <1>1, <2>1, SameOwed DEF IInv, Passed, MarksAreDurable
  <2> QED
    BY <1>1, <1>2, <2>1, <2>2, <2>3, <2>4 DEF IInv
<1> QED
  BY <1>3, <1>4, <1>5, <1>7, <1>9, <1>10, <1>11, <1>12, <1>13, <1>14, <1>15, <1>16 DEF Next, Poll

(* Every fit record the watermark has passed is in the stream, but for     *)
(* those the index of a rejection is mistaken for.                         *)
THEOREM WatermarkIsSafe == Spec => []PassedIsDurable
<1>1. IInv /\ [Next]_vars => IInv'
  <2>1. ASSUME IInv, UNCHANGED vars PROVE IInv'
    <3>1. feed' = feed
      BY <2>1 DEF vars
    <3> QED
      BY <2>1, <3>1, SameOwed DEF IInv, TypeOK, Held, Passed, MarksAreDurable, Batch, vars, local
  <2> QED
    BY <2>1, StepInvariant
<1>2. IInv => PassedIsDurable
  BY DEF IInv, PassedIsDurable
<1> QED
  BY InitInvariant, <1>1, <1>2, PTL DEF Spec

-----------------------------------------------------------------------------
(* Alerting.                                                               *)

(* Nobody is no one, and no operator is a processor.                       *)
PeopleAssumption ==
    /\ "nobody" \notin Processes \cup Triagers /\ Processes \cap Triagers = {}
    /\ AlertsFired \in Nat

People == Processes \cup Triagers
Slots == 1..AlertsFired

(* Deliver!Rows, with room for any number of attempts.                     *)
AlertRows == [group : AlertGroups, firedAt : Nat, status : {"pending", "delivered", "failed"},
              attempts : Nat, state : {"new", "acknowledged", "resolved"}, acknowledged : BOOLEAN]

Marks == [id : Nat, status : {"pending", "delivered", "failed", "new", "acknowledged", "resolved"},
          attempts : Nat]

TypeInv ==
    /\ now \in Nat
    /\ lock \in [Slots -> People \cup {"nobody"}]
    /\ alerts \in Seq(AlertRows) /\ Len(alerts) <= AlertsFired
    /\ aat \in [People -> {"idle", "evaluating", "claimed", "delivering", "marking", "locked"}]
    /\ since \in [Processes -> Nat]
    /\ fired \in [Processes -> Seq(AlertGroups)]
    /\ listed \in [Processes -> Seq(Nat \X AlertRows)]
    /\ mark \in [People -> Marks]
    /\ DOMAIN row = People

(* What a worker has in hand while it evaluates or delivers.               *)
Working(p) ==
    /\ aat[p] \in {"evaluating", "claimed"} => fired[p] # <<>>
    /\ aat[p] \in {"delivering", "marking", "locked"} => listed[p] # <<>>
    /\ \A i \in 1..Len(listed[p]) : listed[p][i][1] \in 1..Len(alerts)

(* Somebody is about to write an alert, and has read its row under its     *)
(* lock.                                                                   *)
Writing(x) ==
    /\ aat[x] \in {"marking", "locked"} =>
          /\ mark[x].id \in 1..Len(alerts)
          /\ x \in Processes => mark[x].status \in {"pending", "delivered", "failed"}
          /\ x \in Triagers => mark[x].status \in {"acknowledged", "resolved"}
    /\ aat[x] = "locked" => lock[mark[x].id] = x /\ row[x] = alerts[mark[x].id]

AlertInv ==
    /\ TypeInv
    /\ \A p \in Processes : Working(p)
    /\ \A x \in People : Writing(x)

-----------------------------------------------------------------------------
LEMMA AlertInvInit ==
    ASSUME PeopleAssumption, Deliver!Init
    PROVE  AlertInv
<1>1. TypeInv
  BY DEF PeopleAssumption, TypeInv, Deliver!Init, Deliver!Actors, Deliver!NoMark, People, Slots, Marks
<1>2. (\A p \in Processes : Working(p)) /\ (\A x \in People : Writing(x))
  BY DEF Deliver!Init, Deliver!Actors, Working, Writing, People
<1> QED
  BY <1>1, <1>2 DEF AlertInv

-----------------------------------------------------------------------------
(* A worker that evaluates: the groups that fired, one by one.             *)

LEMMA HeadAndTail ==
    ASSUME NEW S, NEW s \in Seq(S), s # <<>>
    PROVE  /\ Head(s) \in S /\ Tail(s) \in Seq(S) /\ Len(Tail(s)) = Len(s) - 1
           /\ Head(s) = s[1] /\ \A i \in 1..Len(Tail(s)) : Tail(s)[i] = s[i + 1]
           /\ Len(s) \in Nat \ {0} /\ (Tail(s) # <<>> <=> Len(s) > 1)
OBVIOUS

(* Nobody writes while a worker evaluates or lists: alerts are only added. *)
LEMMA NobodyWrites ==
    ASSUME AlertInv, NEW p \in Processes, UNCHANGED <<lock, mark, row>>,
           NEW where \in {"idle", "evaluating", "claimed", "delivering"}, aat' = [aat EXCEPT ![p] = where],
           Len(alerts) <= Len(alerts'), \A a \in 1..Len(alerts) : alerts'[a] = alerts[a],
           Len(alerts') \in Nat
    PROVE  \A x \in People : Writing(x)'
<1> SUFFICES ASSUME NEW x \in People PROVE Writing(x)'
  OBVIOUS
<1>1. aat'[x] \in {"marking", "locked"} => x # p /\ aat'[x] = aat[x]
  BY DEF AlertInv, TypeInv, People
<1>2. Len(alerts) \in Nat
  BY DEF AlertInv, TypeInv
<1> QED
  BY <1>1, <1>2 DEF AlertInv, Writing

(* The other workers keep what they have in hand.                          *)
LEMMA OthersWork ==
    ASSUME AlertInv, NEW p, \A q \in Processes \ {p} : aat'[q] = aat[q] /\ fired'[q] = fired[q] /\ listed'[q] = listed[q],
           Len(alerts) <= Len(alerts'), Len(alerts') \in Nat, p \in Processes => Working(p)'
    PROVE  \A q \in Processes : Working(q)'
<1> SUFFICES ASSUME NEW q \in Processes, q # p PROVE Working(q)'
  OBVIOUS
<1>1. Len(alerts) \in Nat /\ Working(q)
  BY DEF AlertInv, TypeInv
<1>2. \A n : n \in 1..Len(alerts) => n \in 1..Len(alerts')
  BY <1>1
<1> QED
  BY <1>1, <1>2 DEF Working

LEMMA NextGroupKeeps ==
    ASSUME AlertInv, NEW p \in Processes, aat[p] \in {"evaluating", "claimed"}, Deliver!NextGroup(p),
           UNCHANGED <<now, lock, listed, mark, row>>,
           alerts' \in Seq(AlertRows), Len(alerts) <= Len(alerts'), Len(alerts') <= AlertsFired,
           \A a \in 1..Len(alerts) : alerts'[a] = alerts[a]
    PROVE  AlertInv'
<1>1. /\ fired[p] # <<>> /\ fired \in [Processes -> Seq(AlertGroups)] /\ fired[p] \in Seq(AlertGroups)
      /\ since \in [Processes -> Nat] /\ p \in People /\ DOMAIN aat = People
  BY DEF AlertInv, TypeInv, Working, People
<1>2. /\ Tail(fired[p]) \in Seq(AlertGroups) /\ (Tail(fired[p]) # <<>> <=> Len(fired[p]) > 1)
  BY <1>1, HeadAndTail
<1>3. /\ fired' = [fired EXCEPT ![p] = Tail(fired[p])]
      /\ aat' = [aat EXCEPT ![p] = IF Len(fired[p]) > 1 THEN "evaluating" ELSE "idle"]
      /\ since' = [since EXCEPT ![p] = IF Len(fired[p]) > 1 THEN since[p] ELSE 0]
  BY DEF Deliver!NextGroup, Deliver!Go
<1>4. fired' \in [Processes -> Seq(AlertGroups)] /\ since' \in [Processes -> Nat]
  BY <1>1, <1>2, <1>3
<1>5. TypeInv'
  BY <1>3, <1>4 DEF AlertInv, TypeInv
<1>6. Len(alerts') \in Nat /\ Len(alerts) \in Nat
  BY DEF AlertInv, TypeInv
<1>7. Working(p)'
  <2>1. aat'[p] \in {"evaluating", "claimed"} => fired'[p] # <<>>
    BY <1>1, <1>2, <1>3
  <2>2. aat'[p] \notin {"delivering", "marking", "locked"}
    BY <1>1, <1>3
  <2>3. \A i \in 1..Len(listed[p]) : listed[p][i][1] \in 1..Len(alerts')
    BY <1>6 DEF AlertInv, Working
  <2> QED
    BY <2>1, <2>2, <2>3 DEF Working
<1>8. \A q \in Processes : Working(q)'
  <2>1. \A q \in Processes \ {p} : aat'[q] = aat[q] /\ fired'[q] = fired[q] /\ listed'[q] = listed[q]
    BY <1>1, <1>3 DEF People
  <2> QED
    BY <2>1, <1>6, <1>7, OthersWork
<1>9. \A x \in People : Writing(x)'
  <2>1. PICK where \in {"idle", "evaluating"} : aat' = [aat EXCEPT ![p] = where]
    BY <1>3
  <2> QED
    BY <2>1, <1>6, NobodyWrites
<1> QED
  BY <1>5, <1>8, <1>9 DEF AlertInv

LEMMA FreshIsARow ==
    ASSUME AlertInv, NEW p \in Processes, aat[p] = "claimed"
    PROVE  Deliver!Fresh(p) \in AlertRows
<1>1. fired[p] \in Seq(AlertGroups) /\ fired[p] # <<>> /\ since[p] \in Nat
  BY DEF AlertInv, TypeInv, Working, People
<1>2. Head(fired[p]) \in AlertGroups
  BY <1>1, HeadAndTail
<1> QED
  BY <1>1, <1>2 DEF Deliver!Fresh, AlertRows

LEMMA AppendKeeps ==
    ASSUME NEW S, NEW s \in Seq(S), NEW e \in S
    PROVE  /\ Append(s, e) \in Seq(S) /\ Len(Append(s, e)) = Len(s) + 1
           /\ \A i \in 1..Len(s) : Append(s, e)[i] = s[i]
OBVIOUS

LEMMA EvaluationKeeps ==
    ASSUME PeopleAssumption, AlertInv, NEW p \in Processes, Deliver!Evaluation(p)
    PROVE  AlertInv'
<1>0. /\ alerts \in Seq(AlertRows) /\ Len(alerts) <= AlertsFired /\ Len(alerts) \in Nat /\ AlertsFired \in Nat
      /\ \A a \in 1..Len(alerts) : alerts[a] = alerts[a]
  BY DEF AlertInv, TypeInv, PeopleAssumption
<1>1. CASE Deliver!Evaluate(p)
  <2>1. PICK n \in 1..AlertsFired : \E some \in [1..n -> AlertGroups] : fired' = [fired EXCEPT ![p] = some]
    BY <1>1 DEF Deliver!Evaluate
  <2>2. PICK some \in [1..n -> AlertGroups] : fired' = [fired EXCEPT ![p] = some]
    BY <2>1
  <2>3. n \in Nat \ {0} /\ some \in Seq(AlertGroups) /\ some # <<>>
    BY <1>0
  <2>4. /\ aat' = [aat EXCEPT ![p] = "evaluating"] /\ since' = [since EXCEPT ![p] = now]
        /\ UNCHANGED <<now, quiet, lock, rule, alerts, posted, listed, mark, row>>
    BY <1>1 DEF Deliver!Evaluate, Deliver!Go
  <2>5. TypeInv'
    BY <2>2, <2>3, <2>4 DEF AlertInv, TypeInv
  <2>6. Working(p)'
    BY <2>2, <2>3, <2>4 DEF AlertInv, TypeInv, Working, People
  <2>7. \A q \in Processes \ {p} : aat'[q] = aat[q] /\ fired'[q] = fired[q] /\ listed'[q] = listed[q]
    BY <2>2, <2>4 DEF AlertInv, TypeInv, People
  <2>8. \A q \in Processes : Working(q)'
    BY <1>0, <2>4, <2>6, <2>7, OthersWork
  <2>9. \A x \in People : Writing(x)'
    <3>1. UNCHANGED <<lock, mark, row>> /\ aat' = [aat EXCEPT ![p] = "evaluating"]
      BY <2>4
    <3>2. Len(alerts) <= Len(alerts') /\ Len(alerts') \in Nat /\ \A a \in 1..Len(alerts) : alerts'[a] = alerts[a]
      BY <1>0, <2>4
    <3> QED
      BY <3>1, <3>2, NobodyWrites
  <2> QED
    BY <2>5, <2>8, <2>9 DEF AlertInv
<1>2. CASE Deliver!Claim(p)
  <2>1. CASE Deliver!NextGroup(p)
    BY <1>0, <1>2, <2>1, NextGroupKeeps DEF Deliver!Claim
  <2>2. CASE Deliver!Go(p, "claimed") /\ UNCHANGED <<since, fired>>
    <3>1. /\ aat' = [aat EXCEPT ![p] = "claimed"] /\ aat[p] = "evaluating"
          /\ UNCHANGED <<now, since, fired, lock, alerts, listed, mark, row>>
      BY <1>2, <2>2 DEF Deliver!Claim, Deliver!Go
    <3>2. TypeInv'
      BY <3>1 DEF AlertInv, TypeInv
    <3>3. \A q \in Processes : Working(q)'
      BY <3>1 DEF AlertInv, TypeInv, Working, People
    <3>4. \A x \in People : Writing(x)'
      <4>1. UNCHANGED <<lock, mark, row>> /\ aat' = [aat EXCEPT ![p] = "claimed"]
        BY <3>1
      <4>2. Len(alerts) <= Len(alerts') /\ Len(alerts') \in Nat /\ \A a \in 1..Len(alerts) : alerts'[a] = alerts[a]
        BY <1>0, <3>1
      <4> QED
        BY <4>1, <4>2, NobodyWrites
    <3> QED
      BY <3>2, <3>3, <3>4 DEF AlertInv
  <2> QED
    BY <1>2, <2>1, <2>2 DEF Deliver!Claim
<1>3. CASE Deliver!ClaimFails(p)
  BY <1>0, <1>3, NextGroupKeeps DEF Deliver!ClaimFails
<1>4. CASE Deliver!StoreAlert(p) \/ Deliver!StoreAlertFails(p)
  <2>1. /\ aat[p] = "claimed" /\ Deliver!NextGroup(p) /\ UNCHANGED <<now, lock, listed, mark, row>>
        /\ alerts' = alerts \/ (~Deliver!Full /\ alerts' = Append(alerts, Deliver!Fresh(p)))
    BY <1>4 DEF Deliver!StoreAlert, Deliver!StoreAlertFails
  <2>2. /\ alerts' \in Seq(AlertRows) /\ Len(alerts) <= Len(alerts') /\ Len(alerts') <= AlertsFired
        /\ \A a \in 1..Len(alerts) : alerts'[a] = alerts[a]
    BY <1>0, <2>1, FreshIsARow, AppendKeeps DEF Deliver!Full
  <2> QED
    BY <2>1, <2>2, NextGroupKeeps
<1> QED
  BY <1>1, <1>2, <1>3, <1>4 DEF Deliver!Evaluation

-----------------------------------------------------------------------------
(* A worker that delivers: the alerts it listed, one by one.               *)

(* What stays to be delivered when the alert in hand is done with.         *)
LEMMA TailIsListed ==
    ASSUME AlertInv, NEW p \in Processes, aat[p] \in {"delivering", "marking", "locked"}
    PROVE  /\ Tail(listed[p]) \in Seq(Nat \X AlertRows)
           /\ \A i \in 1..Len(Tail(listed[p])) : Tail(listed[p])[i][1] \in 1..Len(alerts)
           /\ Len(listed[p]) > 1 => Tail(listed[p]) # <<>>
<1>1. listed[p] \in Seq(Nat \X AlertRows) /\ listed[p] # <<>>
  BY DEF AlertInv, TypeInv, Working
<1>2. /\ Tail(listed[p]) \in Seq(Nat \X AlertRows) /\ Len(Tail(listed[p])) = Len(listed[p]) - 1
      /\ \A i \in 1..Len(Tail(listed[p])) : Tail(listed[p])[i] = listed[p][i + 1]
      /\ Len(listed[p]) \in Nat \ {0} /\ (Tail(listed[p]) # <<>> <=> Len(listed[p]) > 1)
  BY <1>1, HeadAndTail
<1>3. ASSUME NEW i \in 1..Len(Tail(listed[p])) PROVE Tail(listed[p])[i][1] \in 1..Len(alerts)
  <2>1. i + 1 \in 1..Len(listed[p])
    BY <1>2
  <2> QED
    BY <1>2, <2>1 DEF AlertInv, Working
<1> QED
  BY <1>2, <1>3

LEMMA HandIsListed ==
    ASSUME AlertInv, NEW p \in Processes, aat[p] = "delivering"
    PROVE  /\ Deliver!AlertInHand(p) \in 1..Len(alerts)
           /\ Deliver!RowInHand(p) \in AlertRows
<1>1. listed[p] \in Seq(Nat \X AlertRows) /\ listed[p] # <<>>
  BY DEF AlertInv, TypeInv, Working
<1>2. Head(listed[p]) \in Nat \X AlertRows /\ Head(listed[p]) = listed[p][1] /\ 1 \in 1..Len(listed[p])
  BY <1>1, HeadAndTail
<1> QED
  BY <1>2 DEF AlertInv, Working, Deliver!AlertInHand, Deliver!RowInHand

(* The alert in hand is about to be marked.                                *)
LEMMA MarkKeeps ==
    ASSUME PeopleAssumption, AlertInv, NEW p \in Processes, aat[p] = "delivering",
           NEW status \in {"pending", "delivered", "failed"}, NEW n \in Nat,
           Deliver!Mark(p, Deliver!AlertInHand(p), status, n)
    PROVE  AlertInv'
<1> DEFINE a == Deliver!AlertInHand(p)
<1>1. a \in 1..Len(alerts) /\ Len(alerts) \in Nat /\ p \in People /\ a \in Nat
  BY HandIsListed DEF AlertInv, TypeInv, People
<1>2. /\ mark' = [mark EXCEPT ![p] = [id |-> a, status |-> status, attempts |-> n]]
      /\ aat' = [aat EXCEPT ![p] = "marking"]
      /\ UNCHANGED <<now, lock, alerts, since, fired, listed, row>>
  BY DEF Deliver!Mark, Deliver!Go
<1> HIDE DEF a
<1>3. [id |-> a, status |-> status, attempts |-> n] \in Marks
  BY <1>1 DEF Marks
<1>4. TypeInv'
  BY <1>2, <1>3 DEF AlertInv, TypeInv
<1>5. \A q \in Processes : Working(q)'
  BY <1>1, <1>2 DEF AlertInv, TypeInv, Working, People
<1>6. ASSUME NEW x \in People PROVE Writing(x)'
  <2>1. CASE x = p
    <3>1. aat'[p] = "marking" /\ mark'[p].id = a /\ mark'[p].status = status
      BY <1>1, <1>2 DEF AlertInv, TypeInv
    <3>2. p \notin Triagers
      BY DEF PeopleAssumption
    <3> QED
      BY <1>1, <1>2, <2>1, <3>1, <3>2 DEF Writing
  <2>2. CASE x # p
    BY <1>1, <1>2, <2>2 DEF AlertInv, TypeInv, Writing
  <2> QED
    BY <2>1, <2>2
<1> QED
  BY <1>4, <1>5, <1>6 DEF AlertInv

LEMMA ListPendingKeeps ==
    ASSUME AlertInv, NEW p \in Processes, Deliver!ListPending(p)
    PROVE  AlertInv'
<1>1. PICK n \in 1..AlertBatch : \E batch \in [1..n -> Deliver!PendingIds] :
         listed' = [listed EXCEPT ![p] = [i \in 1..n |-> <<batch[i], alerts[batch[i]]>>]]
  BY DEF Deliver!ListPending
<1>2. PICK batch \in [1..n -> Deliver!PendingIds] :
         listed' = [listed EXCEPT ![p] = [i \in 1..n |-> <<batch[i], alerts[batch[i]]>>]]
  BY <1>1
<1> DEFINE those == [i \in 1..n |-> <<batch[i], alerts[batch[i]]>>]
<1>3. /\ aat' = [aat EXCEPT ![p] = "delivering"] /\ p \in People
      /\ UNCHANGED <<now, lock, alerts, since, fired, mark, row>>
  BY DEF Deliver!ListPending, Deliver!Go, People
<1>4. alerts \in Seq(AlertRows) /\ Len(alerts) \in Nat
  BY DEF AlertInv, TypeInv
<1>5. \A a \in Deliver!PendingIds : a \in 1..Len(alerts) /\ a \in Nat /\ alerts[a] \in AlertRows
  BY <1>4 DEF Deliver!PendingIds, Deliver!Ids
<1>6. n \in Nat \ {0}
  OBVIOUS
<1>7. \A i \in 1..n : those[i][1] \in 1..Len(alerts) /\ those[i] \in Nat \X AlertRows
  BY <1>5
<1>8. those \in Seq(Nat \X AlertRows) /\ Len(those) = n /\ those # <<>>
  BY <1>6, <1>7
<1>9. listed' = [listed EXCEPT ![p] = those]
  BY <1>2
<1> HIDE DEF those
<1>10. TypeInv'
  BY <1>3, <1>8, <1>9 DEF AlertInv, TypeInv
<1>11. Working(p)'
  <2>1. listed'[p] = those /\ aat'[p] = "delivering"
    BY <1>3, <1>9 DEF AlertInv, TypeInv
  <2> QED
    BY <1>3, <1>7, <1>8, <2>1 DEF Working
<1>12. \A q \in Processes : Working(q)'
  <2>1. \A q \in Processes \ {p} : aat'[q] = aat[q] /\ fired'[q] = fired[q] /\ listed'[q] = listed[q]
    BY <1>3, <1>9 DEF AlertInv, TypeInv, People
  <2> QED
    BY <1>3, <1>4, <1>11, <2>1, OthersWork
<1>13. \A x \in People : Writing(x)'
  <2>1. UNCHANGED <<lock, mark, row>> /\ aat' = [aat EXCEPT ![p] = "delivering"]
    BY <1>3
  <2>2. Len(alerts) <= Len(alerts') /\ Len(alerts') \in Nat /\ \A a \in 1..Len(alerts) : alerts'[a] = alerts[a]
    BY <1>3, <1>4
  <2> QED
    BY <2>1, <2>2, NobodyWrites
<1> QED
  BY <1>10, <1>12, <1>13 DEF AlertInv

(* What is next for a worker that is done with the alert in hand.          *)
LEMMA NextAlertWorks ==
    ASSUME AlertInv, NEW p \in Processes, aat[p] \in {"delivering", "marking", "locked"},
           Deliver!NextAlert(p), fired' = fired, Len(alerts') = Len(alerts)
    PROVE  /\ listed' \in [Processes -> Seq(Nat \X AlertRows)]
           /\ \E where \in {"delivering", "idle"} : aat' = [aat EXCEPT ![p] = where]
           /\ \A q \in Processes : Working(q)'
<1>1. /\ listed \in [Processes -> Seq(Nat \X AlertRows)] /\ Len(alerts) \in Nat /\ p \in People
      /\ DOMAIN aat = People
  BY DEF AlertInv, TypeInv, People
<1>2. /\ listed' = [listed EXCEPT ![p] = Tail(listed[p])]
      /\ aat' = [aat EXCEPT ![p] = IF Len(listed[p]) > 1 THEN "delivering" ELSE "idle"]
  BY DEF Deliver!NextAlert, Deliver!Go
<1>3. listed' \in [Processes -> Seq(Nat \X AlertRows)] /\ listed'[p] = Tail(listed[p])
  BY <1>1, <1>2, TailIsListed
<1>4. Working(p)'
  BY <1>1, <1>2, <1>3, TailIsListed DEF Working
<1>5. \A q \in Processes \ {p} : aat'[q] = aat[q] /\ fired'[q] = fired[q] /\ listed'[q] = listed[q]
  BY <1>1, <1>2 DEF People
<1>6. \A q \in Processes : Working(q)'
  <2>1. Len(alerts) <= Len(alerts') /\ Len(alerts') \in Nat
    BY <1>1
  <2> QED
    BY <1>4, <1>5, <2>1, OthersWork
<1> QED
  BY <1>2, <1>3, <1>6

LEMMA DeliveryKeeps ==
    ASSUME PeopleAssumption, AlertInv, NEW p \in Processes, Deliver!Delivery(p)
    PROVE  AlertInv'
<1>1. CASE Deliver!ListPending(p)
  BY <1>1, ListPendingKeeps
<1>2. CASE Deliver!Skip(p)
  <2>1. /\ aat[p] = "delivering" /\ Deliver!NextAlert(p)
        /\ UNCHANGED <<now, lock, alerts, since, fired, mark, row>>
    BY <1>2 DEF Deliver!Skip, Deliver!Delivering
  <2>2. PICK where \in {"delivering", "idle"} : aat' = [aat EXCEPT ![p] = where]
    BY <2>1, NextAlertWorks
  <2>3. TypeInv'
    BY <2>1, <2>2, NextAlertWorks DEF AlertInv, TypeInv
  <2>4. \A x \in People : Writing(x)'
    <3>1. Len(alerts) <= Len(alerts') /\ Len(alerts') \in Nat /\ \A a \in 1..Len(alerts) : alerts'[a] = alerts[a]
      BY <2>1 DEF AlertInv, TypeInv
    <3> QED
      BY <2>1, <2>2, <3>1, NobodyWrites
  <2> QED
    BY <2>1, <2>3, <2>4, NextAlertWorks DEF AlertInv
<1>3. ASSUME Deliver!Delivering(p), NEW status \in {"pending", "delivered", "failed"}, NEW n \in Nat,
             Deliver!Mark(p, Deliver!AlertInHand(p), status, n)
      PROVE  AlertInv'
  BY <1>3, MarkKeeps DEF Deliver!Delivering
<1>4. ASSUME Deliver!Delivering(p)
      PROVE  Deliver!RowInHand(p).attempts \in Nat /\ Deliver!RowInHand(p).attempts + 1 \in Nat
  BY <1>4, HandIsListed DEF Deliver!Delivering, AlertRows
<1>5. CASE Deliver!GiveUp(p)
  BY <1>3, <1>4, <1>5 DEF Deliver!GiveUp
<1>6. CASE Deliver!DeliverNothing(p)
  BY <1>3, <1>4, <1>6 DEF Deliver!DeliverNothing
<1>7. CASE Deliver!Post(p)
  BY <1>3, <1>4, <1>7 DEF Deliver!Post
<1>8. CASE Deliver!PostFails(p)
  BY <1>3, <1>4, <1>8 DEF Deliver!PostFails
<1> QED
  BY <1>1, <1>2, <1>5, <1>6, <1>7, <1>8 DEF Deliver!Delivery

-----------------------------------------------------------------------------
(* A row is written by whoever holds its lock, and is the row he read.     *)

LEMMA ReturnWorks ==
    ASSUME AlertInv, NEW x \in People, aat[x] \in {"marking", "locked"}, Deliver!Return(x),
           fired' = fired, Len(alerts') = Len(alerts)
    PROVE  /\ listed' \in [Processes -> Seq(Nat \X AlertRows)]
           /\ mark' \in [People -> Marks] /\ DOMAIN row' = People
           /\ \E where \in {"delivering", "idle"} : aat' = [aat EXCEPT ![x] = where]
           /\ \A y \in People \ {x} : mark'[y] = mark[y] /\ row'[y] = row[y]
           /\ \A q \in Processes : Working(q)'
<1>1. /\ mark' = [mark EXCEPT ![x] = Deliver!NoMark] /\ row' = [row EXCEPT ![x] = Deliver!NoRow]
      /\ mark \in [People -> Marks] /\ DOMAIN row = People /\ Deliver!NoMark \in Marks
  BY DEF Deliver!Return, AlertInv, TypeInv, Deliver!NoMark, Marks
<1>2. /\ mark' \in [People -> Marks] /\ DOMAIN row' = People
      /\ \A y \in People \ {x} : mark'[y] = mark[y] /\ row'[y] = row[y]
  BY <1>1
<1>3. CASE x \in Triagers
  <2>1. aat' = [aat EXCEPT ![x] = "idle"] /\ listed' = listed
    BY <1>3 DEF Deliver!Return, Deliver!Go
  <2>2. \A q \in Processes : Working(q)'
    BY <2>1 DEF AlertInv, TypeInv, Working, People
  <2> QED
    BY <1>2, <2>1, <2>2 DEF AlertInv, TypeInv
<1>4. CASE x \notin Triagers
  <2>1. x \in Processes /\ Deliver!NextAlert(x)
    BY <1>4 DEF Deliver!Return, People
  <2> QED
    BY <1>2, <2>1, NextAlertWorks
<1> QED
  BY <1>3, <1>4

(* Whoever still holds his lock and finds the row he read goes on writing. *)
LEMMA OthersWrite ==
    ASSUME AlertInv, NEW x \in People, NEW where \in {"delivering", "idle"}, aat' = [aat EXCEPT ![x] = where],
           Len(alerts') = Len(alerts), \A y \in People \ {x} : mark'[y] = mark[y] /\ row'[y] = row[y],
           \A y \in People \ {x} : aat[y] = "locked" =>
              lock'[mark[y].id] = y /\ alerts'[mark[y].id] = alerts[mark[y].id]
    PROVE  \A y \in People : Writing(y)'
<1> SUFFICES ASSUME NEW y \in People PROVE Writing(y)'
  OBVIOUS
<1>1. CASE y = x
  BY <1>1 DEF AlertInv, TypeInv, Writing
<1>2. CASE y # x
  <2>1. aat'[y] = aat[y] /\ mark'[y] = mark[y] /\ row'[y] = row[y] /\ Writing(y)
    BY <1>2 DEF AlertInv, TypeInv
  <2> QED
    BY <1>2, <2>1 DEF Writing
<1> QED
  BY <1>1, <1>2

(* What is written is a row.                                               *)
LEMMA MutatedIsARow ==
    ASSUME AlertInv, NEW x \in People, aat[x] = "locked"
    PROVE  /\ mark[x].id \in 1..Len(alerts) /\ lock[mark[x].id] = x
           /\ row[x] = alerts[mark[x].id] /\ row[x] \in AlertRows
           /\ Deliver!Mutated(x, row[x]) \in AlertRows
<1>1. /\ mark[x].id \in 1..Len(alerts) /\ lock[mark[x].id] = x /\ row[x] = alerts[mark[x].id]
      /\ x \in Processes => mark[x].status \in {"pending", "delivered", "failed"}
      /\ x \in Triagers => mark[x].status \in {"acknowledged", "resolved"}
      /\ alerts \in Seq(AlertRows) /\ mark[x].attempts \in Nat
  BY DEF AlertInv, TypeInv, Writing, Marks
<1>2. row[x] \in AlertRows
  BY <1>1
<1>3. x \in Processes \/ x \in Triagers
  BY DEF People
<1> QED
  BY <1>1, <1>2, <1>3 DEF Deliver!Mutated, AlertRows

LEMMA WriteKeeps ==
    ASSUME PeopleAssumption, AlertInv, NEW x \in People, aat[x] = "locked",
           alerts' = alerts \/ alerts' = [alerts EXCEPT ![mark[x].id] = Deliver!Mutated(x, row[x])],
           lock' = [lock EXCEPT ![mark[x].id] = "nobody"], Deliver!Return(x), UNCHANGED <<now, since, fired>>
    PROVE  AlertInv'
<1> DEFINE a == mark[x].id
           r == Deliver!Mutated(x, row[x])
<1>1. a \in 1..Len(alerts) /\ lock[a] = x /\ r \in AlertRows
  BY MutatedIsARow
<1>2. /\ alerts \in Seq(AlertRows) /\ Len(alerts) <= AlertsFired
      /\ alerts' = alerts \/ alerts' = [alerts EXCEPT ![a] = r]
      /\ lock' = [lock EXCEPT ![a] = "nobody"]
      /\ lock \in [Slots -> People \cup {"nobody"}]
  BY DEF AlertInv, TypeInv
<1> HIDE DEF a, r
<1>3. /\ alerts' \in Seq(AlertRows) /\ Len(alerts') = Len(alerts)
      /\ \A b \in 1..Len(alerts) \ {a} : alerts'[b] = alerts[b]
  BY <1>1, <1>2
<1>4. lock' \in [Slots -> People \cup {"nobody"}] /\ \A b \in Slots \ {a} : lock'[b] = lock[b]
  BY <1>2
<1>5. /\ listed' \in [Processes -> Seq(Nat \X AlertRows)]
      /\ mark' \in [People -> Marks] /\ DOMAIN row' = People
      /\ \E where \in {"delivering", "idle"} : aat' = [aat EXCEPT ![x] = where]
      /\ \A y \in People \ {x} : mark'[y] = mark[y] /\ row'[y] = row[y]
      /\ \A q \in Processes : Working(q)'
  BY <1>3, ReturnWorks
<1>6. PICK where \in {"delivering", "idle"} : aat' = [aat EXCEPT ![x] = where]
  BY <1>5
<1>7. TypeInv'
  BY <1>2, <1>3, <1>4, <1>5, <1>6 DEF AlertInv, TypeInv
<1>8. ASSUME NEW y \in People \ {x}, aat[y] = "locked"
      PROVE  lock'[mark[y].id] = y /\ alerts'[mark[y].id] = alerts[mark[y].id]
  <2>1. mark[y].id \in 1..Len(alerts) /\ lock[mark[y].id] = y
    BY <1>8 DEF AlertInv, Writing
  <2>2. mark[y].id # a /\ mark[y].id \in Slots
    BY <1>1, <1>2, <2>1 DEF Slots, PeopleAssumption
  <2> QED
    BY <1>3, <1>4, <2>1, <2>2
<1>9. \A y \in People : Writing(y)'
  BY <1>3, <1>5, <1>6, <1>8, OthersWrite
<1> QED
  BY <1>5, <1>7, <1>9 DEF AlertInv

LEMMA TakeLockKeeps ==
    ASSUME PeopleAssumption, AlertInv, NEW x \in People, Deliver!TakeLock(x)
    PROVE  AlertInv'
<1> DEFINE a == mark[x].id
<1>1. /\ aat[x] = "marking" /\ lock[a] = "nobody" /\ a \in 1..Len(alerts)
      /\ lock' = [lock EXCEPT ![a] = x] /\ row' = [row EXCEPT ![x] = alerts[a]]
      /\ aat' = [aat EXCEPT ![x] = "locked"]
      /\ UNCHANGED <<now, alerts, since, fired, listed, mark>>
  BY DEF Deliver!TakeLock, Deliver!Go, AlertInv, Writing
<1>2. /\ lock \in [Slots -> People \cup {"nobody"}] /\ DOMAIN row = People /\ DOMAIN aat = People
      /\ a \in Slots
  BY <1>1 DEF AlertInv, TypeInv, Slots, PeopleAssumption
<1>3. TypeInv'
  BY <1>1, <1>2 DEF AlertInv, TypeInv
<1>4. \A q \in Processes : Working(q)'
  BY <1>1, <1>2 DEF AlertInv, Working
<1>5. ASSUME NEW y \in People PROVE Writing(y)'
  <2>1. CASE y = x
    BY <1>1, <1>2, <2>1 DEF AlertInv, Writing
  <2>2. CASE y # x
    <3>1. aat'[y] = aat[y] /\ row'[y] = row[y] /\ mark'[y] = mark[y] /\ Writing(y)
      BY <1>1, <1>2, <2>2 DEF AlertInv
    <3>2. aat[y] = "locked" => mark[y].id # a
      BY <1>1, <3>1 DEF Writing, PeopleAssumption, People
    <3>3. aat[y] = "locked" => lock'[mark[y].id] = lock[mark[y].id]
      BY <1>1, <1>2, <3>2
    <3> QED
      BY <1>1, <3>1, <3>3 DEF Writing
  <2> QED
    BY <2>1, <2>2
<1> QED
  BY <1>3, <1>4, <1>5 DEF AlertInv

LEMMA TakeLockFailsKeeps ==
    ASSUME AlertInv, NEW x \in People, Deliver!TakeLockFails(x)
    PROVE  AlertInv'
<1>1. /\ aat[x] = "marking" /\ Deliver!Return(x) /\ UNCHANGED <<now, lock, alerts, since, fired>>
  BY DEF Deliver!TakeLockFails
<1>2. /\ listed' \in [Processes -> Seq(Nat \X AlertRows)]
      /\ mark' \in [People -> Marks] /\ DOMAIN row' = People
      /\ \E where \in {"delivering", "idle"} : aat' = [aat EXCEPT ![x] = where]
      /\ \A y \in People \ {x} : mark'[y] = mark[y] /\ row'[y] = row[y]
      /\ \A q \in Processes : Working(q)'
  BY <1>1, ReturnWorks
<1>3. PICK where \in {"delivering", "idle"} : aat' = [aat EXCEPT ![x] = where]
  BY <1>2
<1>4. TypeInv'
  BY <1>1, <1>2, <1>3 DEF AlertInv, TypeInv
<1>5. \A y \in People \ {x} : aat[y] = "locked" =>
         lock'[mark[y].id] = y /\ alerts'[mark[y].id] = alerts[mark[y].id]
  BY <1>1 DEF AlertInv, Writing
<1>6. \A y \in People : Writing(y)'
  BY <1>1, <1>2, <1>3, <1>5, OthersWrite
<1> QED
  BY <1>2, <1>4, <1>6 DEF AlertInv

LEMMA UpdateKeeps ==
    ASSUME PeopleAssumption, AlertInv, NEW x \in People, Deliver!Update(x)
    PROVE  AlertInv'
<1>1. CASE Deliver!TakeLock(x)
  BY <1>1, TakeLockKeeps
<1>2. CASE Deliver!TakeLockFails(x)
  BY <1>2, TakeLockFailsKeeps
<1>3. CASE Deliver!WriteRow(x)
  BY <1>3, WriteKeeps DEF Deliver!WriteRow
<1>4. CASE Deliver!WriteRowFails(x)
  <2>1. alerts' = alerts \/ alerts' = [alerts EXCEPT ![mark[x].id] = Deliver!Mutated(x, row[x])]
    BY <1>4 DEF Deliver!WriteRowFails
  <2> QED
    BY <1>4, <2>1, WriteKeeps DEF Deliver!WriteRowFails
<1> QED
  BY <1>1, <1>2, <1>3, <1>4 DEF Deliver!Update

LEMMA TriageKeeps ==
    ASSUME PeopleAssumption, AlertInv, NEW o \in Triagers, NEW a \in Deliver!Ids,
           NEW target \in {"acknowledged", "resolved"}, Deliver!Triage(o, a, target)
    PROVE  AlertInv'
<1>1. /\ mark' = [mark EXCEPT ![o] = [id |-> a, status |-> target, attempts |-> 0]]
      /\ aat' = [aat EXCEPT ![o] = "marking"]
      /\ UNCHANGED <<now, lock, alerts, since, fired, listed, row>>
  BY DEF Deliver!Triage, Deliver!Go
<1>2. a \in 1..Len(alerts) /\ a \in Nat /\ o \in People /\ o \notin Processes
  BY DEF Deliver!Ids, AlertInv, TypeInv, People, PeopleAssumption
<1>3. [id |-> a, status |-> target, attempts |-> 0] \in Marks
  BY <1>2 DEF Marks
<1>4. TypeInv'
  BY <1>1, <1>3 DEF AlertInv, TypeInv
<1>5. \A q \in Processes : Working(q)'
  BY <1>1, <1>2 DEF AlertInv, TypeInv, Working, People
<1>6. ASSUME NEW x \in People PROVE Writing(x)'
  BY <1>1, <1>2 DEF AlertInv, TypeInv, Writing
<1> QED
  BY <1>4, <1>5, <1>6 DEF AlertInv

(* The lock of a processor that died runs out; nobody else's does.         *)
LEMMA CrashKeeps ==
    ASSUME PeopleAssumption, AlertInv, NEW p \in Processes, Deliver!Crash(p)
    PROVE  AlertInv'
<1>1. /\ aat' = [aat EXCEPT ![p] = "idle"]
      /\ fired' = [fired EXCEPT ![p] = <<>>] /\ listed' = [listed EXCEPT ![p] = <<>>]
      /\ since' = [since EXCEPT ![p] = 0]
      /\ mark' = [mark EXCEPT ![p] = Deliver!NoMark] /\ row' = [row EXCEPT ![p] = Deliver!NoRow]
      /\ UNCHANGED <<now, alerts>>
  BY DEF Deliver!Crash, Deliver!Go
<1>2. lock' = [a \in DOMAIN lock |-> IF lock[a] = p THEN "nobody" ELSE lock[a]]
  BY DEF Deliver!Crash
<1>3. lock \in [Slots -> People \cup {"nobody"}] /\ p \in People /\ Deliver!NoMark \in Marks
  BY DEF AlertInv, TypeInv, People, Deliver!NoMark, Marks
<1>4. lock' \in [Slots -> People \cup {"nobody"}] /\ \A a \in Slots : lock[a] # p => lock'[a] = lock[a]
  BY <1>2, <1>3
<1>5. TypeInv'
  BY <1>1, <1>3, <1>4 DEF AlertInv, TypeInv
<1>6. Working(p)'
  BY <1>1 DEF AlertInv, TypeInv, Working, People
<1>7. \A q \in Processes : Working(q)'
  BY <1>1, <1>6 DEF AlertInv, TypeInv, Working, People
<1>8. ASSUME NEW x \in People PROVE Writing(x)'
  <2>1. CASE x = p
    BY <1>1, <1>3, <2>1 DEF AlertInv, TypeInv, Writing
  <2>2. CASE x # p
    <3>1. aat'[x] = aat[x] /\ mark'[x] = mark[x] /\ row'[x] = row[x] /\ Writing(x)
      BY <1>1, <2>2 DEF AlertInv, TypeInv
    <3>2. aat[x] = "locked" => mark[x].id \in Slots
      BY <3>1 DEF AlertInv, TypeInv, Writing, Slots, PeopleAssumption
    <3> QED
      BY <1>1, <1>4, <2>2, <3>1, <3>2 DEF Writing
  <2> QED
    BY <2>1, <2>2
<1> QED
  BY <1>5, <1>7, <1>8 DEF AlertInv

-----------------------------------------------------------------------------
LEMMA StepKeeps ==
    ASSUME PeopleAssumption, AlertInv, [MCNext]_allVars
    PROVE  AlertInv'
<1>1. CASE Deliver!Next
  <2>1. ASSUME NEW p \in Processes, Deliver!Evaluation(p) PROVE AlertInv'
    BY <2>1, EvaluationKeeps
  <2>2. ASSUME NEW p \in Processes, Deliver!Delivery(p) PROVE AlertInv'
    BY <2>2, DeliveryKeeps
  <2>3. ASSUME NEW p \in Processes, Deliver!Crash(p) PROVE AlertInv'
    BY <2>3, CrashKeeps
  <2>4. ASSUME NEW x \in People, Deliver!Update(x) PROVE AlertInv'
    BY <2>4, UpdateKeeps
  <2>5. ASSUME NEW o \in Triagers, NEW a \in Deliver!Ids, NEW target \in {"acknowledged", "resolved"},
               Deliver!Triage(o, a, target)
        PROVE  AlertInv'
    BY <2>5, TriageKeeps
  <2>6. CASE Deliver!EditRule
    BY <2>6 DEF Deliver!EditRule, Deliver!work, AlertInv, TypeInv, Working, Writing
  <2>7. CASE Deliver!Tick
    BY <2>7 DEF Deliver!Tick, Deliver!work, AlertInv, TypeInv, Working, Writing
  <2> QED
    BY <1>1, <2>1, <2>2, <2>3, <2>4, <2>5, <2>6, <2>7 DEF Deliver!Next, Deliver!Actors, People
<1>2. CASE UNCHANGED alerting
  BY <1>2 DEF alerting, AlertInv, TypeInv, Working, Writing
<1> QED
  BY <1>1, <1>2 DEF MCNext, allVars

LEMMA AlertInvariance ==
    ASSUME PeopleAssumption PROVE MCSpec => []AlertInv
<1>1. MCInit => AlertInv
  BY AlertInvInit DEF MCInit
<1>2. AlertInv /\ [MCNext]_allVars => AlertInv'
  BY StepKeeps
<1> QED
  BY <1>1, <1>2, PTL DEF MCSpec

(* What a step may do to an alert's row: A of Alerting!WritersKeepApart.   *)
Apart ==
    \A a \in Deliver!Ids :
        LET r == alerts[a]
            s == alerts'[a]
        IN  /\ r.acknowledged => s.acknowledged
            /\ <<s.state, s.acknowledged>> # <<r.state, r.acknowledged>> => lock[a] \in Triagers
            /\ <<s.status, s.attempts>> # <<r.status, r.attempts>> => lock[a] \in Processes

LEMMA UntouchedIsApart ==
    ASSUME \A a \in Deliver!Ids : alerts'[a] = alerts[a]
    PROVE  Apart
BY DEF Apart

LEMMA WriteIsApart ==
    ASSUME AlertInv, NEW x \in People, aat[x] = "locked",
           alerts' = alerts \/ alerts' = [alerts EXCEPT ![mark[x].id] = Deliver!Mutated(x, row[x])]
    PROVE  Apart
<1>1. CASE alerts' = alerts
  BY <1>1, UntouchedIsApart
<1>2. CASE alerts' = [alerts EXCEPT ![mark[x].id] = Deliver!Mutated(x, row[x])]
  <2> DEFINE id == mark[x].id
             m == mark[x]
  <2>1. /\ id \in 1..Len(alerts) /\ lock[id] = x /\ row[x] = alerts[id] /\ alerts[id] \in AlertRows
    BY MutatedIsARow
  <2>2. alerts \in Seq(AlertRows)
    BY DEF AlertInv, TypeInv
  <2>3. alerts'[id] = Deliver!Mutated(x, alerts[id]) /\ \A b \in Deliver!Ids \ {id} : alerts'[b] = alerts[b]
    BY <1>2, <2>1, <2>2 DEF Deliver!Ids
  <2> SUFFICES ASSUME NEW a \in Deliver!Ids, a = id
               PROVE  LET r == alerts[a]
                          s == alerts'[a]
                      IN  /\ r.acknowledged => s.acknowledged
                          /\ <<s.state, s.acknowledged>> # <<r.state, r.acknowledged>> => lock[a] \in Triagers
                          /\ <<s.status, s.attempts>> # <<r.status, r.attempts>> => lock[a] \in Processes
    BY <2>3 DEF Apart
  <2>4. CASE x \in Processes
    <3>1. /\ alerts'[a].state = alerts[a].state /\ alerts'[a].acknowledged = alerts[a].acknowledged
      BY <2>1, <2>3, <2>4 DEF Deliver!Mutated, AlertRows
    <3> QED
      BY <2>1, <2>4, <3>1
  <2>5. CASE x \notin Processes
    <3>1. x \in Triagers
      BY <2>5 DEF People
    <3>2. /\ alerts'[a].status = alerts[a].status /\ alerts'[a].attempts = alerts[a].attempts
          /\ alerts'[a].acknowledged
      BY <2>1, <2>3, <2>5 DEF Deliver!Mutated, AlertRows
    <3> QED
      BY <2>1, <3>1, <3>2
  <2> QED
    BY <2>4, <2>5
<1> QED
  BY <1>1, <1>2

LEMMA StepIsApart ==
    ASSUME PeopleAssumption, AlertInv, [MCNext]_allVars
    PROVE  Apart
<1>1. CASE Deliver!Next
  <2>1. ASSUME NEW p \in Processes, Deliver!Evaluation(p) PROVE Apart
    <3>1. alerts' = alerts \/ alerts' = Append(alerts, Deliver!Fresh(p))
      BY <2>1 DEF Deliver!Evaluation, Deliver!Evaluate, Deliver!Claim, Deliver!ClaimFails, Deliver!StoreAlert,
                  Deliver!StoreAlertFails
    <3>2. \A a \in 1..Len(alerts) : Append(alerts, Deliver!Fresh(p))[a] = alerts[a]
      BY DEF AlertInv, TypeInv
    <3> QED
      BY <3>1, <3>2, UntouchedIsApart DEF Deliver!Ids
  <2>2. ASSUME NEW p \in Processes, Deliver!Delivery(p) \/ Deliver!Crash(p) PROVE Apart
    <3>1. alerts' = alerts
      BY <2>2 DEF Deliver!Delivery, Deliver!Crash, Deliver!ListPending, Deliver!GiveUp, Deliver!Skip,
                  Deliver!DeliverNothing, Deliver!Post, Deliver!PostFails, Deliver!Mark
    <3> QED
      BY <3>1, UntouchedIsApart
  <2>3. ASSUME NEW x \in People, Deliver!Update(x) PROVE Apart
    <3>1. CASE Deliver!TakeLock(x) \/ Deliver!TakeLockFails(x)
      BY <3>1, UntouchedIsApart DEF Deliver!TakeLock, Deliver!TakeLockFails
    <3>2. CASE Deliver!WriteRow(x)
      BY <3>2, WriteIsApart DEF Deliver!WriteRow
    <3>3. CASE Deliver!WriteRowFails(x)
      <4>1. alerts' = alerts \/ alerts' = [alerts EXCEPT ![mark[x].id] = Deliver!Mutated(x, row[x])]
        BY <3>3 DEF Deliver!WriteRowFails
      <4> QED
        BY <3>3, <4>1, WriteIsApart DEF Deliver!WriteRowFails
    <3> QED
      BY <2>3, <3>1, <3>2, <3>3 DEF Deliver!Update
  <2>4. ASSUME NEW o \in Triagers, NEW a, NEW target, Deliver!Triage(o, a, target) PROVE Apart
    BY <2>4, UntouchedIsApart DEF Deliver!Triage
  <2>5. CASE Deliver!EditRule \/ Deliver!Tick
    BY <2>5, UntouchedIsApart DEF Deliver!EditRule, Deliver!Tick
  <2> QED
    BY <1>1, <2>1, <2>2, <2>3, <2>4, <2>5 DEF Deliver!Next, Deliver!Actors, People
<1>2. CASE UNCHANGED alerting
  BY <1>2, UntouchedIsApart DEF alerting
<1> QED
  BY <1>1, <1>2 DEF MCNext, allVars

(* Whatever operators and deliveries do to one alert at the same time, a   *)
(* delivery changes only what it is to change, triage only what it is to   *)
(* change, each under the alert's lock, and an acknowledgement stays.      *)
THEOREM WritesKeepApart == ASSUME PeopleAssumption PROVE MCSpec => WritersKeepApart
<1>1. MCSpec => [][Apart]_alerts
  BY AlertInvariance, StepIsApart, PTL DEF MCSpec
<1>2. [Apart]_alerts <=>
      [\A a \in Deliver!Ids :
          LET r == alerts[a]
              s == alerts'[a]
          IN  /\ r.acknowledged => s.acknowledged
              /\ <<s.state, s.acknowledged>> # <<r.state, r.acknowledged>> => lock[a] \in Triagers
              /\ <<s.status, s.attempts>> # <<r.status, r.attempts>> => lock[a] \in Processes]_alerts
  BY DEF Apart
<1> QED
  BY <1>1, <1>2, PTL DEF WritersKeepApart, Deliver!WritersKeepApart
=============================================================================
