---------------------------- MODULE ConsoleProofs ----------------------------
(***************************************************************************)
(* Proofs about the instances of MCConsole, for any values of the          *)
(* constants it gives them.  A behaviour of MCSpec never leaves the        *)
(* instance its scenario names, so what holds of that instance's initial   *)
(* states and steps holds of MCSpec (each theorem's Now or Inv).           *)
(*                                                                         *)
(* The audit trail.  Only the holder of the lock is at work, so nothing    *)
(* is inserted between its read of the latest entry and its own insert;    *)
(* so an entry that is listed after all there were names what the table    *)
(* shows before it, until one comes out of order in between.               *)
(*                                                                         *)
(* FeedSecrets has proofs of its own: it is instantiated here as MCConsole *)
(* instantiates the module, and the lemmas Same... say that both instances *)
(* mean the same.                                                          *)
(*                                                                         *)
(* Caches.  A read gets what is in the table after it began, a read ends   *)
(* in time, and an entry carries the time of its storing: so what is kept  *)
(* was in the table within a read of being kept.                           *)
(*                                                                         *)
(* Retention.  A pass deletes for a tenant by periods the tenant had in    *)
(* this pass, and by those it has now unless they changed (HadInPass).     *)
(* Until the pass is over every table of every tenant is either swept or   *)
(* outstanding, so at the end of a day all of it is swept (Swept).         *)
(*                                                                         *)
(* Sessions.  What a tab holds is bounded by how long ago it was true      *)
(* (TabIsRecent): a token's age and the age of the authority in it grow    *)
(* together.  A refresh token that is replaced is named in Redis at least  *)
(* as long as it lasts (TokensAreNamed).                                   *)
(*                                                                         *)
(* Vendors.  What a hop logs says whose request it is, by an identifier    *)
(* which was logged before (TellsItsHop, Carries); a request has left      *)
(* every hop it was logged at (BehindIt), so only the last of its events   *)
(* can have refused it (Verdicts).                                         *)
(*                                                                         *)
(* Alerting.  The alerts of a group and the claims of alerts about to be   *)
(* stored have each used up a cooldown of the time until the group may     *)
(* fire again, which is at most one cooldown ahead (Paid); the groups that *)
(* were silenced for nothing are no more than the failures (Unmatched).    *)
(*                                                                         *)
(* Search.  No version of a row sorts before an older one, and only rows   *)
(* that are amended move: so the cursor parts what was listed from what    *)
(* is to come (CursorParts), whatever happens between two pages.           *)
(***************************************************************************)
EXTENDS MCConsole, Integers, Sequences, TLAPS, FiniteSetTheorems

(* The audit trail.                                                        *)

(* The variables of AuditTrail, by what they are there.                    *)
moment == s1
ahead == s2
trail == s3
trailLock == s4
stage == s5
linking == s6
mishaps == s7
stragglers == s8

(* The bounds are numbers, and nobody is not a writer.                     *)
TrailHypotheses ==
    TrailLength \in Nat /\ ClockSkew \in Nat /\ TrailFaults \in Nat /\ Nobody \notin Auditors

(* Whoever is at work holds the lock.                                      *)
OneAtWork == \A w \in Auditors : stage[w] # "idle" => trailLock = w

(* No two entries have one id, so one of them is listed before the other.  *)
IdsAreUnique == \A e, f \in trail : e.id = f.id => e = f

HasLatest == trail # {} => \E e \in trail : Audit!Latest(e)

(* What a writer is about to chain to is the latest there is, and what it  *)
(* is about to insert has an id of its own.                                *)
ChainedToLatest ==
    \A w \in Auditors :
        /\ stage[w] # "idle" => linking[w].prev = Audit!LatestHash
        /\ stage[w] = "insert" =>
              linking[w].id \in 1..TrailLength /\ \A e \in trail : e.id # linking[w].id

(* Where the clocks agree, every entry is from the past, and what is about *)
(* to be inserted is from this moment.                                     *)
ClocksAgree == \A v, w \in Auditors : ahead[v] = ahead[w]

InThePast ==
    ClocksAgree =>
        /\ \A e \in trail, w \in Auditors : e.time < moment + ahead[w]
        /\ \A w \in Auditors : stage[w] = "insert" => linking[w].time = moment + ahead[w]

TrailInv ==
    /\ Audit!TypeOK /\ OneAtWork /\ IdsAreUnique /\ HasLatest /\ ChainedToLatest /\ InThePast
    /\ Audit!TrailVerifies

LEMMA TrailInit ==
    ASSUME TrailHypotheses, Audit!Init PROVE TrailInv
<1> USE DEF moment, ahead, trail, trailLock, stage, linking, mishaps, stragglers
<1>1. /\ moment = 0 /\ ahead \in [Auditors -> 0..ClockSkew] /\ trail = {} /\ trailLock = Nobody
      /\ stage = [w \in Auditors |-> "idle"] /\ linking = [w \in Auditors |-> Audit!NoEntry]
      /\ stragglers = {} /\ mishaps = 0
  BY DEF Audit!Init
<1>2. Audit!NoEntry \in [id : 0..TrailLength, time : Nat, prev : 0..TrailLength]
  BY DEF TrailHypotheses, Audit!NoEntry
<1>3. Audit!TypeOK
  BY <1>1, <1>2 DEF TrailHypotheses, Audit!TypeOK
<1> QED
  BY <1>1, <1>3 DEF TrailInv, OneAtWork, IdsAreUnique, HasLatest, ChainedToLatest, InThePast, Audit!TrailVerifies

(* Two entries with different ids are listed one before the other.         *)
LEMMA ListingIsAnOrder ==
    ASSUME NEW e \in Audit!Entry, NEW f \in Audit!Entry, NEW g \in Audit!Entry
    PROVE  /\ ~Audit!Earlier(e, e)
           /\ e.id # f.id => Audit!Earlier(e, f) \/ Audit!Earlier(f, e)
           /\ ~(Audit!Earlier(e, f) /\ Audit!Earlier(f, e))
           /\ Audit!Earlier(e, f) /\ Audit!Earlier(f, g) => Audit!Earlier(e, g)
BY DEF Audit!Earlier, Audit!Entry

(* The latest entry is the one that is read.                               *)
LEMMA LatestIsRead ==
    ASSUME Audit!TypeOK, NEW e \in trail, Audit!Latest(e)
    PROVE  Audit!LatestHash = e.id
<1> USE DEF moment, ahead, trail, trailLock, stage, linking, mishaps, stragglers
<1>1. ASSUME NEW f \in trail, Audit!Latest(f) PROVE f = e
  <2>1. e \in Audit!Entry /\ f \in Audit!Entry
    BY DEF Audit!TypeOK
  <2> QED
    BY <1>1, <2>1, ListingIsAnOrder DEF Audit!Latest
<1> QED
  BY <1>1 DEF Audit!LatestHash

(* Steps that leave the table alone.                                       *)
LEMMA TrailReads ==
    ASSUME TrailHypotheses, TrailInv, NEW w \in Auditors, Audit!LockTrail(w) \/ Audit!Chain(w)
    PROVE  TrailInv'
<1> USE DEF moment, ahead, trail, trailLock, stage, linking, mishaps, stragglers
<1>0. UNCHANGED <<moment, ahead, trail, mishaps, stragglers>>
  BY DEF Audit!LockTrail, Audit!Chain
<1>1. UNCHANGED <<moment, ahead, trail, mishaps, stragglers, Audit!LatestHash>>
  BY <1>0 DEF Audit!LatestHash, Audit!Latest, Audit!Earlier
<1>2. IdsAreUnique' /\ HasLatest' /\ Audit!TrailVerifies'
  BY <1>1 DEF TrailInv, IdsAreUnique, HasLatest, Audit!TrailVerifies, Audit!Latest, Audit!Earlier, Audit!Follows, Audit!Linked
<1>3. Audit!LatestHash \in 0..TrailLength
  <2>1. CASE trail = {}
    BY <2>1 DEF Audit!LatestHash, Audit!GenesisHash, TrailHypotheses
  <2>2. CASE trail # {}
    <3>1. PICK e \in trail : Audit!Latest(e)
      BY <2>2 DEF TrailInv, HasLatest
    <3> QED
      BY <3>1, LatestIsRead DEF TrailInv, Audit!TypeOK, Audit!Entry
  <2> QED
    BY <2>1, <2>2
<1>4. CASE Audit!LockTrail(w)
  <2>1. Audit!TypeOK'
    BY <1>1, <1>3, <1>4 DEF TrailInv, Audit!TypeOK, Audit!LockTrail, Audit!NoEntry, TrailHypotheses
  <2>2. OneAtWork' /\ ChainedToLatest'
    BY <1>1, <1>3, <1>4 DEF TrailInv, Audit!TypeOK, OneAtWork, ChainedToLatest, Audit!LockTrail, Audit!NoEntry, TrailHypotheses
  <2>3. InThePast'
    BY <1>1, <1>4 DEF TrailInv, Audit!TypeOK, InThePast, ClocksAgree, Audit!LockTrail
  <2> QED
    BY <1>2, <2>1, <2>2, <2>3 DEF TrailInv
<1>5. CASE Audit!Chain(w)
  <2>1. PICK id \in (1..TrailLength) \ Audit!Ids :
            linking' = [linking EXCEPT ![w] = [id |-> id, time |-> moment + ahead[w], prev |-> @.prev]]
    BY <1>5 DEF Audit!Chain
  <2>2. moment + ahead[w] \in Nat
    BY DEF TrailInv, Audit!TypeOK, TrailHypotheses
  <2>3. PICK t \in Nat : t = moment + ahead[w]
    BY <2>2
  <2>4. linking[w] \in [id : 0..TrailLength, time : Nat, prev : 0..TrailLength]
    BY DEF TrailInv, Audit!TypeOK
  <2>5. linking' = [linking EXCEPT ![w] = [id |-> id, time |-> t, prev |-> linking[w].prev]]
    BY <2>1, <2>3
  <2>6. Audit!TypeOK'
    <3>1. [id |-> id, time |-> t, prev |-> linking[w].prev]
             \in [id : 0..TrailLength, time : Nat, prev : 0..TrailLength]
      BY <2>4 DEF TrailHypotheses
    <3> QED
      BY <1>1, <1>5, <2>5, <3>1 DEF TrailInv, Audit!TypeOK, Audit!Chain
  <2>7. \A e \in trail : e.id # id
    BY <2>1 DEF Audit!Ids
  <2>8. OneAtWork' /\ ChainedToLatest'
    BY <1>1, <1>5, <2>5, <2>7 DEF TrailInv, Audit!TypeOK, OneAtWork, ChainedToLatest, Audit!Chain
  <2>9. InThePast'
    BY <1>1, <1>5, <2>3, <2>5 DEF TrailInv, Audit!TypeOK, InThePast, ClocksAgree, Audit!Chain
  <2> QED
    BY <1>2, <2>6, <2>8, <2>9 DEF TrailInv
<1> QED
  BY <1>4, <1>5

(* An entry that is added names the one that was listed last; so it is     *)
(* linked to the one before it, unless it came out of order.               *)
LEMMA TrailAdds ==
    ASSUME TrailHypotheses, TrailInv, NEW w \in Auditors, stage[w] = "insert",
           Audit!Append(linking[w]), moment' = moment + 1, ahead' = ahead
    PROVE  /\ trail' \subseteq Audit!Entry /\ stragglers' \subseteq trail' /\ IdsAreUnique' /\ HasLatest'
           /\ Audit!TrailVerifies'
           /\ ClocksAgree => \A e \in trail', v \in Auditors : e.time < moment' + ahead[v]
<1> USE DEF moment, ahead, trail, trailLock, stage, linking, mishaps, stragglers
<1> DEFINE x == linking[w]
<1>1. /\ x \in Audit!Entry /\ x.prev = Audit!LatestHash /\ moment \in Nat /\ trail \subseteq Audit!Entry
      /\ \A e \in trail : e.id # x.id
      /\ stragglers \subseteq trail
  BY DEF TrailInv, Audit!TypeOK, ChainedToLatest, Audit!Entry
<1>2. /\ trail' = trail \cup {x}
      /\ stragglers' = IF \E f \in trail : Audit!Earlier(x, f) THEN stragglers \cup {x} ELSE stragglers
  BY DEF Audit!Append
<1>3. x \notin trail
  BY <1>1
<1> HIDE DEF x
<1>4. trail' \subseteq Audit!Entry /\ stragglers' \subseteq trail' /\ IdsAreUnique'
  BY <1>1, <1>2 DEF TrailInv, IdsAreUnique
<1>5. \A e, f \in trail' : e # f => Audit!Earlier(e, f) \/ Audit!Earlier(f, e)
  BY <1>4, ListingIsAnOrder DEF IdsAreUnique
<1>6. HasLatest'
  <2>1. CASE trail = {}
    BY <1>2, <2>1 DEF HasLatest, Audit!Latest, Audit!Earlier
  <2>2. CASE trail # {}
    <3>1. PICK m \in trail : Audit!Latest(m)
      BY <2>2 DEF TrailInv, HasLatest
    <3>2. \A f \in trail \ {m} : Audit!Earlier(f, m)
      BY <3>1 DEF Audit!Latest
    <3>3. m \in Audit!Entry /\ x \in Audit!Entry /\ m # x /\ m \in trail' /\ x \in trail'
      BY <1>1, <1>2, <1>3
    <3>4. CASE Audit!Earlier(x, m)
      <4>1. \A f \in trail' \ {m} : Audit!Earlier(f, m)
        BY <1>2, <3>2, <3>4
      <4> QED
        BY <3>3, <4>1 DEF HasLatest, Audit!Latest, Audit!Earlier
    <3>5. CASE Audit!Earlier(m, x)
      <4>1. ASSUME NEW f \in trail' \ {x} PROVE Audit!Earlier(f, x)
        <5>1. f \in trail /\ f \in Audit!Entry
          BY <1>1, <1>2
        <5>2. f = m \/ Audit!Earlier(f, m)
          BY <3>2, <5>1
        <5> QED
          BY <3>3, <3>5, <5>1, <5>2, ListingIsAnOrder
      <4> QED
        BY <3>3, <4>1 DEF HasLatest, Audit!Latest, Audit!Earlier
    <3> QED
      BY <1>5, <3>3, <3>4, <3>5
  <2> QED
    BY <2>1, <2>2
<1>7. x \notin stragglers' => \A f \in trail : Audit!Earlier(f, x) /\ ~Audit!Earlier(x, f)
  BY <1>1, <1>2, <1>3, <1>5
<1>8. ASSUME NEW e \in trail' \ stragglers', NEW f \in trail' \ stragglers', Audit!Follows(f, e)'
      PROVE  Audit!Linked(f, e)
  <2>1. Audit!Earlier(e, f) /\ ~\E g \in trail' : Audit!Earlier(e, g) /\ Audit!Earlier(g, f)
    BY <1>8 DEF Audit!Follows, Audit!Earlier
  <2>2. e # f
    BY <1>4, <2>1, ListingIsAnOrder
  <2>3. CASE e = x
    <3>1. f \in trail
      BY <1>2, <2>2, <2>3
    <3> QED
      BY <1>7, <2>1, <2>3, <3>1
  <2>4. CASE e # x /\ f # x
    <3>1. e \in trail \ stragglers /\ f \in trail \ stragglers
      BY <1>2, <2>4
    <3>2. Audit!Follows(f, e)
      BY <1>2, <2>1 DEF Audit!Follows
    <3> QED
      BY <3>1, <3>2 DEF TrailInv, Audit!TrailVerifies
  <2>5. CASE e # x /\ f = x
    <3>1. e \in trail /\ \A g \in trail : ~Audit!Earlier(e, g)
      BY <1>2, <1>7, <2>1, <2>5
    <3>2. PICK g \in trail : Audit!Latest(g)
      BY <3>1 DEF TrailInv, HasLatest
    <3>3. g = e
      BY <3>1, <3>2 DEF Audit!Latest
    <3> QED
      BY <3>2, <3>3, <2>5, <1>1, LatestIsRead DEF Audit!Linked, TrailInv
  <2> QED
    BY <2>3, <2>4, <2>5
<1>9. ASSUME NEW e \in trail' \ stragglers', \A f \in trail' \ {e} : Audit!Earlier(e, f)
      PROVE  e.prev = Audit!GenesisHash
  <2>1. CASE e # x
    <3>1. e \in trail \ stragglers /\ \A f \in trail \ {e} : Audit!Earlier(e, f)
      BY <1>2, <1>9, <2>1
    <3> QED
      BY <3>1 DEF TrailInv, Audit!TrailVerifies
  <2>2. CASE e = x
    <3>1. trail = {}
      BY <1>2, <1>3, <1>7, <1>9, <2>2
    <3> QED
      BY <3>1, <2>2, <1>1 DEF Audit!LatestHash
  <2> QED
    BY <2>1, <2>2
<1>10. ASSUME ClocksAgree PROVE /\ \A e \in trail', v \in Auditors : e.time < moment' + ahead[v]
                                /\ stragglers' = {}
  <2>1. /\ \A e \in trail, v \in Auditors : e.time < moment + ahead[v]
        /\ x.time = moment + ahead[w] /\ stragglers = {}
    BY <1>10 DEF TrailInv, InThePast, Audit!TrailVerifies, ClocksAgree, x
  <2>2. /\ \A v \in Auditors : ahead[v] \in Nat /\ ahead[v] = ahead[w]
        /\ \A e \in trail' : e.time \in Nat
    BY <1>4, <1>10 DEF TrailInv, Audit!TypeOK, Audit!Entry, ClocksAgree, TrailHypotheses
  <2>3. ASSUME NEW e \in trail', NEW v \in Auditors PROVE e.time < moment' + ahead[v]
    <3>1. e \in trail \/ e = x
      BY <1>2
    <3>2. ahead[v] \in Nat /\ ahead[v] = ahead[w] /\ e.time \in Nat
      BY <2>2
    <3>3. e.time <= moment + ahead[v]
      BY <1>1, <2>1, <3>1, <3>2
    <3> QED
      BY <1>1, <3>2, <3>3
  <2>4. ASSUME NEW f \in trail PROVE ~Audit!Earlier(x, f)
    <3>1. f.time < x.time
      BY <2>1
    <3>2. f.time \in Nat /\ x.time \in Nat
      BY <1>2, <2>2
    <3> QED
      BY <3>1, <3>2 DEF Audit!Earlier
  <2> QED
    BY <1>2, <2>1, <2>3, <2>4
<1>11. Audit!TrailVerifies'
  <2>1. ClocksAgree' <=> ClocksAgree
    BY DEF ClocksAgree
  <2>2. (\A v, u \in Auditors : ahead'[v] = ahead'[u]) => stragglers' = {}
    BY <1>10, <2>1 DEF ClocksAgree
  <2> QED
    BY <1>8, <1>9, <2>2 DEF Audit!TrailVerifies, Audit!Linked, Audit!Follows, Audit!Earlier, Audit!GenesisHash
<1> QED
  BY <1>4, <1>6, <1>10, <1>11

LEMMA TrailAppends ==
    ASSUME TrailHypotheses, TrailInv, NEW w \in Auditors, Audit!Insert(w) \/ Audit!AppendFails(w)
    PROVE  TrailInv'
<1> USE DEF moment, ahead, trail, trailLock, stage, linking, mishaps, stragglers
<1>1. /\ stage[w] # "idle" /\ moment' = moment + 1 /\ Audit!Return(w) /\ ahead' = ahead
      /\ mishaps' \in 0..TrailFaults
      /\ UNCHANGED <<trail, stragglers>> \/ (stage[w] = "insert" /\ Audit!Append(linking[w]))
  BY DEF Audit!Insert, Audit!AppendFails, Audit!Fault, TrailInv, Audit!TypeOK, TrailHypotheses
<1>2. /\ trail' \subseteq Audit!Entry /\ stragglers' \subseteq trail' /\ IdsAreUnique' /\ HasLatest'
      /\ Audit!TrailVerifies'
      /\ ClocksAgree => \A e \in trail', v \in Auditors : e.time < moment' + ahead[v]
  <2>1. CASE UNCHANGED <<trail, stragglers>>
    <3>1. /\ trail' \subseteq Audit!Entry /\ stragglers' \subseteq trail' /\ IdsAreUnique' /\ HasLatest'
          /\ Audit!TrailVerifies'
      BY <1>1, <2>1 DEF TrailInv, Audit!TypeOK, IdsAreUnique, HasLatest, Audit!TrailVerifies, Audit!Latest,
         Audit!Earlier, Audit!Follows, Audit!Linked, Audit!Entry
    <3>2. ASSUME ClocksAgree, NEW e \in trail, NEW v \in Auditors PROVE e.time < moment' + ahead[v]
      <4>1. e.time < moment + ahead[v]
        BY <3>2 DEF TrailInv, InThePast
      <4>2. e.time \in Nat /\ moment \in Nat /\ ahead[v] \in Nat
        BY DEF TrailInv, Audit!TypeOK, Audit!Entry, TrailHypotheses
      <4> QED
        BY <1>1, <4>1, <4>2
    <3> QED
      BY <2>1, <3>1, <3>2
  <2>2. CASE stage[w] = "insert" /\ Audit!Append(linking[w])
    BY <1>1, <2>2, TrailAdds
  <2> QED
    BY <1>1, <2>1, <2>2
<1>3. \A v \in Auditors : stage'[v] = "idle"
  BY <1>1 DEF TrailInv, Audit!TypeOK, OneAtWork, Audit!Return
<1>4. Audit!TypeOK'
  BY <1>1, <1>2 DEF TrailInv, Audit!TypeOK, Audit!Return, Audit!NoEntry, TrailHypotheses
<1>5. OneAtWork' /\ ChainedToLatest'
  BY <1>3 DEF OneAtWork, ChainedToLatest
<1>6. InThePast'
  <2>1. ClocksAgree' <=> ClocksAgree
    BY <1>1 DEF ClocksAgree
  <2> QED
    BY <1>1, <1>2, <1>3, <2>1 DEF InThePast
<1> QED
  BY <1>2, <1>4, <1>5, <1>6 DEF TrailInv

LEMMA TrailSteps ==
    ASSUME TrailHypotheses, TrailInv, Audit!Next PROVE TrailInv'
BY TrailReads, TrailAppends DEF Audit!Next

LEMMA TrailStutters ==
    ASSUME TrailInv, UNCHANGED shared PROVE TrailInv'
<1> USE DEF moment, ahead, trail, trailLock, stage, linking, mishaps, stragglers
<1>1. UNCHANGED <<s1, s2, s3, s4, s5, s6, s7, s8>>
  BY DEF shared
<1> QED
  BY <1>1 DEF TrailInv, Audit!TypeOK, OneAtWork, IdsAreUnique, InThePast, ClocksAgree, HasLatest, ChainedToLatest,
              Audit!TrailVerifies, Audit!Latest, Audit!LatestHash, Audit!Earlier, Audit!Follows, Audit!Linked

(* The audit trail verifies but where an entry came out of order, whatever *)
(* the processes' clocks say; where they agree none does and all of it     *)
(* verifies.  For any writers, entries, clocks and failures.               *)
THEOREM TrailOfConsoleVerifies == ASSUME TrailHypotheses PROVE MCSpec => []TrailVerifies
<1> DEFINE Inv == scenario = "audit" => TrailInv
<1>1. MCInit => Inv
  BY TrailInit DEF MCInit
<1>2. Inv /\ [MCNext]_<<vars, shared, scenario>> => Inv'
  <2> SUFFICES ASSUME Inv, [MCNext]_<<vars, shared, scenario>>, scenario' = "audit" PROVE TrailInv'
    OBVIOUS
  <2>1. scenario = "audit" /\ TrailInv
    BY DEF MCNext
  <2>2. CASE UNCHANGED <<vars, shared, scenario>>
    BY <2>1, <2>2, TrailStutters
  <2>3. CASE MCNext
    <3>1. Audit!Next
      BY <2>1, <2>3 DEF MCNext
    <3> QED
      BY <2>1, <3>1, TrailSteps
  <2> QED
    BY <2>2, <2>3
<1>3. Inv => TrailVerifies
  BY DEF TrailInv, TrailVerifies
<1> QED
  BY <1>1, <1>2, <1>3, PTL DEF MCSpec

-----------------------------------------------------------------------------
(* The credential of a feed.                                               *)

SecretsProof == INSTANCE FeedSecretsProofs WITH
    Operators <- FeedOperators, Receivers <- FeedReceivers, MaxRefs <- FeedRefs,
    MaxChanges <- FeedChanges, MaxRestarts <- FeedRestarts, MaxFaults <- FeedFaults,
    row <- s1, revoked <- s2, astray <- s3, sealed <- s4, cache <- s5, minted <- s6,
    changes <- s7, job <- s8, at <- s9, current <- s10, fresh <- s11, step <- s12,
    ref <- s13, backfilled <- s14, restarts <- s15, faults <- s16

LEMMA SameChanges ==
    \A o \in FeedOperators : Secrets!Change(o) <=> SecretsProof!Change(o)
<1> SUFFICES ASSUME NEW o \in FeedOperators PROVE Secrets!Change(o) <=> SecretsProof!Change(o)
  OBVIOUS
<1> USE DEF Secrets!console, Secrets!ingest, Secrets!Fault, Secrets!Go, Secrets!Answer, Secrets!Replacing,
            Secrets!Reverting, Secrets!Unsealed, Secrets!AfterDelete, Secrets!Mutated,
            SecretsProof!console, SecretsProof!ingest, SecretsProof!Fault, SecretsProof!Go, SecretsProof!Answer,
            SecretsProof!Replacing, SecretsProof!Reverting, SecretsProof!Unsealed, SecretsProof!AfterDelete, SecretsProof!Mutated
<1>1. ASSUME NEW j PROVE Secrets!Request(o, j) <=> SecretsProof!Request(o, j)
  BY DEF Secrets!Request, SecretsProof!Request
<1>2. Secrets!PutDurable(o) <=> SecretsProof!PutDurable(o)
  BY DEF Secrets!PutDurable, SecretsProof!PutDurable
<1>3. Secrets!PutFails(o) <=> SecretsProof!PutFails(o)
  BY DEF Secrets!PutFails, SecretsProof!PutFails
<1>4. Secrets!PutCache(o) <=> SecretsProof!PutCache(o)
  BY DEF Secrets!PutCache, SecretsProof!PutCache
<1>5. Secrets!Tombstone(o) <=> SecretsProof!Tombstone(o)
  BY DEF Secrets!Tombstone, SecretsProof!Tombstone
<1>6. Secrets!TombstoneFails(o) <=> SecretsProof!TombstoneFails(o)
  BY DEF Secrets!TombstoneFails, SecretsProof!TombstoneFails
<1>7. Secrets!Uncache(o) <=> SecretsProof!Uncache(o)
  BY DEF Secrets!Uncache, SecretsProof!Uncache
<1>8. Secrets!WriteRow(o) <=> SecretsProof!WriteRow(o)
  BY DEF Secrets!WriteRow, SecretsProof!WriteRow
<1>9. Secrets!WriteRowFails(o) <=> SecretsProof!WriteRowFails(o)
  BY DEF Secrets!WriteRowFails, SecretsProof!WriteRowFails
<1>10. Secrets!ConsoleCrash(o) <=> SecretsProof!ConsoleCrash(o)
  BY DEF Secrets!ConsoleCrash, SecretsProof!ConsoleCrash
<1> QED
  BY <1>1, <1>2, <1>3, <1>4, <1>5, <1>6, <1>7, <1>8, <1>9, <1>10 DEF Secrets!Change, SecretsProof!Change

LEMMA SameDeliveries ==
    \A i \in FeedReceivers : Secrets!Delivery(i) <=> SecretsProof!Delivery(i)
<1> SUFFICES ASSUME NEW i \in FeedReceivers PROVE Secrets!Delivery(i) <=> SecretsProof!Delivery(i)
  OBVIOUS
<1> USE DEF Secrets!console, Secrets!Fault, Secrets!Move, Secrets!Done, Secrets!Trust, Secrets!Forget,
            SecretsProof!console, SecretsProof!Fault, SecretsProof!Move, SecretsProof!Done,
            SecretsProof!Trust, SecretsProof!Forget
<1>1. Secrets!Deliver(i) <=> SecretsProof!Deliver(i)
  BY DEF Secrets!Deliver, SecretsProof!Deliver
<1>2. Secrets!ReadCache(i) <=> SecretsProof!ReadCache(i)
  BY DEF Secrets!ReadCache, SecretsProof!ReadCache
<1>3. Secrets!Check(i) <=> SecretsProof!Check(i)
  BY DEF Secrets!Check, SecretsProof!Check
<1>4. Secrets!CheckFails(i) <=> SecretsProof!CheckFails(i)
  BY DEF Secrets!CheckFails, SecretsProof!CheckFails
<1>5. Secrets!Backfill(i) <=> SecretsProof!Backfill(i)
  BY DEF Secrets!Backfill, SecretsProof!Backfill
<1>6. Secrets!BackfillFails(i) <=> SecretsProof!BackfillFails(i)
  BY DEF Secrets!BackfillFails, SecretsProof!BackfillFails
<1>7. Secrets!ReadDurable(i) <=> SecretsProof!ReadDurable(i)
  BY DEF Secrets!ReadDurable, SecretsProof!ReadDurable
<1>8. Secrets!Refill(i) <=> SecretsProof!Refill(i)
  BY DEF Secrets!Refill, SecretsProof!Refill
<1>9. Secrets!ReceiverCrash(i) <=> SecretsProof!ReceiverCrash(i)
  BY DEF Secrets!ReceiverCrash, SecretsProof!ReceiverCrash
<1> QED
  BY <1>1, <1>2, <1>3, <1>4, <1>5, <1>6, <1>7, <1>8, <1>9 DEF Secrets!Delivery, SecretsProof!Delivery

LEMMA SameSecrets ==
    /\ Secrets!Init <=> SecretsProof!Init
    /\ Secrets!Next <=> SecretsProof!Next
    /\ Secrets!CredentialSurvives <=> SecretsProof!CredentialSurvives
<1>1. Secrets!Init <=> SecretsProof!Init
  BY DEF Secrets!Init, Secrets!Refs, SecretsProof!Init, SecretsProof!Refs
<1>2. Secrets!RedisRestarts <=> SecretsProof!RedisRestarts
  BY DEF Secrets!RedisRestarts, Secrets!console, Secrets!ingest, SecretsProof!RedisRestarts,
         SecretsProof!console, SecretsProof!ingest
<1>3. Secrets!Next <=> SecretsProof!Next
  BY <1>2, SameChanges, SameDeliveries DEF Secrets!Next, SecretsProof!Next
<1>4. Secrets!CredentialSurvives <=> SecretsProof!CredentialSurvives
  BY DEF Secrets!CredentialSurvives, Secrets!Replacing, Secrets!Believed,
         SecretsProof!CredentialSurvives, SecretsProof!Replacing, SecretsProof!Believed
<1> QED
  BY <1>1, <1>3, <1>4

(* The bounds are numbers.                                                 *)
FeedHypotheses ==
    /\ FeedRefs \in Nat \ {0} /\ FeedChanges \in Nat /\ FeedRestarts \in Nat /\ FeedFaults \in Nat

(* The credential a feed's row refers to outlives restarts of Redis, for   *)
(* any deliveries, changes and failures, however many requests to change   *)
(* the feed are under way at once.                                         *)
THEOREM CredentialIsKept == ASSUME FeedHypotheses PROVE MCSpec => []CredentialSurvives
<1> DEFINE Now == scenario = "feeds"
<1>1. SecretsProof!FeedAssumption
  BY DEF FeedHypotheses, SecretsProof!FeedAssumption
<1>2. SecretsProof!Spec => []SecretsProof!CredentialSurvives
  BY ONLY <1>1, SecretsProof!CredentialIsSealed
<1>3. MCInit /\ Now => SecretsProof!Init
  BY SameSecrets DEF MCInit
<1>4. Now /\ [MCNext]_<<vars, shared, scenario>> => Now' /\ [SecretsProof!Next]_(SecretsProof!vars)
  BY SameSecrets DEF MCNext, shared, SecretsProof!vars, SecretsProof!console, SecretsProof!ingest
<1>5. (Now => SecretsProof!CredentialSurvives) => CredentialSurvives
  BY SameSecrets DEF CredentialSurvives
<1>6. ~Now /\ [MCNext]_<<vars, shared, scenario>> => ~Now'
  BY DEF MCNext
<1> QED
  BY <1>2, <1>3, <1>4, <1>5, <1>6, PTL DEF MCSpec, SecretsProof!Spec

-----------------------------------------------------------------------------
(* Caches.                                                                 *)

(* The variables of Caches, by their names there.                          *)
kindOf == s1
clock == s2
storedNow == s3
replaced == s4
unfit == s5
kept == s6
asker == s7
gotBy == s8
begunBy == s9
told == s10
failedAt == s11

CacheHypotheses == CacheTTL \in Nat /\ ReadTime \in Nat /\ CacheTime \in Nat /\ CacheEdits \in Nat

CacheType ==
    /\ clock \in Nat /\ clock <= CacheTime
    /\ storedNow \in 0..CacheEdits
    /\ replaced \in [0..CacheEdits -> Int] /\ replaced[storedNow] = CacheTime
    /\ kept \in [value : Int, at : Int] /\ kept.at <= clock
    /\ DOMAIN asker = Askers
    /\ gotBy \in [Askers -> Int]
    /\ begunBy \in [Askers -> Int]
    /\ failedAt \in Int /\ failedAt <= clock

(* What is kept was in the table within a read of being kept, or is what a *)
(* failed read of the settings gave.                                       *)
KeptIsRecent ==
    kept # Cache!NoEntry =>
        \/ \E v \in 0..CacheEdits : replaced[v] >= kept.at - ReadTime /\ kept.value = Cache!Meaning(v)
        \/ kindOf = "settings" /\ kept.value = -1 /\ kept.at <= failedAt

(* A read under way is no older than a read may be, and what it has got    *)
(* was in the table since it began.                                        *)
ReadsAreRecent ==
    \A c \in Askers :
        /\ asker[c] # "idle" => begunBy[c] <= clock /\ clock <= begunBy[c] + ReadTime
        /\ asker[c] = "store" => gotBy[c] \in 0..CacheEdits /\ replaced[gotBy[c]] >= begunBy[c]

CacheInv == CacheType /\ KeptIsRecent /\ ReadsAreRecent /\ Cache!AnswersAreRecent

LEMMA CacheInit == ASSUME CacheHypotheses, Cache!Init PROVE CacheInv
<1> USE DEF clock, storedNow, replaced, kept, asker, gotBy, begunBy, failedAt, kindOf, unfit, told
<1>1. CacheType
  BY DEF CacheHypotheses, Cache!Init, CacheType, Cache!Values, Cache!Never, Cache!NoEntry, Cache!Default
<1>2. KeptIsRecent /\ ReadsAreRecent /\ Cache!AnswersAreRecent
  BY DEF Cache!Init, KeptIsRecent, ReadsAreRecent, Cache!AnswersAreRecent
<1> QED
  BY <1>1, <1>2 DEF CacheInv

LEMMA CacheSteps ==
    ASSUME CacheHypotheses, CacheInv, Cache!Next PROVE CacheInv'
<1> USE DEF clock, storedNow, replaced, kept, asker, gotBy, begunBy, failedAt, kindOf, unfit, told
<1> DEFINE Values == 0..CacheEdits
<1>0. /\ CacheTTL \in Nat /\ ReadTime \in Nat /\ CacheTime \in Nat /\ CacheEdits \in Nat
      /\ CacheType /\ KeptIsRecent /\ ReadsAreRecent /\ Cache!AnswersAreRecent
  BY DEF CacheHypotheses, CacheInv
<1>1. CASE Cache!Edit
  <2>1. /\ storedNow < CacheEdits /\ storedNow' = storedNow + 1
        /\ replaced' = [replaced EXCEPT ![storedNow] = clock, ![storedNow + 1] = CacheTime]
        /\ UNCHANGED <<kindOf, clock, unfit, kept, asker, gotBy, begunBy, told, failedAt>>
    BY <1>1 DEF Cache!Edit
  <2>2. storedNow \in Values /\ storedNow + 1 \in Values /\ storedNow # storedNow + 1
    BY <1>0, <2>1 DEF CacheType
  <2>3. /\ replaced' \in [Values -> Int] /\ replaced'[storedNow'] = CacheTime
        /\ \A v \in Values : replaced'[v] >= clock \/ replaced'[v] = replaced[v]
    BY <1>0, <2>1, <2>2 DEF CacheType
  <2>4. CacheType'
    BY <1>0, <2>1, <2>2, <2>3 DEF CacheType
  <2>5. KeptIsRecent'
    BY <1>0, <2>1, <2>3, SMTT(60) DEF KeptIsRecent, CacheType, Cache!Meaning, Cache!NoEntry, Cache!Default
  <2>6. ReadsAreRecent'
    BY <1>0, <2>1, <2>3 DEF ReadsAreRecent, CacheType
  <2>7. Cache!AnswersAreRecent'
    BY <1>0, <2>1, <2>3 DEF Cache!AnswersAreRecent, Cache!InForce, Cache!Values, Cache!Meaning, CacheType,
                            Cache!NoAnswer, Cache!Default
  <2> QED
    BY <2>4, <2>5, <2>6, <2>7 DEF CacheInv
<1>2. CASE Cache!Invalidate
  <2>1. /\ kept' = Cache!NoEntry
        /\ UNCHANGED <<kindOf, clock, storedNow, replaced, unfit, asker, gotBy, begunBy, told, failedAt>>
    BY <1>2 DEF Cache!Invalidate
  <2> QED
    BY <1>0, <2>1 DEF CacheInv, CacheType, KeptIsRecent, ReadsAreRecent, Cache!AnswersAreRecent, Cache!InForce,
                      Cache!Values, Cache!Meaning, Cache!NoAnswer, Cache!NoEntry, Cache!Default
<1>3. ASSUME NEW c \in Askers, Cache!Hit(c) PROVE CacheInv'
  <2>1. /\ clock <= kept.at + CacheTTL /\ told' = [value |-> kept.value, failed |-> FALSE]
        /\ UNCHANGED <<kindOf, clock, storedNow, replaced, unfit, kept, asker, gotBy, begunBy, failedAt>>
    BY <1>3 DEF Cache!Hit, Cache!Fresh, Cache!Reply
  <2>2. kept # Cache!NoEntry
    BY <1>0, <2>1 DEF CacheType, Cache!NoEntry, Cache!Default
  <2>3. \/ \E v \in Values : replaced[v] >= clock - CacheTTL - ReadTime /\ kept.value = Cache!Meaning(v)
        \/ kindOf = "settings" /\ kept.value = -1 /\ clock <= failedAt + CacheTTL
    BY <1>0, <2>1, <2>2 DEF KeptIsRecent, CacheType
  <2>4. Cache!AnswersAreRecent'
    BY <2>1, <2>3 DEF Cache!AnswersAreRecent, Cache!InForce, Cache!Values, Cache!Meaning, Cache!Default
  <2>5. CacheType' /\ KeptIsRecent' /\ ReadsAreRecent'
    BY <1>0, <2>1 DEF CacheType, KeptIsRecent, ReadsAreRecent, Cache!Meaning, Cache!NoEntry, Cache!Default
  <2> QED
    BY <2>4, <2>5 DEF CacheInv
<1>4. ASSUME NEW c \in Askers, Cache!Miss(c) \/ Cache!Read(c) PROVE CacheInv'
  <2>1. UNCHANGED <<kindOf, clock, storedNow, replaced, unfit, kept, told, failedAt>>
    BY <1>4 DEF Cache!Miss, Cache!Read
  <2>2. CacheType'
    BY <1>0, <1>4, <2>1 DEF CacheType, Cache!Miss, Cache!Read
  <2>3. KeptIsRecent' /\ Cache!AnswersAreRecent'
    BY <1>0, <2>1 DEF KeptIsRecent, Cache!AnswersAreRecent, Cache!InForce, Cache!Values, Cache!Meaning,
                      Cache!NoAnswer, Cache!NoEntry, Cache!Default
  <2>4. ReadsAreRecent'
    <3>1. CASE Cache!Miss(c)
      <4>1. asker' = [asker EXCEPT ![c] = "read"] /\ begunBy' = [begunBy EXCEPT ![c] = clock] /\ gotBy' = gotBy
        BY <3>1 DEF Cache!Miss
      <4> QED
        BY <1>0, <2>1, <4>1 DEF ReadsAreRecent, CacheType
    <3>2. CASE Cache!Read(c)
      <4>1. /\ asker[c] = "read" /\ asker' = [asker EXCEPT ![c] = "store"] /\ begunBy' = begunBy
            /\ gotBy' = [gotBy EXCEPT ![c] = storedNow]
        BY <3>2 DEF Cache!Read
      <4>2. storedNow \in Values /\ begunBy[c] \in Int /\ replaced[storedNow] >= begunBy[c]
        BY <1>0, <4>1 DEF ReadsAreRecent, CacheType
      <4> QED
        BY <1>0, <2>1, <4>1, <4>2 DEF ReadsAreRecent, CacheType
    <3> QED
      BY <1>4, <3>1, <3>2
  <2> QED
    BY <2>2, <2>3, <2>4 DEF CacheInv
<1>5. ASSUME NEW c \in Askers, Cache!Store(c) PROVE CacheInv'
  <2>1. /\ kept' = kept \/ kept' = [value |-> Cache!Meaning(gotBy[c]), at |-> clock]
        /\ told' = [value |-> Cache!Meaning(gotBy[c]), failed |-> FALSE]
        /\ asker[c] = "store" /\ asker' = [asker EXCEPT ![c] = "idle"]
        /\ gotBy' = [gotBy EXCEPT ![c] = -1] /\ begunBy' = [begunBy EXCEPT ![c] = 0]
        /\ UNCHANGED <<kindOf, clock, storedNow, replaced, unfit, failedAt>>
    BY <1>5 DEF Cache!Store, Cache!Reply, Cache!Done, Cache!Default
  <2>2. gotBy[c] \in Values /\ replaced[gotBy[c]] >= clock - ReadTime
    <3>1. /\ gotBy[c] \in Values /\ replaced[gotBy[c]] >= begunBy[c] /\ clock <= begunBy[c] + ReadTime
          /\ begunBy[c] \in Int /\ clock \in Int
      BY <1>0, <2>1 DEF ReadsAreRecent, CacheType
    <3>2. replaced[gotBy[c]] \in Int
      BY <1>0, <3>1 DEF CacheType
    <3> QED
      BY <1>0, <3>1, <3>2
  <2>3. Cache!Meaning(gotBy[c]) \in Int
    BY <2>2 DEF Cache!Meaning, Cache!Default
  <2>4. CacheType'
    BY <1>0, <2>1, <2>3 DEF CacheType
  <2>5. KeptIsRecent'
    BY <1>0, <2>1, <2>2 DEF KeptIsRecent, Cache!Meaning, Cache!NoEntry, Cache!Default
  <2>6. ReadsAreRecent'
    BY <1>0, <2>1 DEF ReadsAreRecent, CacheType
  <2>7. replaced[gotBy[c]] >= clock - CacheTTL - ReadTime
    BY <1>0, <2>2 DEF CacheType
  <2>8. Cache!AnswersAreRecent'
    BY <2>1, <2>2, <2>7 DEF Cache!AnswersAreRecent, Cache!InForce, Cache!Values, Cache!Meaning
  <2> QED
    BY <2>4, <2>5, <2>6, <2>8 DEF CacheInv
<1>6. ASSUME NEW c \in Askers, Cache!ReadFails(c) PROVE CacheInv'
  <2>1. /\ kept' = IF kindOf = "settings" THEN [value |-> -1, at |-> clock] ELSE kept
        /\ told' = [value |-> -1, failed |-> TRUE] /\ failedAt' = clock
        /\ asker' = [asker EXCEPT ![c] = "idle"]
        /\ gotBy' = [gotBy EXCEPT ![c] = -1] /\ begunBy' = [begunBy EXCEPT ![c] = 0]
        /\ UNCHANGED <<kindOf, clock, storedNow, replaced, unfit>>
    BY <1>6 DEF Cache!ReadFails, Cache!Reply, Cache!Done, Cache!Default
  <2>2. CacheType'
    BY <1>0, <2>1 DEF CacheType
  <2>3. KeptIsRecent'
    BY <1>0, <2>1 DEF KeptIsRecent, CacheType, Cache!Meaning, Cache!NoEntry, Cache!Default
  <2>4. ReadsAreRecent'
    BY <1>0, <2>1 DEF ReadsAreRecent, CacheType
  <2>5. clock <= failedAt' + CacheTTL
    BY <1>0, <2>1 DEF CacheType
  <2>6. Cache!AnswersAreRecent'
    BY <2>1, <2>5 DEF Cache!AnswersAreRecent, Cache!Default
  <2> QED
    BY <2>2, <2>3, <2>4, <2>6 DEF CacheInv
<1>7. CASE Cache!Tick
  <2>1. /\ clock < CacheTime /\ clock' = clock + 1 /\ told' = Cache!NoAnswer
        /\ \A c \in Askers : asker[c] # "idle" => clock < begunBy[c] + ReadTime
        /\ UNCHANGED <<kindOf, storedNow, replaced, unfit, kept, asker, gotBy, begunBy, failedAt>>
    BY <1>7 DEF Cache!Tick
  <2>2. CacheType'
    BY <1>0, <2>1 DEF CacheType
  <2>3. KeptIsRecent'
    BY <1>0, <2>1 DEF KeptIsRecent, Cache!Meaning, Cache!NoEntry, Cache!Default
  <2>4. ReadsAreRecent'
    BY <1>0, <2>1 DEF ReadsAreRecent, CacheType
  <2>5. Cache!AnswersAreRecent'
    BY <2>1 DEF Cache!AnswersAreRecent, Cache!NoAnswer
  <2> QED
    BY <2>2, <2>3, <2>4, <2>5 DEF CacheInv
<1> QED
  BY <1>1, <1>2, <1>3, <1>4, <1>5, <1>6, <1>7 DEF Cache!Next

LEMMA CacheStutters ==
    ASSUME CacheInv, UNCHANGED shared PROVE CacheInv'
<1> USE DEF clock, storedNow, replaced, kept, asker, gotBy, begunBy, failedAt, kindOf
<1>1. UNCHANGED <<s1, s2, s3, s4, s5, s6, s7, s8, s9, s10, s11>>
  BY DEF shared
<1>2. CacheType' /\ KeptIsRecent' /\ ReadsAreRecent'
  BY <1>1 DEF CacheInv, CacheType, KeptIsRecent, ReadsAreRecent, Cache!Meaning, Cache!NoEntry, Cache!Default
<1>3. Cache!AnswersAreRecent'
  BY <1>1 DEF CacheInv, Cache!AnswersAreRecent, Cache!InForce, Cache!Values, Cache!Meaning, Cache!NoAnswer,
              Cache!Default
<1> QED
  BY <1>2, <1>3 DEF CacheInv

(* What a cache answers was in its table within the entry's lifetime and   *)
(* one read before, or is the default a failed read of the settings gave.  *)
THEOREM AnswersOfCachesAreRecent == ASSUME CacheHypotheses PROVE MCSpec => []AnswersAreRecent
<1> DEFINE Inv == scenario = "caches" => CacheInv
<1>1. MCInit => Inv
  BY CacheInit DEF MCInit
<1>2. Inv /\ [MCNext]_<<vars, shared, scenario>> => Inv'
  <2> SUFFICES ASSUME Inv, [MCNext]_<<vars, shared, scenario>>, scenario' = "caches" PROVE CacheInv'
    OBVIOUS
  <2>1. scenario = "caches" /\ CacheInv
    BY DEF MCNext
  <2>2. CASE UNCHANGED <<vars, shared, scenario>>
    BY <2>1, <2>2, CacheStutters
  <2>3. CASE MCNext
    <3>1. Cache!Next
      BY <2>1, <2>3 DEF MCNext
    <3> QED
      BY <2>1, <3>1, CacheSteps
  <2> QED
    BY <2>2, <2>3
<1>3. Inv => AnswersAreRecent
  BY DEF CacheInv, AnswersAreRecent
<1> QED
  BY <1>1, <1>2, <1>3, PTL DEF MCSpec

-----------------------------------------------------------------------------
(* Retention.                                                              *)

(* The variables of Retention, by what they are there.                     *)
day == s1
stock == s2
periods == s4
queue == s6
hand == s7
over == s8
purging == s9
applied == s11
calm == s12
asked == s13

PeriodsOf == [raw : Nat, correlated : Nat, alert : Nat]
Entries == [tenant : Customers, settings : PeriodsOf]

RetentionHypotheses ==
    /\ Kept!IsFiniteSet(Customers)
    /\ AskedPeriods \subseteq Int
    /\ AtFirst \in [Customers -> PeriodsOf]
    /\ DefaultPeriod \in Nat \ {0} /\ LongestPeriod \in Nat \ {0}

RetentionType ==
    /\ day \in Int
    /\ stock \subseteq [table : Kept!Tables, tenant : Customers, at : Int, filed : Int]
    /\ \A r \in stock : r.filed <= day
    /\ periods \in [Customers -> PeriodsOf]
    /\ calm \in [Customers -> {-1, 0, 1}]
    /\ DOMAIN applied = Customers
    /\ queue \in Seq(Entries)
    /\ over \in BOOLEAN
    /\ over => queue = <<>> /\ hand = Kept!NoWork

(* What a pass has in hand for a tenant are periods the tenant had in this *)
(* pass, and those it has while nothing befalls it.                        *)
HadInPass(t, s) == s \in applied[t] /\ (calm[t] >= 0 => s = periods[t])

(* The last statements of applyTenant, from the k-th on.                   *)
Rest(s, k) ==
    LET all == Kept!Statements(s)
    IN  IF k = 1 THEN <<all[1], all[2], all[3], all[4]>>
        ELSE IF k = 2 THEN <<all[2], all[3], all[4]>>
        ELSE IF k = 3 THEN <<all[3], all[4]>> ELSE <<all[4]>>

PassIsWarranted ==
    /\ \A i \in 1..Len(queue) : HadInPass(queue[i].tenant, queue[i].settings)
    /\ \/ hand = Kept!NoWork
       \/ \E t \in Customers : \E s \in PeriodsOf, k \in 1..4 :
              HadInPass(t, s) /\ hand = [tenant |-> t, left |-> Rest(s, k)]

PurgeIsWarranted ==
    purging = Kept!Idle \/ purging \in [step : {"normalized_events", "raw_events"}, of : asked]

(* Today's pass has yet to delete from this table for this tenant.         *)
Outstanding(t, table) ==
    \/ queue = <<>> /\ hand = Kept!NoWork /\ ~over
    \/ \E i \in 1..Len(queue) : queue[i].tenant = t
    \/ hand.tenant = t /\ \E i \in 1..Len(hand.left) : hand.left[i].table = table

Swept ==
    \A r \in stock :
        r.table # "alerts" =>
            LET t == r.tenant
                oldest == day - Kept!PeriodOf(periods[t], r.table)
            IN  /\ calm[t] >= 0 /\ ~Outstanding(t, r.table) => r.at >= oldest
                /\ calm[t] = 1 => r.filed = day \/ r.at >= oldest - 1

RetentionInv == RetentionType /\ PassIsWarranted /\ PurgeIsWarranted /\ Swept

LEMMA RetentionInit == ASSUME RetentionHypotheses, Kept!Init PROVE RetentionInv
<1> USE DEF day, stock, periods, queue, hand, over, purging, applied, calm, asked
<1>1. /\ day = 0 /\ stock = {} /\ periods = AtFirst /\ queue = <<>> /\ hand = Kept!NoWork
      /\ over = FALSE /\ purging = Kept!Idle /\ applied = [t \in Customers |-> {}]
      /\ calm = [t \in Customers |-> 0]
  BY DEF Kept!Init
<1>2. RetentionType
  <2>1. periods \in [Customers -> PeriodsOf] /\ calm \in [Customers -> {-1, 0, 1}] /\ DOMAIN applied = Customers
    BY <1>1 DEF RetentionHypotheses
  <2>2. queue \in Seq(Entries)
    BY <1>1
  <2>3. over \in BOOLEAN /\ (over => queue = <<>> /\ hand = Kept!NoWork)
    BY <1>1
  <2>4. day \in Int /\ (\A r \in stock : r.filed <= day)
    BY <1>1
  <2>5. stock \subseteq [table : Kept!Tables, tenant : Customers, at : Int, filed : Int]
    BY <1>1
  <2> QED
    BY <2>1, <2>2, <2>3, <2>4, <2>5 DEF RetentionType
<1>3. PassIsWarranted /\ PurgeIsWarranted /\ Swept
  BY <1>1 DEF PassIsWarranted, PurgeIsWarranted, Swept
<1> QED
  BY <1>2, <1>3 DEF RetentionInv

LEMMA PeriodsAreDays ==
    ASSUME RetentionHypotheses, NEW s \in PeriodsOf, NEW table
    PROVE  /\ Kept!PeriodOf(s, table) \in Nat \ {0}
           /\ \A i \in 1..4 :
                  /\ Kept!Statements(s)[i].table \in Kept!Tables \ {"alerts"}
                  /\ Kept!Statements(s)[i].days = Kept!PeriodOf(s, Kept!Statements(s)[i].table)
           /\ table \in Kept!Tables \ {"alerts"} => \E i \in 1..4 : Kept!Statements(s)[i].table = table
<1>1. \A d \in Nat : Kept!ClampDays(d) \in Nat \ {0}
  BY DEF RetentionHypotheses, Kept!ClampDays
<1>2. s.raw \in Nat /\ s.correlated \in Nat /\ s.alert \in Nat
  BY DEF PeriodsOf
<1>3. Kept!PeriodOf(s, table) \in Nat \ {0}
  BY <1>1, <1>2 DEF Kept!PeriodOf
<1>4. /\ Kept!Statements(s)[1] = [table |-> "normalized_events", days |-> Kept!ClampDays(s.raw)]
      /\ Kept!Statements(s)[2] = [table |-> "raw_events", days |-> Kept!ClampDays(s.raw)]
      /\ Kept!Statements(s)[3] = [table |-> "rejected_events", days |-> Kept!ClampDays(s.raw)]
      /\ Kept!Statements(s)[4] = [table |-> "correlated_requests", days |-> Kept!ClampDays(s.correlated)]
  BY DEF Kept!Statements, Kept!Statement
<1>5. \A i \in 1..4 :
          /\ Kept!Statements(s)[i].table \in Kept!Tables \ {"alerts"}
          /\ Kept!Statements(s)[i].days = Kept!PeriodOf(s, Kept!Statements(s)[i].table)
  BY <1>4 DEF Kept!Tables, Kept!PeriodOf
<1>6. table \in Kept!Tables \ {"alerts"} => \E i \in 1..4 : Kept!Statements(s)[i].table = table
  BY <1>4 DEF Kept!Tables
<1> QED
  BY <1>3, <1>5, <1>6

(* The statement in hand, and those after it.                              *)
LEMMA RestOfWork ==
    ASSUME NEW s \in PeriodsOf, NEW k \in 1..4
    PROVE  /\ Len(Rest(s, k)) = 5 - k
           /\ \A i \in 1..(5 - k) : Rest(s, k)[i] = Kept!Statements(s)[k + i - 1]
           /\ Head(Rest(s, k)) = Kept!Statements(s)[k]
           /\ k < 4 => Tail(Rest(s, k)) = Rest(s, k + 1) /\ Tail(Rest(s, k)) # <<>>
           /\ k = 4 => Tail(Rest(s, k)) = <<>>
<1>1. CASE k = 1
  BY <1>1 DEF Rest
<1>2. CASE k = 2
  BY <1>2 DEF Rest
<1>3. CASE k = 3
  BY <1>3 DEF Rest
<1>4. CASE k = 4
  BY <1>4 DEF Rest
<1> QED
  BY <1>1, <1>2, <1>3, <1>4, k = 1 \/ k = 2 \/ k = 3 \/ k = 4, Zenon

(* Every tenant is in the list of tenants.                                 *)
LEMMA EveryTenantIsListed ==
    ASSUME Kept!IsFiniteSet(Customers)
    PROVE  LET list == Kept!SetToSeq(Customers)
           IN  /\ list \in Seq(Customers)
               /\ \A t \in Customers : \E i \in 1..Len(list) : list[i] = t
<1> DEFINE n == Kept!Cardinality(Customers)
           list == Kept!SetToSeq(Customers)
<1>1. n = Cardinality(Customers) /\ IsFiniteSet(Customers)
  BY DEF Kept!Cardinality, Kept!IsFiniteSet, Cardinality, IsFiniteSet
<1>2. n \in Nat /\ ExistsBijection(1..n, Customers)
  BY <1>1, FS_CardinalityType
<1>3. \E f \in [1..n -> Customers] : Kept!IsInjective(f)
  BY <1>2 DEF ExistsBijection, Bijection, Injection, IsInjective, Kept!IsInjective
<1>4. list \in [1..n -> Customers] /\ Kept!IsInjective(list)
  BY <1>3 DEF Kept!SetToSeq
<1>5. list \in Injection(1..n, Customers)
  BY <1>4 DEF Kept!IsInjective, Injection, IsInjective
<1>6. IsFiniteSet(1..n) /\ Cardinality(1..n) = n
  BY <1>2, FS_Interval
<1>7. list \in Surjection(1..n, Customers)
  BY <1>1, <1>5, <1>6, FS_Injection
<1>8. list \in Seq(Customers) /\ Len(list) = n
  BY <1>2, <1>4
<1> QED
  BY <1>7, <1>8 DEF Surjection

(* The entries of a pass's list.                                           *)
LEMMA ListedEntries ==
    ASSUME RetentionType
    PROVE  /\ Len(queue) \in Nat
           /\ \A i \in 1..Len(queue) :
                  queue[i] \in Entries /\ queue[i].tenant \in Customers /\ queue[i].settings \in PeriodsOf
           /\ queue # <<>> =>
                  /\ Len(queue) > 0 /\ Head(queue) = queue[1] /\ Tail(queue) \in Seq(Entries)
                  /\ Len(Tail(queue)) = Len(queue) - 1
                  /\ \A i \in 1..Len(Tail(queue)) : Tail(queue)[i] = queue[i + 1]
<1>1. queue \in Seq(Entries)
  BY DEF RetentionType
<1>2. Len(queue) \in Nat /\ \A i \in 1..Len(queue) : queue[i] \in Entries
  BY <1>1
<1>3. \A e \in Entries : e.tenant \in Customers /\ e.settings \in PeriodsOf
  BY DEF Entries
<1>4. queue # <<>> =>
          /\ Len(queue) > 0 /\ Head(queue) = queue[1] /\ Tail(queue) \in Seq(Entries)
          /\ Len(Tail(queue)) = Len(queue) - 1
          /\ \A i \in 1..Len(Tail(queue)) : Tail(queue)[i] = queue[i + 1]
  BY <1>1
<1> QED
  BY <1>2, <1>3, <1>4

LEMMA RetentionSteps == ASSUME RetentionHypotheses, RetentionInv, Kept!Next PROVE RetentionInv' /\ Kept!Deletion
<1> USE DEF day, stock, periods, queue, hand, over, purging, applied, calm, asked
<1> DEFINE Rows == [table : Kept!Tables, tenant : Customers, at : Int, filed : Int]
<1>0. RetentionHypotheses /\ RetentionType /\ PassIsWarranted /\ PurgeIsWarranted /\ Swept
  BY DEF RetentionInv
<1>1. CASE Kept!Write
  <2>1. UNCHANGED <<day, periods, queue, hand, over, purging, applied, calm, asked>>
    BY <1>1 DEF Kept!Write, Kept!worker
  <2>2. PICK r \in Rows : stock' = stock \cup {r} /\ r.filed = day /\ r.at >= day - 1
    <3>1. PICK table \in Kept!Tables, t \in Customers, dated \in {day - 1, day} :
              stock' = stock \cup {[table |-> table, tenant |-> t, at |-> dated, filed |-> day]}
      BY <1>1 DEF Kept!Write
    <3>2. dated \in Int /\ day \in Int /\ dated >= day - 1
      BY <1>0 DEF RetentionType
    <3> DEFINE r == [table |-> table, tenant |-> t, at |-> dated, filed |-> day]
    <3>3. r \in Rows /\ r.filed = day /\ r.at >= day - 1
      BY <1>0, <3>2
    <3> QED
      BY <3>1, <3>3
  <2>3. RetentionType'
    BY <1>0, <2>1, <2>2 DEF RetentionType
  <2>4. PassIsWarranted' /\ PurgeIsWarranted'
    BY <1>0, <2>1 DEF PassIsWarranted, PurgeIsWarranted, HadInPass
  <2>5. Swept'
    <3> SUFFICES ASSUME NEW q \in stock', q.table # "alerts"
                 PROVE  /\ calm[q.tenant] >= 0 /\ ~Outstanding(q.tenant, q.table) =>
                               q.at >= day - Kept!PeriodOf(periods[q.tenant], q.table)
                        /\ calm[q.tenant] = 1 =>
                               q.filed = day \/ q.at >= day - Kept!PeriodOf(periods[q.tenant], q.table) - 1
      BY <2>1 DEF Swept, Outstanding
    <3>1. CASE q \in stock
      BY <1>0, <3>1 DEF Swept
    <3>2. CASE q = r
      <4>1. Kept!PeriodOf(periods[q.tenant], q.table) \in Nat \ {0} /\ q.at \in Int /\ day \in Int
        BY <1>0, <2>2, <3>2, PeriodsAreDays DEF RetentionType
      <4> QED
        BY <2>2, <3>2, <4>1
    <3> QED
      BY <2>2, <3>1, <3>2
  <2>6. Kept!Deletion
    BY <2>2 DEF Kept!Deletion
  <2> QED
    BY <2>3, <2>4, <2>5, <2>6 DEF RetentionInv
<1>2. CASE Kept!Expire
  <2>1. /\ UNCHANGED <<day, periods, queue, hand, over, purging, applied, calm, asked>>
        /\ \E r \in stock : r.at + KeptTTL[r.table] < day /\ stock' = stock \ {r}
    BY <1>2 DEF Kept!Expire, Kept!worker
  <2>2. RetentionType'
    BY <1>0, <2>1 DEF RetentionType
  <2>3. PassIsWarranted' /\ PurgeIsWarranted'
    BY <1>0, <2>1 DEF PassIsWarranted, PurgeIsWarranted, HadInPass
  <2>4. Swept'
    BY <1>0, <2>1 DEF Swept, Outstanding
  <2>5. Kept!Deletion
    BY <2>1 DEF Kept!Deletion
  <2> QED
    BY <2>2, <2>3, <2>4, <2>5 DEF RetentionInv
<1>3. CASE Kept!UpdateTenantSettings
  <2>1. UNCHANGED <<day, stock, queue, hand, over, purging, asked>>
    BY <1>3 DEF Kept!UpdateTenantSettings, Kept!worker
  <2>2. PICK t \in Customers, new \in PeriodsOf :
            /\ periods' = [periods EXCEPT ![t] = new]
            /\ applied' = [applied EXCEPT ![t] = @ \cup {new}]
            /\ calm' = [calm EXCEPT ![t] = -1]
    <3>1. PICK t \in Customers, field \in {"raw", "correlated", "alert"}, days \in AskedPeriods :
              LET new == [periods[t] EXCEPT ![field] = Kept!ClampRetention(days)]
              IN  /\ periods' = [periods EXCEPT ![t] = new]
                  /\ applied' = [applied EXCEPT ![t] = @ \cup {new}]
                  /\ calm' = [calm EXCEPT ![t] = -1]
      BY <1>3 DEF Kept!UpdateTenantSettings
    <3>2. Kept!ClampRetention(days) \in Nat /\ periods[t] \in PeriodsOf
      BY <1>0 DEF Kept!ClampRetention, RetentionHypotheses, RetentionType
    <3>3. [periods[t] EXCEPT ![field] = Kept!ClampRetention(days)] \in PeriodsOf
      BY <3>2 DEF PeriodsOf
    <3> QED
      BY <3>1, <3>3
  <2>3. periods' \in [Customers -> PeriodsOf] /\ calm' \in [Customers -> {-1, 0, 1}] /\ DOMAIN applied' = Customers
    BY <1>0, <2>2 DEF RetentionType
  <2>4. RetentionType'
    BY <1>0, <2>1, <2>3 DEF RetentionType
  <2>5. \A u \in Customers, s \in PeriodsOf : HadInPass(u, s) => HadInPass(u, s)'
    BY <1>0, <2>2 DEF RetentionType, HadInPass
  <2>6. PassIsWarranted'
    <3>1. \A i \in 1..Len(queue) : queue[i].tenant \in Customers /\ queue[i].settings \in PeriodsOf
      BY <1>0, ListedEntries
    <3> QED
      BY <1>0, <2>1, <2>5, <3>1 DEF PassIsWarranted
  <2>7. PurgeIsWarranted'
    BY <1>0, <2>1 DEF PurgeIsWarranted
  <2>8. Swept'
    <3> SUFFICES ASSUME NEW q \in stock, q.table # "alerts", calm'[q.tenant] >= 0
                 PROVE  calm'[q.tenant] = calm[q.tenant] /\ periods'[q.tenant] = periods[q.tenant]
      BY <1>0, <2>1, <2>3 DEF Swept, Outstanding, RetentionType
    <3> QED
      BY <1>0, <2>2 DEF RetentionType
  <2>9. Kept!Deletion
    BY <2>1 DEF Kept!Deletion
  <2> QED
    BY <2>4, <2>6, <2>7, <2>8, <2>9 DEF RetentionInv
<1>4. CASE Kept!ListAll
  <2>1. /\ UNCHANGED <<day, stock, periods, hand, over, purging, calm, asked>>
        /\ queue = <<>> /\ hand = Kept!NoWork /\ ~over
        /\ applied' = [t \in Customers |-> {periods[t]}]
    BY <1>4 DEF Kept!ListAll
  <2> DEFINE list == Kept!SetToSeq(Customers)
  <2>2. queue' = [i \in DOMAIN list |-> [tenant |-> list[i], settings |-> periods[list[i]]]]
    BY <1>4 DEF Kept!ListAll
  <2>3. list \in Seq(Customers) /\ \A t \in Customers : \E i \in 1..Len(list) : list[i] = t
    BY <1>0, EveryTenantIsListed DEF RetentionHypotheses
  <2> HIDE DEF list
  <2>4. /\ queue' \in Seq(Entries) /\ Len(queue') = Len(list)
        /\ \A i \in 1..Len(list) : list[i] \in Customers /\ queue'[i].tenant = list[i]
                                   /\ queue'[i].settings = periods[list[i]]
    <3>1. DOMAIN list = 1..Len(list) /\ Len(list) \in Nat /\ \A i \in 1..Len(list) : list[i] \in Customers
      BY <2>3
    <3>2. \A i \in 1..Len(list) : [tenant |-> list[i], settings |-> periods[list[i]]] \in Entries
      BY <1>0, <3>1 DEF RetentionType, Entries
    <3>3. queue' = [i \in 1..Len(list) |-> [tenant |-> list[i], settings |-> periods[list[i]]]]
      BY <2>2, <3>1
    <3>4. queue' \in Seq(Entries) /\ Len(queue') = Len(list)
      BY <3>1, <3>2, <3>3
    <3> QED
      BY <3>1, <3>3, <3>4
  <2>5. RetentionType'
    BY <1>0, <2>1, <2>4 DEF RetentionType
  <2>6. PassIsWarranted' /\ PurgeIsWarranted'
    BY <1>0, <2>1, <2>4 DEF PassIsWarranted, PurgeIsWarranted, HadInPass
  <2>7. Swept'
    <3>1. ASSUME NEW t \in Customers, NEW table PROVE Outstanding(t, table)'
      <4>1. PICK i \in 1..Len(list) : list[i] = t
        BY <2>3
      <4>2. i \in 1..Len(queue') /\ queue'[i].tenant = t
        BY <2>4, <4>1
      <4> QED
        BY <4>2 DEF Outstanding
    <3> QED
      BY <1>0, <2>1, <3>1 DEF Swept, RetentionType
  <2>8. Kept!Deletion
    BY <2>1 DEF Kept!Deletion
  <2> QED
    BY <2>5, <2>6, <2>7, <2>8 DEF RetentionInv
<1>5. CASE Kept!ApplyTenant
  <2>1. /\ UNCHANGED <<day, stock, periods, over, purging, applied, calm, asked>>
        /\ hand = Kept!NoWork /\ queue # <<>> /\ queue' = Tail(queue)
        /\ hand' = [tenant |-> Head(queue).tenant, left |-> Kept!Statements(Head(queue).settings)]
    BY <1>5 DEF Kept!ApplyTenant
  <2>2. /\ Len(queue) \in Nat \ {0}
        /\ Head(queue) = queue[1] /\ queue[1].tenant \in Customers /\ queue[1].settings \in PeriodsOf
        /\ queue' \in Seq(Entries) /\ Len(queue') = Len(queue) - 1
        /\ \A i \in 1..Len(queue') : queue'[i] = queue[i + 1]
    BY <1>0, <2>1, ListedEntries
  <2>3. HadInPass(queue[1].tenant, queue[1].settings)
    BY <1>0, <2>2 DEF PassIsWarranted
  <2>4. hand' = [tenant |-> queue[1].tenant, left |-> Rest(queue[1].settings, 1)]
    BY <2>1, <2>2 DEF Rest, Kept!Statements
  <2>5. RetentionType'
    BY <1>0, <2>1, <2>2 DEF RetentionType
  <2>6. PassIsWarranted'
    <3>1. \A i \in 1..Len(queue') : HadInPass(queue'[i].tenant, queue'[i].settings)
      BY <1>0, <2>2 DEF PassIsWarranted
    <3>2. \A u, s : HadInPass(u, s)' <=> HadInPass(u, s)
      BY <2>1 DEF HadInPass
    <3> QED
      BY <2>2, <2>3, <2>4, <3>1, <3>2 DEF PassIsWarranted
  <2>7. PurgeIsWarranted'
    BY <1>0, <2>1 DEF PurgeIsWarranted
  <2>8. Swept'
    <3>1. ASSUME NEW t \in Customers, NEW table \in Kept!Tables \ {"alerts"}, Outstanding(t, table)
          PROVE  Outstanding(t, table)'
      <4>1. PICK i \in 1..Len(queue) : queue[i].tenant = t
        BY <2>1, <3>1 DEF Outstanding, Kept!NoWork
      <4>2. CASE i = 1
        <5>1. PICK n \in 1..4 : Kept!Statements(queue[1].settings)[n].table = table
          BY <1>0, <2>2, PeriodsAreDays
        <5>2. Len(Kept!Statements(queue[1].settings)) = 4
          BY DEF Kept!Statements
        <5> QED
          BY <2>1, <2>2, <4>1, <4>2, <5>1, <5>2 DEF Outstanding
      <4>3. CASE i # 1
        <5>1. i - 1 \in 1..Len(queue') /\ queue'[i - 1].tenant = t
          BY <2>2, <4>1, <4>3
        <5> QED
          BY <5>1 DEF Outstanding
      <4> QED
        BY <4>2, <4>3
    <3> QED
      BY <1>0, <2>1, <3>1 DEF Swept, RetentionType
  <2>9. Kept!Deletion
    BY <2>1 DEF Kept!Deletion
  <2> QED
    BY <2>5, <2>6, <2>7, <2>8, <2>9 DEF RetentionInv
<1>6. CASE Kept!DeleteBefore
  <2>1. UNCHANGED <<day, periods, queue, purging, applied, calm, asked>> /\ hand # Kept!NoWork
    BY <1>6 DEF Kept!DeleteBefore
  <2>2. PICK t \in Customers, s \in PeriodsOf, k \in 1..4 :
            HadInPass(t, s) /\ hand = [tenant |-> t, left |-> Rest(s, k)]
    BY <1>0, <2>1 DEF PassIsWarranted
  <2> DEFINE now == Kept!Statements(s)[k]
  <2>3. /\ stock' = {r \in stock : ~(r.tenant = t /\ r.table = now.table /\ r.at < day - now.days)}
        /\ k < 4 => hand' = [tenant |-> t, left |-> Rest(s, k + 1)] /\ over' = FALSE
        /\ k = 4 => hand' = Kept!NoWork /\ over' = (queue = <<>>)
    <3>1. Head(hand.left) = now /\ hand.tenant = t
      BY <2>2, RestOfWork
    <3>2. stock' = stock \ {r \in stock : r.tenant = t /\ r.table = now.table /\ r.at < day - now.days}
      BY <1>6, <3>1 DEF Kept!DeleteBefore, Kept!Due
    <3>3. k < 4 => hand' = [tenant |-> t, left |-> Rest(s, k + 1)] /\ over' = FALSE
      BY <1>6, <2>2, RestOfWork DEF Kept!DeleteBefore
    <3>4. k = 4 => hand' = Kept!NoWork /\ over' = (queue = <<>>)
      BY <1>6, <2>2, RestOfWork DEF Kept!DeleteBefore
    <3> QED
      BY <3>2, <3>3, <3>4
  <2>4. now.table \in Kept!Tables \ {"alerts"} /\ now.days = Kept!PeriodOf(s, now.table)
    BY <1>0, PeriodsAreDays
  <2>5. RetentionType'
    <3>1. k = 4 \/ k < 4
      OBVIOUS
    <3>2. over' \in BOOLEAN /\ (over' => queue' = <<>> /\ hand' = Kept!NoWork)
      BY <2>1, <2>3, <3>1
    <3>3. stock' \subseteq stock
      BY <2>3
    <3> QED
      BY <1>0, <2>1, <3>2, <3>3 DEF RetentionType
  <2>6. PassIsWarranted'
    <3>1. \A u, p : HadInPass(u, p)' <=> HadInPass(u, p)
      BY <2>1 DEF HadInPass
    <3>2. (\A i \in 1..Len(queue) : HadInPass(queue[i].tenant, queue[i].settings))'
      BY <1>0, <2>1, <3>1 DEF PassIsWarranted
    <3>3. CASE k = 4
      BY <2>3, <3>2, <3>3 DEF PassIsWarranted
    <3>4. CASE k < 4
      <4>1. k + 1 \in 1..4
        BY <3>4
      <4> QED
        BY <2>2, <2>3, <3>1, <3>2, <3>4, <4>1 DEF PassIsWarranted
    <3> QED
      BY <3>3, <3>4
  <2>7. PurgeIsWarranted'
    BY <1>0, <2>1 DEF PurgeIsWarranted
  <2>8. Swept'
    <3> SUFFICES ASSUME NEW q \in stock', q.table # "alerts", calm[q.tenant] >= 0, ~Outstanding(q.tenant, q.table)'
                 PROVE  q.at >= day - Kept!PeriodOf(periods[q.tenant], q.table)
      BY <1>0, <2>1, <2>3 DEF Swept, RetentionType
    <3>0. q \in stock /\ q \in Rows
      BY <1>0, <2>3 DEF RetentionType
    <3>1. CASE ~Outstanding(q.tenant, q.table)
      BY <1>0, <3>0, <3>1 DEF Swept
    <3>2. CASE Outstanding(q.tenant, q.table)
      <4>1. q.tenant = t /\ \E i \in 1..Len(Rest(s, k)) : Rest(s, k)[i].table = q.table
        BY <2>1, <2>2, <3>2 DEF Outstanding
      <4>2. PICK i \in 1..(5 - k) : Kept!Statements(s)[k + i - 1].table = q.table
        <5>1. Len(Rest(s, k)) = 5 - k /\ \A i \in 1..(5 - k) : Rest(s, k)[i] = Kept!Statements(s)[k + i - 1]
          BY RestOfWork
        <5> QED
          BY <4>1, <5>1
      <4>3. CASE i = 1
        <5>1. now.table = q.table /\ s = periods[t]
          BY <2>2, <4>1, <4>2, <4>3 DEF HadInPass
        <5>2. now.days \in Int /\ q.at \in Int /\ day \in Int /\ ~(q.at < day - now.days)
          BY <1>0, <2>3, <2>4, <3>0, <4>1, <5>1, PeriodsAreDays DEF RetentionType
        <5> QED
          BY <2>4, <4>1, <5>1, <5>2
      <4>4. CASE i # 1
        <5>1. k < 4 /\ k + 1 \in 1..4 /\ i - 1 \in 1..(5 - (k + 1))
          BY <4>2, <4>4
        <5>2. Rest(s, k + 1)[i - 1] = Kept!Statements(s)[(k + 1) + (i - 1) - 1] /\ Len(Rest(s, k + 1)) = 5 - (k + 1)
          BY <5>1, RestOfWork
        <5>3. (k + 1) + (i - 1) - 1 = k + i - 1
          BY <4>2
        <5> QED
          BY <2>3, <4>1, <4>2, <5>1, <5>2, <5>3 DEF Outstanding
      <4> QED
        BY <4>3, <4>4
    <3> QED
      BY <3>1, <3>2
  <2>9. Kept!Deletion
    <3> SUFFICES ASSUME NEW r \in stock, r \notin stock'
                 PROVE  r.table # "alerts" /\ \E p \in applied[r.tenant] : r.at < day - Kept!PeriodOf(p, r.table)
      BY DEF Kept!Deletion
    <3> QED
      BY <2>2, <2>3, <2>4 DEF HadInPass
  <2> QED
    BY <2>5, <2>6, <2>7, <2>8, <2>9 DEF RetentionInv
<1>7. CASE Kept!DeleteFails
  <2>1. /\ UNCHANGED <<day, stock, periods, queue, purging, applied, asked>> /\ hand # Kept!NoWork
        /\ hand' = Kept!NoWork /\ over' = (queue = <<>>) /\ calm' = [calm EXCEPT ![hand.tenant] = -1]
    BY <1>7 DEF Kept!DeleteFails
  <2>2. RetentionType'
    <3>1. over' \in BOOLEAN /\ (over' => queue' = <<>> /\ hand' = Kept!NoWork)
      BY <2>1
    <3>2. calm' \in [Customers -> {-1, 0, 1}]
      BY <1>0, <2>1 DEF RetentionType
    <3> QED
      BY <1>0, <2>1, <3>1, <3>2 DEF RetentionType
  <2>3. PassIsWarranted' /\ PurgeIsWarranted'
    <3>1. \A i \in 1..Len(queue) : queue[i].tenant \in Customers /\ queue[i].settings \in PeriodsOf
      BY <1>0, ListedEntries
    <3>2. \A u \in Customers, p \in PeriodsOf : HadInPass(u, p) => HadInPass(u, p)'
      BY <1>0, <2>1 DEF HadInPass, RetentionType
    <3> QED
      BY <1>0, <2>1, <3>1, <3>2 DEF PassIsWarranted, PurgeIsWarranted
  <2>4. Swept'
    <3> SUFFICES ASSUME NEW q \in stock, q.table # "alerts", calm'[q.tenant] >= 0
                 PROVE  calm'[q.tenant] = calm[q.tenant]
                        /\ (Outstanding(q.tenant, q.table) => Outstanding(q.tenant, q.table)')
      BY <1>0, <2>1, <2>2 DEF Swept, RetentionType
    <3>1. q.tenant \in Customers /\ q.tenant # hand.tenant
      BY <1>0, <2>1 DEF RetentionType
    <3> QED
      BY <1>0, <2>1, <3>1 DEF RetentionType, Outstanding
  <2>5. Kept!Deletion
    BY <2>1 DEF Kept!Deletion
  <2> QED
    BY <2>2, <2>3, <2>4, <2>5 DEF RetentionInv
<1>8. CASE Kept!PassFails
  <2>1. /\ UNCHANGED <<day, stock, periods, purging, applied, asked>> /\ over' \in BOOLEAN
        /\ queue' = <<>> /\ hand' = Kept!NoWork /\ calm' = [t \in Customers |-> -1]
    BY <1>8 DEF Kept!PassFails
  <2>2. RetentionType'
    BY <1>0, <2>1 DEF RetentionType
  <2>3. PassIsWarranted' /\ PurgeIsWarranted'
    BY <1>0, <2>1 DEF PassIsWarranted, PurgeIsWarranted
  <2>4. Swept'
    BY <1>0, <2>1 DEF Swept, RetentionType
  <2>5. Kept!Deletion
    BY <2>1 DEF Kept!Deletion
  <2> QED
    BY <2>2, <2>3, <2>4, <2>5 DEF RetentionInv
<1>9. CASE Kept!NextDay
  <2>1. /\ UNCHANGED <<stock, periods, queue, hand, purging, applied, asked>>
        /\ over /\ day' = day + 1 /\ over' = FALSE
        /\ calm' = [t \in Customers |-> IF calm[t] < 1 THEN calm[t] + 1 ELSE 1]
    BY <1>9 DEF Kept!NextDay
  <2>2. queue = <<>> /\ hand = Kept!NoWork
    BY <1>0, <2>1 DEF RetentionType
  <2>3. calm' \in [Customers -> {-1, 0, 1}]
    BY <1>0, <2>1 DEF RetentionType
  <2>4. RetentionType'
    <3>1. day' \in Int /\ \A r \in stock : r.filed \in Int /\ r.filed <= day'
      BY <1>0, <2>1 DEF RetentionType
    <3> QED
      BY <1>0, <2>1, <2>3, <3>1 DEF RetentionType
  <2>5. PassIsWarranted' /\ PurgeIsWarranted'
    BY <1>0, <2>1, <2>2 DEF PassIsWarranted, PurgeIsWarranted
  <2>6. Swept'
    <3>1. \A t, table : Outstanding(t, table)' /\ ~Outstanding(t, table)
      BY <2>1, <2>2 DEF Outstanding, Kept!NoWork
    <3> SUFFICES ASSUME NEW q \in stock, q.table # "alerts", calm'[q.tenant] = 1
                 PROVE  q.at >= day' - Kept!PeriodOf(periods[q.tenant], q.table) - 1
      BY <1>0, <2>1, <3>1 DEF Swept, RetentionType
    <3>2. q.tenant \in Customers /\ q.at \in Int /\ calm[q.tenant] >= 0 /\ periods[q.tenant] \in PeriodsOf
      BY <1>0, <2>1 DEF RetentionType
    <3>3. q.at >= day - Kept!PeriodOf(periods[q.tenant], q.table)
      BY <1>0, <3>1, <3>2 DEF Swept
    <3>4. Kept!PeriodOf(periods[q.tenant], q.table) \in Int /\ day \in Int
      BY <1>0, <3>2, PeriodsAreDays DEF RetentionType
    <3> QED
      BY <2>1, <3>2, <3>3, <3>4
  <2>7. Kept!Deletion
    BY <2>1 DEF Kept!Deletion
  <2> QED
    BY <2>4, <2>5, <2>6, <2>7 DEF RetentionInv
<1>10. CASE Kept!StartPurge \/ Kept!PurgeFails
  <2>1. /\ UNCHANGED <<day, stock, periods, queue, hand, over, applied, calm>>
        /\ PurgeIsWarranted'
    <3>1. CASE Kept!StartPurge
      BY <3>1 DEF Kept!StartPurge, PurgeIsWarranted, Kept!worker
    <3>2. CASE Kept!PurgeFails
      BY <3>2 DEF Kept!PurgeFails, PurgeIsWarranted, Kept!worker
    <3> QED
      BY <1>10, <3>1, <3>2
  <2>2. RetentionType'
    BY <1>0, <2>1 DEF RetentionType
  <2>3. PassIsWarranted'
    BY <1>0, <2>1 DEF PassIsWarranted, HadInPass
  <2>4. Swept' /\ Kept!Deletion
    BY <1>0, <2>1 DEF Swept, Outstanding, Kept!Deletion
  <2> QED
    BY <2>1, <2>2, <2>3, <2>4 DEF RetentionInv
<1>11. CASE Kept!DeleteInRange
  <2>1. /\ UNCHANGED <<day, periods, queue, hand, over, applied, calm, asked>> /\ purging # Kept!Idle
        /\ stock' = stock \ Kept!InRange(purging.step, purging.of)
        /\ purging' = IF purging.step = "normalized_events" THEN [purging EXCEPT !.step = "raw_events"] ELSE Kept!Idle
    BY <1>11 DEF Kept!DeleteInRange, Kept!worker
  <2>2. purging \in [step : {"normalized_events", "raw_events"}, of : asked]
    BY <1>0, <2>1 DEF PurgeIsWarranted
  <2>3. RetentionType'
    BY <1>0, <2>1 DEF RetentionType
  <2>4. PassIsWarranted'
    BY <1>0, <2>1 DEF PassIsWarranted, HadInPass
  <2>5. PurgeIsWarranted'
    BY <2>1, <2>2 DEF PurgeIsWarranted
  <2>6. Swept'
    BY <1>0, <2>1 DEF Swept, Outstanding
  <2>7. Kept!Deletion
    BY <2>1, <2>2 DEF Kept!Deletion, Kept!InRange
  <2> QED
    BY <2>3, <2>4, <2>5, <2>6, <2>7 DEF RetentionInv
<1> QED
  BY <1>1, <1>2, <1>3, <1>4, <1>5, <1>6, <1>7, <1>8, <1>9, <1>10, <1>11 DEF Kept!Next

LEMMA RetentionStutters ==
    ASSUME RetentionInv, UNCHANGED shared PROVE RetentionInv' /\ UNCHANGED stock
<1> USE DEF day, stock, periods, queue, hand, over, purging, applied, calm, asked
<1>1. UNCHANGED <<s1, s2, s4, s6, s7, s8, s9, s11, s12, s13>>
  BY DEF shared
<1>2. RetentionType' /\ PurgeIsWarranted'
  BY <1>1 DEF RetentionInv, RetentionType, PurgeIsWarranted
<1>3. PassIsWarranted'
  BY <1>1 DEF RetentionInv, PassIsWarranted, HadInPass
<1>4. Swept'
  BY <1>1 DEF RetentionInv, Swept, Outstanding
<1> QED
  BY <1>1, <1>2, <1>3, <1>4 DEF RetentionInv

LEMMA RetentionOfConsole ==
    ASSUME RetentionHypotheses
    PROVE  LET Inv == scenario = "retention" => RetentionInv
           IN  /\ MCInit => Inv
               /\ Inv /\ [MCNext]_<<vars, shared, scenario>> =>
                      Inv' /\ [scenario = "retention" => Kept!Deletion]_stock
<1> DEFINE Inv == scenario = "retention" => RetentionInv
<1>1. MCInit => Inv
  BY RetentionInit DEF MCInit
<1>2. Inv /\ [MCNext]_<<vars, shared, scenario>> => Inv' /\ [scenario = "retention" => Kept!Deletion]_stock
  <2> SUFFICES ASSUME Inv, [MCNext]_<<vars, shared, scenario>>, scenario = "retention" \/ scenario' = "retention"
               PROVE  Inv' /\ [scenario = "retention" => Kept!Deletion]_stock
    OBVIOUS
  <2>1. scenario = "retention" /\ RetentionInv
    BY DEF MCNext
  <2>2. CASE UNCHANGED <<vars, shared, scenario>>
    BY <2>1, <2>2, RetentionStutters
  <2>3. CASE MCNext
    <3>1. Kept!Next
      BY <2>1, <2>3 DEF MCNext
    <3> QED
      BY <2>1, <3>1, RetentionSteps
  <2> QED
    BY <2>2, <2>3
<1> QED
  BY <1>1, <1>2

(* Data of a tenant whose settings stand and whose statements succeed is   *)
(* gone a day after its period ends, for any tenants, periods and faults.  *)
THEOREM ExpiredDataIsGone == ASSUME RetentionHypotheses PROVE MCSpec => []ExpiredIsGone
<1> DEFINE Inv == scenario = "retention" => RetentionInv
<1>1. RetentionInv => Kept!ExpiredIsGone
  <2> USE DEF day, stock, periods, queue, hand, over, purging, applied, calm, asked
  <2> SUFFICES ASSUME RetentionInv, NEW r \in stock, Kept!Overdue(r), calm[r.tenant] = 1, r.table # "alerts"
               PROVE  FALSE
    BY DEF Kept!ExpiredIsGone
  <2>1. /\ r.at \in Int /\ r.filed \in Int /\ day \in Int /\ periods[r.tenant] \in PeriodsOf
    BY DEF RetentionInv, RetentionType
  <2>2. Kept!PeriodOf(periods[r.tenant], r.table) \in Int
    BY <2>1, PeriodsAreDays
  <2>3. r.filed = day \/ r.at >= day - Kept!PeriodOf(periods[r.tenant], r.table) - 1
    BY DEF RetentionInv, Swept
  <2> QED
    BY <2>1, <2>2, <2>3 DEF Kept!Overdue
<1>2. Inv => ExpiredIsGone
  BY <1>1 DEF ExpiredIsGone
<1> QED
  BY <1>2, RetentionOfConsole, PTL DEF MCSpec

(* A row goes because its table's TTL ran out, because it is past a period *)
(* its own tenant had in this pass, or for a purge on record, for any      *)
(* tenants, periods and faults.                                            *)
THEOREM DeletionIsDue == ASSUME RetentionHypotheses PROVE MCSpec => OnlyDueIsDeleted
<1> DEFINE Inv == scenario = "retention" => RetentionInv
           Due == [scenario = "retention" => Kept!Deletion]_s2
<1>1. MCInit => Inv
  BY RetentionOfConsole
<1>2. Inv /\ [MCNext]_<<vars, shared, scenario>> => Inv' /\ Due
  BY RetentionOfConsole DEF stock
<1> QED
  BY <1>1, <1>2, PTL DEF MCSpec, OnlyDueIsDeleted

-----------------------------------------------------------------------------
(* Sessions.                                                               *)

(* The variables of Sessions, by what they are there.                      *)
holder == s1
challenged == s3
bearer == s4
presented == s5
leftOf == s6
namedFor == s7
usedUp == s8
call == s9
activeLast == s10
roleLast == s11

SessionHypotheses ==
    CodeTTL \in Nat /\ BearerTTL \in Nat /\ CookieTTL \in Nat

Calls == [step : {"idle", "login", "enrol", "revoke", "issue", "logout"},
          role : SessionRoles \cup {"none"}, enabled : BOOLEAN, token : SUBSET Cookies, aged : BOOLEAN]

SessionType ==
    /\ holder \in [active : BOOLEAN, role : SessionRoles, secret : BrowserTabs \cup {"nobody"}, enabled : BOOLEAN]
    /\ challenged \in [BrowserTabs -> Nat]
    /\ bearer \in [BrowserTabs -> [role : SessionRoles \cup {"none"}, left : Nat]]
    /\ presented \subseteq Cookies
    /\ leftOf \in [Cookies -> Nat] /\ namedFor \in [Cookies -> Nat]
    /\ usedUp \subseteq Cookies
    /\ call \in [BrowserTabs -> Calls]
    /\ activeLast \in Nat
    /\ roleLast \in [SessionRoles -> Nat]

(* The clocks of the account's history stand at 0 for what it is now.      *)
HistoryIsKept ==
    /\ roleLast[holder.role] = 0
    /\ holder.active => activeLast = 0

(* How long ago what a tab holds, or its call has read, was true.          *)
Ago(c) == IF call[c].aged THEN 1 ELSE 0

TabIsRecent(c) ==
    /\ challenged[c] > 0 => activeLast + challenged[c] <= CodeTTL + 1
    /\ call[c].step = "login" => activeLast <= Ago(c)
    /\ call[c].step \in {"enrol", "revoke", "issue"} =>
          /\ call[c].role \in SessionRoles /\ roleLast[call[c].role] <= Ago(c)
          /\ activeLast <= CodeTTL + Ago(c)
    /\ bearer[c].left > 0 =>
          /\ bearer[c].role \in SessionRoles /\ roleLast[bearer[c].role] + bearer[c].left <= BearerTTL + 1
          /\ activeLast + bearer[c].left <= CodeTTL + BearerTTL + 1

(* A token that is used up, and one a call is about to replace, is named   *)
(* for as long as it lasts.                                                *)
Named(i) == namedFor[i] >= leftOf[i]
TokensAreNamed ==
    /\ \A i \in usedUp : leftOf[i] > 0 /\ Named(i)
    /\ \A c \in BrowserTabs : call[c].step \in {"enrol", "issue"} => \A i \in call[c].token : Named(i)

SessionInv == SessionType /\ HistoryIsKept /\ (\A c \in BrowserTabs : TabIsRecent(c)) /\ TokensAreNamed

LEMMA SessionInit == ASSUME SessionHypotheses, Signed!Init PROVE SessionInv
<1> USE DEF holder, challenged, bearer, presented, leftOf, namedFor, usedUp, call, activeLast, roleLast
<1>1. PICK x \in SessionRoles :
          /\ holder = [active |-> TRUE, role |-> x, secret |-> "nobody", enabled |-> FALSE]
          /\ roleLast = [y \in SessionRoles |-> IF x = y THEN 0 ELSE BearerTTL + 1]
  BY DEF Signed!Init
<1>2. /\ activeLast = 0 /\ challenged = [c \in BrowserTabs |-> 0]
      /\ bearer = [c \in BrowserTabs |-> [role |-> "none", left |-> 0]]
      /\ presented = {} /\ leftOf = [i \in Cookies |-> 0] /\ namedFor = [i \in Cookies |-> 0]
      /\ usedUp = {}
      /\ call = [c \in BrowserTabs |->
                    [step |-> "idle", role |-> "none", enabled |-> TRUE, token |-> {}, aged |-> FALSE]]
  BY DEF Signed!Init, Signed!Idle, Signed!Call
<1>3. SessionType
  BY <1>1, <1>2 DEF SessionType, SessionHypotheses, Calls
<1>4. HistoryIsKept /\ (\A c \in BrowserTabs : TabIsRecent(c)) /\ TokensAreNamed
  BY <1>1, <1>2 DEF HistoryIsKept, TabIsRecent, TokensAreNamed
<1> QED
  BY <1>3, <1>4 DEF SessionInv

(* A tab that is left alone holds what it held.                            *)
LEMMA OtherTabs ==
    ASSUME SessionInv, UNCHANGED <<activeLast, roleLast>>, NEW c \in BrowserTabs, TabIsRecent(c)',
           \A d \in BrowserTabs \ {c} :
               call'[d] = call[d] /\ challenged'[d] = challenged[d] /\ bearer'[d] = bearer[d]
    PROVE  \A d \in BrowserTabs : TabIsRecent(d)'
<1> USE DEF holder, challenged, bearer, presented, leftOf, namedFor, usedUp, call, activeLast, roleLast
<1>1. ASSUME NEW d \in BrowserTabs, d # c PROVE TabIsRecent(d)'
  <2>1. call'[d] = call[d] /\ challenged'[d] = challenged[d] /\ bearer'[d] = bearer[d] /\ TabIsRecent(d)
    BY <1>1 DEF SessionInv
  <2> QED
    BY <2>1 DEF TabIsRecent, Ago
<1> QED
  BY <1>1

LEMMA SessionSteps == ASSUME SessionHypotheses, SessionInv, Signed!Next PROVE SessionInv'
<1> USE DEF holder, challenged, bearer, presented, leftOf, namedFor, usedUp, call, activeLast, roleLast
<1>0. SessionType /\ HistoryIsKept /\ (\A c \in BrowserTabs : TabIsRecent(c)) /\ TokensAreNamed
  BY DEF SessionInv
<1>1. ASSUME NEW c \in BrowserTabs, Signed!Login(c) \/ Signed!VerifyMFA(c) \/ Signed!Refresh(c) \/ Signed!Logout(c)
      PROVE  SessionInv'
  <2>1. UNCHANGED <<holder, challenged, bearer, presented, leftOf, namedFor, usedUp, activeLast, roleLast>>
    BY <1>1 DEF Signed!Login, Signed!VerifyMFA, Signed!Refresh, Signed!Logout, Signed!account, Signed!tokens
  <2>2. PICK new \in Calls :
            /\ call' = [call EXCEPT ![c] = new] /\ ~new.aged
            /\ \/ new.step = "login" /\ holder.active
               \/ new.step \in {"enrol", "revoke"} /\ new.role = holder.role /\ (holder.active \/ challenged[c] > 0)
               \/ new.step = "logout"
            /\ new.step = "enrol" => new.token = {}
    <3>1. CASE Signed!Login(c)
      <4> DEFINE new == [step |-> "login", role |-> "none", enabled |-> holder.enabled, token |-> {}, aged |-> FALSE]
      <4>1. new \in Calls
        BY <1>0 DEF SessionType, Calls
      <4>2. call' = [call EXCEPT ![c] = new] /\ holder.active
        BY <3>1 DEF Signed!Login, Signed!Goes, Signed!Call
      <4> QED
        BY <4>1, <4>2
    <3>2. CASE Signed!VerifyMFA(c)
      <4> DEFINE new == [step |-> "enrol", role |-> holder.role, enabled |-> holder.enabled, token |-> {}, aged |-> FALSE]
      <4>1. new \in Calls
        BY <1>0 DEF SessionType, Calls
      <4>2. call' = [call EXCEPT ![c] = new] /\ challenged[c] > 0
        BY <3>2 DEF Signed!VerifyMFA, Signed!Goes, Signed!Call
      <4> QED
        BY <4>1, <4>2
    <3>3. CASE Signed!Refresh(c)
      <4> DEFINE new == [step |-> "revoke", role |-> holder.role, enabled |-> TRUE, token |-> presented, aged |-> FALSE]
      <4>1. new \in Calls
        BY <1>0 DEF SessionType, Calls
      <4>2. call' = [call EXCEPT ![c] = new] /\ holder.active
        BY <3>3 DEF Signed!Refresh, Signed!Goes, Signed!Call
      <4> QED
        BY <4>1, <4>2
    <3>4. CASE Signed!Logout(c)
      <4> DEFINE new == [step |-> "logout", role |-> "none", enabled |-> TRUE, token |-> presented, aged |-> FALSE]
      <4>1. new \in Calls
        BY <1>0 DEF SessionType, Calls
      <4>2. call' = [call EXCEPT ![c] = new]
        BY <3>4 DEF Signed!Logout, Signed!Goes, Signed!Call
      <4> QED
        BY <4>1, <4>2
    <3> QED
      BY <1>1, <3>1, <3>2, <3>3, <3>4
  <2>3. /\ call' \in [BrowserTabs -> Calls] /\ call'[c] = new
        /\ \A d \in BrowserTabs \ {c} : call'[d] = call[d]
    BY <1>0, <2>2 DEF SessionType
  <2>4. SessionType' /\ HistoryIsKept'
    BY <1>0, <2>1, <2>3 DEF SessionType, HistoryIsKept
  <2>5. TabIsRecent(c)'
    <3>1. TabIsRecent(c) /\ activeLast \in Nat /\ challenged[c] \in Nat /\ roleLast[holder.role] = 0
          /\ holder.role \in SessionRoles /\ (holder.active => activeLast = 0)
      BY <1>0 DEF SessionType, HistoryIsKept
    <3> QED
      BY <2>1, <2>2, <2>3, <3>1 DEF TabIsRecent, Ago, SessionHypotheses
  <2>6. TokensAreNamed'
    BY <1>0, <2>1, <2>2, <2>3 DEF TokensAreNamed, Named
  <2> QED
    BY <2>1, <2>3, <2>4, <2>5, <2>6, OtherTabs DEF SessionInv
<1>2. ASSUME NEW c \in BrowserTabs, Signed!Challenge(c) PROVE SessionInv'
  <2>1. /\ UNCHANGED <<bearer, presented, leftOf, namedFor, usedUp, activeLast, roleLast>>
        /\ call[c].step = "login" /\ challenged' = [challenged EXCEPT ![c] = CodeTTL]
        /\ call' = [call EXCEPT ![c] =
                       [step |-> "idle", role |-> "none", enabled |-> TRUE, token |-> {}, aged |-> FALSE]]
    BY <1>2 DEF Signed!Challenge, Signed!Goes, Signed!Idle, Signed!Call, Signed!tokens
  <2>2. /\ holder'.active = holder.active /\ holder'.role = holder.role
        /\ holder' \in [active : BOOLEAN, role : SessionRoles, secret : BrowserTabs \cup {"nobody"}, enabled : BOOLEAN]
    BY <1>0, <1>2 DEF Signed!Challenge, SessionType
  <2>3. /\ call' \in [BrowserTabs -> Calls] /\ call'[c].step = "idle" /\ challenged' \in [BrowserTabs -> Nat]
        /\ challenged'[c] = CodeTTL
        /\ \A d \in BrowserTabs \ {c} : call'[d] = call[d] /\ challenged'[d] = challenged[d]
    BY <1>0, <2>1 DEF SessionType, Calls, SessionHypotheses
  <2>4. SessionType' /\ HistoryIsKept'
    BY <1>0, <2>1, <2>2, <2>3 DEF SessionType, HistoryIsKept
  <2>5. TabIsRecent(c)'
    BY <1>0, <2>1, <2>3 DEF TabIsRecent, Ago, SessionHypotheses, SessionType
  <2>6. TokensAreNamed'
    BY <1>0, <2>1, <2>3 DEF TokensAreNamed, Named
  <2> QED
    BY <2>1, <2>3, <2>4, <2>5, <2>6, OtherTabs DEF SessionInv
<1>3. ASSUME NEW c \in BrowserTabs, Signed!Enrol(c) PROVE SessionInv'
  <2>1. /\ UNCHANGED <<challenged, bearer, presented, leftOf, namedFor, usedUp, activeLast, roleLast>>
        /\ call[c].step = "enrol" /\ call' = [call EXCEPT ![c] = [call[c] EXCEPT !.step = "issue"]]
    BY <1>3 DEF Signed!Enrol, Signed!Goes, Signed!tokens
  <2>2. /\ holder'.active = holder.active /\ holder'.role = holder.role
        /\ holder' \in [active : BOOLEAN, role : SessionRoles, secret : BrowserTabs \cup {"nobody"}, enabled : BOOLEAN]
    BY <1>0, <1>3 DEF Signed!Enrol, SessionType, Calls
  <2>3. /\ call' \in [BrowserTabs -> Calls] /\ call'[c] = [call[c] EXCEPT !.step = "issue"]
        /\ \A d \in BrowserTabs \ {c} : call'[d] = call[d]
    BY <1>0, <2>1 DEF SessionType, Calls
  <2>4. SessionType' /\ HistoryIsKept'
    BY <1>0, <2>1, <2>2, <2>3 DEF SessionType, HistoryIsKept
  <2>5. call[c] \in Calls /\ TabIsRecent(c)
    BY <1>0 DEF SessionType
  <2>6. call'[c].step = "issue" /\ call'[c].role = call[c].role /\ call'[c].aged = call[c].aged
        /\ call'[c].token = call[c].token
    BY <2>3, <2>5 DEF Calls
  <2>7. TabIsRecent(c)'
    BY <2>1, <2>5, <2>6 DEF TabIsRecent, Ago
  <2>8. TokensAreNamed'
    BY <1>0, <2>1, <2>3, <2>6 DEF TokensAreNamed, Named
  <2> QED
    BY <2>1, <2>3, <2>4, <2>7, <2>8, OtherTabs DEF SessionInv
<1>4. ASSUME NEW c \in BrowserTabs, Signed!Revoke(c) PROVE SessionInv'
  <2>1. /\ UNCHANGED <<holder, challenged, bearer, presented, leftOf, usedUp, activeLast, roleLast>>
        /\ call[c].step = "revoke" /\ call' = [call EXCEPT ![c] = [call[c] EXCEPT !.step = "issue"]]
        /\ namedFor' = [i \in Cookies |-> IF i \in call[c].token THEN leftOf[i] ELSE namedFor[i]]
    BY <1>4 DEF Signed!Revoke, Signed!Revocation, Signed!Goes, Signed!account
  <2>2. /\ call' \in [BrowserTabs -> Calls] /\ call'[c] = [call[c] EXCEPT !.step = "issue"]
        /\ \A d \in BrowserTabs \ {c} : call'[d] = call[d]
    BY <1>0, <2>1 DEF SessionType, Calls
  <2>3. namedFor' \in [Cookies -> Nat]
    BY <1>0, <2>1 DEF SessionType
  <2>4. SessionType' /\ HistoryIsKept'
    BY <1>0, <2>1, <2>2, <2>3 DEF SessionType, HistoryIsKept
  <2>5. call[c] \in Calls /\ TabIsRecent(c)
    BY <1>0 DEF SessionType
  <2>6. call'[c].step = "issue" /\ call'[c].role = call[c].role /\ call'[c].aged = call[c].aged
        /\ call'[c].token = call[c].token
    BY <2>2, <2>5 DEF Calls
  <2>7. TabIsRecent(c)'
    BY <2>1, <2>5, <2>6 DEF TabIsRecent, Ago
  <2>8. \A i \in Cookies : (Named(i) => Named(i)') /\ (i \in call[c].token => Named(i)')
    BY <1>0, <2>1 DEF Named, SessionType
  <2>9. \A d \in BrowserTabs : call[d].token \subseteq Cookies
    BY <1>0 DEF SessionType, Calls
  <2>10. TokensAreNamed'
    BY <1>0, <2>1, <2>2, <2>6, <2>8, <2>9 DEF TokensAreNamed, SessionType
  <2> QED
    BY <2>1, <2>2, <2>4, <2>7, <2>10, OtherTabs DEF SessionInv
<1>5. ASSUME NEW c \in BrowserTabs, Signed!IssuePair(c) PROVE SessionInv'
  <2>1. PICK n \in Cookies :
            /\ leftOf[n] = 0 /\ \A d \in BrowserTabs : n \notin call[d].token
            /\ leftOf' = [leftOf EXCEPT ![n] = CookieTTL] /\ presented' = {n}
    BY <1>5 DEF Signed!IssuePair, Signed!Unused
  <2>2. /\ UNCHANGED <<holder, challenged, namedFor, activeLast, roleLast>>
        /\ call[c].step = "issue"
        /\ bearer' = [bearer EXCEPT ![c] = [role |-> call[c].role, left |-> BearerTTL]]
        /\ usedUp' = usedUp \cup {i \in call[c].token : leftOf[i] > 0}
        /\ call' = [call EXCEPT ![c] =
                       [step |-> "idle", role |-> "none", enabled |-> TRUE, token |-> {}, aged |-> FALSE]]
    BY <1>5 DEF Signed!IssuePair, Signed!Goes, Signed!Idle, Signed!Call, Signed!account
  <2>3. /\ call[c] \in Calls /\ TabIsRecent(c) /\ call[c].role \in SessionRoles
        /\ roleLast[call[c].role] \in Nat /\ activeLast \in Nat
    BY <1>0, <2>2 DEF SessionType, TabIsRecent
  <2>4. /\ call' \in [BrowserTabs -> Calls] /\ call'[c].step = "idle"
        /\ \A d \in BrowserTabs \ {c} : call'[d] = call[d]
    BY <1>0, <2>2 DEF SessionType, Calls
  <2>5. /\ bearer' \in [BrowserTabs -> [role : SessionRoles \cup {"none"}, left : Nat]]
        /\ bearer'[c] = [role |-> call[c].role, left |-> BearerTTL]
        /\ \A d \in BrowserTabs \ {c} : bearer'[d] = bearer[d]
    BY <1>0, <2>2, <2>3 DEF SessionType, SessionHypotheses
  <2>6. leftOf' \in [Cookies -> Nat] /\ usedUp' \subseteq Cookies /\ presented' \subseteq Cookies
    BY <1>0, <2>1, <2>2, <2>3 DEF SessionType, SessionHypotheses, Calls
  <2>7. SessionType' /\ HistoryIsKept'
    BY <1>0, <2>2, <2>4, <2>5, <2>6 DEF SessionType, HistoryIsKept
  <2>8. TabIsRecent(c)'
    <3>1. bearer'[c].role = call[c].role /\ bearer'[c].left = BearerTTL /\ BearerTTL \in Nat /\ CodeTTL \in Nat
      BY <2>5 DEF SessionHypotheses
    <3>2. roleLast[call[c].role] <= 1 /\ activeLast <= CodeTTL + 1
      BY <2>2, <2>3, <3>1 DEF TabIsRecent, Ago
    <3> QED
      BY <2>2, <2>3, <2>4, <3>1, <3>2 DEF TabIsRecent
  <2>9. \A i \in Cookies \ {n} : leftOf'[i] = leftOf[i]
    BY <1>0, <2>1 DEF SessionType
  <2>10. \A i \in usedUp : i # n
    BY <1>0, <2>1 DEF TokensAreNamed
  <2>11. TokensAreNamed'
    BY <1>0, <2>1, <2>2, <2>3, <2>4, <2>9, <2>10 DEF TokensAreNamed, Named, SessionType, Calls
  <2> QED
    BY <2>2, <2>4, <2>5, <2>7, <2>8, <2>11, OtherTabs DEF SessionInv
<1>6. ASSUME NEW c \in BrowserTabs, Signed!SignedOut(c) \/ Signed!Fails(c) PROVE SessionInv'
  <2>1. /\ UNCHANGED <<holder, challenged, bearer, leftOf, activeLast, roleLast>> /\ presented' \subseteq presented
        /\ call' = [call EXCEPT ![c] =
                       [step |-> "idle", role |-> "none", enabled |-> TRUE, token |-> {}, aged |-> FALSE]]
    BY <1>6 DEF Signed!SignedOut, Signed!Fails, Signed!Goes, Signed!Idle, Signed!Call, Signed!account, Signed!tokens
  <2>2. call[c].token \subseteq Cookies
    BY <1>0 DEF SessionType, Calls
  <2>3. /\ namedFor' \in [Cookies -> Nat] /\ usedUp' \subseteq Cookies
        /\ \A i \in Cookies : Named(i) => Named(i)'
        /\ \A i \in usedUp' \ usedUp : leftOf[i] > 0 /\ Named(i)'
    <3>1. CASE Signed!SignedOut(c)
      <4>1. /\ namedFor' = [i \in Cookies |-> IF i \in call[c].token THEN leftOf[i] ELSE namedFor[i]]
            /\ usedUp' = usedUp \cup {i \in call[c].token : leftOf[i] > 0}
        BY <3>1 DEF Signed!SignedOut, Signed!Revocation
      <4> QED
        BY <1>0, <2>1, <2>2, <4>1 DEF SessionType, Named
    <3>2. CASE Signed!Fails(c)
      BY <1>0, <3>2 DEF Signed!Fails, Signed!tokens, SessionType, Named
    <3> QED
      BY <1>6, <3>1, <3>2
  <2>4. /\ call' \in [BrowserTabs -> Calls] /\ call'[c].step = "idle"
        /\ \A d \in BrowserTabs \ {c} : call'[d] = call[d]
    BY <1>0, <2>1 DEF SessionType, Calls
  <2>5. SessionType' /\ HistoryIsKept'
    BY <1>0, <2>1, <2>3, <2>4 DEF SessionType, HistoryIsKept
  <2>6. TabIsRecent(c)'
    BY <1>0, <2>1, <2>4 DEF TabIsRecent
  <2>7. TokensAreNamed'
    <3>1. \A d \in BrowserTabs : call[d].token \subseteq Cookies
      BY <1>0 DEF SessionType, Calls
    <3> QED
      BY <1>0, <2>1, <2>3, <2>4, <3>1 DEF TokensAreNamed, SessionType
  <2> QED
    BY <2>1, <2>4, <2>5, <2>6, <2>7, OtherTabs DEF SessionInv
<1>7. ASSUME NEW x \in SessionRoles, NEW active \in BOOLEAN, Signed!EditUser(x, active) PROVE SessionInv'
  <2>1. /\ UNCHANGED <<challenged, bearer, presented, leftOf, namedFor, usedUp, call>>
        /\ roleLast' = [roleLast EXCEPT ![x] = 0]
        /\ activeLast' = IF active THEN 0 ELSE activeLast
    BY <1>7 DEF Signed!EditUser, Signed!tokens
  <2>2. /\ holder'.active = active /\ holder'.role = x
        /\ holder' \in [active : BOOLEAN, role : SessionRoles, secret : BrowserTabs \cup {"nobody"}, enabled : BOOLEAN]
    BY <1>0, <1>7 DEF Signed!EditUser, SessionType
  <2>3. /\ roleLast' \in [SessionRoles -> Nat] /\ activeLast' \in Nat /\ activeLast' <= activeLast
        /\ roleLast'[x] = 0 /\ \A y \in SessionRoles : roleLast'[y] <= roleLast[y]
    BY <1>0, <2>1 DEF SessionType
  <2>4. SessionType' /\ HistoryIsKept' /\ TokensAreNamed'
    BY <1>0, <2>1, <2>2, <2>3 DEF SessionType, HistoryIsKept, TokensAreNamed, Named
  <2>5. ASSUME NEW c \in BrowserTabs PROVE TabIsRecent(c)'
    <3>1. TabIsRecent(c) /\ challenged[c] \in Nat /\ bearer[c].left \in Nat /\ activeLast \in Nat
          /\ Ago(c)' = Ago(c) /\ Ago(c) \in {0, 1}
      BY <1>0, <2>1 DEF SessionType, Ago
    <3>2. \A y \in SessionRoles : roleLast[y] \in Nat /\ roleLast'[y] \in Nat /\ roleLast'[y] <= roleLast[y]
      BY <1>0, <2>3 DEF SessionType
    <3> QED
      BY <2>1, <2>3, <3>1, <3>2 DEF TabIsRecent, SessionHypotheses
  <2> QED
    BY <2>4, <2>5 DEF SessionInv
<1>8. CASE Signed!Suspend
  <2>1. UNCHANGED <<holder, challenged, bearer, presented, leftOf, namedFor, usedUp, call, activeLast, roleLast>>
    BY <1>8 DEF Signed!Suspend, Signed!tokens
  <2> QED
    BY <1>0, <2>1 DEF SessionInv, SessionType, HistoryIsKept, TabIsRecent, Ago, TokensAreNamed, Named
<1>9. CASE Signed!Tick
  <2>1. /\ UNCHANGED <<holder, presented>> /\ \A c \in BrowserTabs : ~call[c].aged
        /\ call' = [c \in BrowserTabs |-> [call[c] EXCEPT !.aged = call[c].step # "idle"]]
        /\ challenged' = [c \in BrowserTabs |-> IF challenged[c] > 0 THEN challenged[c] - 1 ELSE 0]
        /\ leftOf' = [i \in Cookies |-> IF leftOf[i] > 0 THEN leftOf[i] - 1 ELSE 0]
        /\ namedFor' = [i \in Cookies |-> IF namedFor[i] > 0 THEN namedFor[i] - 1 ELSE 0]
        /\ usedUp' = {i \in usedUp : leftOf'[i] > 0}
    BY <1>9 DEF Signed!Tick, Signed!Less
  <2>2. /\ bearer' = [c \in BrowserTabs |-> IF bearer[c].left > 1 THEN [bearer[c] EXCEPT !.left = bearer[c].left - 1]
                                            ELSE [role |-> "none", left |-> 0]]
        /\ activeLast' = IF holder.active THEN 0 ELSE Signed!Older(activeLast, CodeTTL + BearerTTL + 2)
        /\ roleLast' = [x \in SessionRoles |-> IF x = holder.role THEN 0
                                               ELSE Signed!Older(roleLast[x], BearerTTL + 1)]
    BY <1>9 DEF Signed!Tick
  <2>3. \A n \in Nat, bound \in Nat : Signed!Older(n, bound) \in Nat /\ Signed!Older(n, bound) <= n + 1
    BY DEF Signed!Older
  <2>4. /\ activeLast' \in Nat /\ activeLast' <= activeLast + 1 /\ (holder.active => activeLast' = 0)
        /\ roleLast' \in [SessionRoles -> Nat] /\ roleLast'[holder.role] = 0
        /\ \A x \in SessionRoles : roleLast'[x] <= roleLast[x] + 1
    <3>1. CodeTTL + BearerTTL + 2 \in Nat /\ BearerTTL + 1 \in Nat
      BY DEF SessionHypotheses
    <3>2. activeLast \in Nat /\ holder.role \in SessionRoles /\ \A x \in SessionRoles : roleLast[x] \in Nat
      BY <1>0 DEF SessionType
    <3> QED
      BY <2>2, <2>3, <3>1, <3>2
  <2>5. ASSUME NEW c \in BrowserTabs
        PROVE  /\ call'[c] \in Calls /\ call'[c].step = call[c].step /\ call'[c].role = call[c].role
               /\ call'[c].token = call[c].token /\ call'[c].aged = (call[c].step # "idle")
    BY <1>0, <2>1 DEF SessionType, Calls
  <2>6. ASSUME NEW c \in BrowserTabs
        PROVE  /\ bearer'[c] \in [role : SessionRoles \cup {"none"}, left : Nat]
               /\ bearer'[c].left > 0 => bearer'[c].left = bearer[c].left - 1 /\ bearer'[c].role = bearer[c].role
    <3>1. bearer[c] \in [role : SessionRoles \cup {"none"}, left : Nat]
      BY <1>0 DEF SessionType
    <3> QED
      BY <2>2, <3>1
  <2>7. /\ challenged' \in [BrowserTabs -> Nat] /\ leftOf' \in [Cookies -> Nat] /\ namedFor' \in [Cookies -> Nat]
        /\ usedUp' \subseteq usedUp
    BY <1>0, <2>1 DEF SessionType
  <2>8. call' \in [BrowserTabs -> Calls]
    BY <2>1, <2>5
  <2>9. bearer' \in [BrowserTabs -> [role : SessionRoles \cup {"none"}, left : Nat]]
    BY <2>2, <2>6
  <2>10. SessionType' /\ HistoryIsKept'
    BY <1>0, <2>1, <2>4, <2>7, <2>8, <2>9 DEF SessionType, HistoryIsKept
  <2>11. ASSUME NEW c \in BrowserTabs PROVE TabIsRecent(c)'
    <3>1. /\ TabIsRecent(c) /\ challenged[c] \in Nat /\ bearer[c].left \in Nat /\ activeLast \in Nat
          /\ Ago(c) = 0 /\ (call[c].step # "idle" => Ago(c)' = 1)
          /\ \A x \in SessionRoles : roleLast[x] \in Nat /\ roleLast'[x] \in Nat
      BY <1>0, <2>1, <2>4, <2>5 DEF SessionType, Ago
    <3>2. challenged'[c] > 0 => challenged'[c] = challenged[c] - 1 /\ challenged[c] > 0
      BY <2>1, <3>1
    <3>3. bearer'[c].left > 0 => bearer'[c].left = bearer[c].left - 1 /\ bearer'[c].role = bearer[c].role
                                 /\ bearer[c].left > 0
      BY <2>6, <3>1
    <3>4. CodeTTL \in Nat /\ BearerTTL \in Nat
      BY DEF SessionHypotheses
    <3>5. challenged'[c] > 0 => activeLast' + challenged'[c] <= CodeTTL + 1
      BY <2>4, <3>1, <3>2, <3>4 DEF TabIsRecent
    <3>6. bearer'[c].left > 0 =>
              /\ bearer'[c].role \in SessionRoles /\ roleLast'[bearer'[c].role] + bearer'[c].left <= BearerTTL + 1
              /\ activeLast' + bearer'[c].left <= CodeTTL + BearerTTL + 1
      BY <2>4, <3>1, <3>3, <3>4 DEF TabIsRecent
    <3>7. call'[c].step = "login" => activeLast' <= 1
      BY <2>4, <2>5, <3>1 DEF TabIsRecent
    <3>8. call'[c].step \in {"enrol", "revoke", "issue"} =>
              call'[c].role \in SessionRoles /\ roleLast'[call'[c].role] <= 1 /\ activeLast' <= CodeTTL + 1
      BY <2>4, <2>5, <3>1, <3>4 DEF TabIsRecent
    <3> QED
      BY <2>5, <3>1, <3>5, <3>6, <3>7, <3>8 DEF TabIsRecent
  <2>12. TokensAreNamed'
    <3>1. \A i \in Cookies : Named(i) => Named(i)'
      BY <1>0, <2>1 DEF Named, SessionType
    <3>2. \A d \in BrowserTabs : call[d].token \subseteq Cookies
      BY <1>0 DEF SessionType, Calls
    <3> QED
      BY <1>0, <2>1, <2>5, <3>1, <3>2 DEF TokensAreNamed, SessionType
  <2> QED
    BY <2>10, <2>11, <2>12 DEF SessionInv
<1> QED
  BY <1>1, <1>2, <1>3, <1>4, <1>5, <1>6, <1>7, <1>8, <1>9 DEF Signed!Next

LEMMA SessionStutters == ASSUME SessionInv, UNCHANGED shared PROVE SessionInv'
<1> USE DEF holder, challenged, bearer, presented, leftOf, namedFor, usedUp, call, activeLast, roleLast
<1>1. UNCHANGED <<s1, s2, s3, s4, s5, s6, s7, s8, s9, s10, s11>>
  BY DEF shared
<1> QED
  BY <1>1 DEF SessionInv, SessionType, HistoryIsKept, TabIsRecent, Ago, TokensAreNamed, Named

(* A session ends when its account, its role or its tokens do, for any     *)
(* tabs, roles and lifetimes.                                              *)
THEOREM SessionsOfConsoleEnd == ASSUME SessionHypotheses PROVE MCSpec => []SessionsEnd
<1> DEFINE Inv == scenario = "sessions" => SessionInv
<1>1. MCInit => Inv
  BY SessionInit DEF MCInit
<1>2. Inv /\ [MCNext]_<<vars, shared, scenario>> => Inv'
  <2> SUFFICES ASSUME Inv, [MCNext]_<<vars, shared, scenario>>, scenario' = "sessions" PROVE SessionInv'
    OBVIOUS
  <2>1. scenario = "sessions" /\ SessionInv
    BY DEF MCNext
  <2>2. CASE UNCHANGED <<vars, shared, scenario>>
    BY <2>1, <2>2, SessionStutters
  <2>3. CASE MCNext
    <3>1. Signed!Next
      BY <2>1, <2>3 DEF MCNext
    <3> QED
      BY <2>1, <3>1, SessionSteps
  <2> QED
    BY <2>2, <2>3
<1>3. SessionInv => Signed!AuthorityIsRecent
  <2> USE DEF holder, challenged, bearer, presented, leftOf, namedFor, usedUp, call, activeLast, roleLast
  <2> SUFFICES ASSUME SessionInv, NEW c \in BrowserTabs, bearer[c].left > 0
               PROVE  roleLast[bearer[c].role] < BearerTTL + 1 /\ activeLast < CodeTTL + BearerTTL + 2
    BY DEF Signed!AuthorityIsRecent, Signed!Admitted
  <2>1. TabIsRecent(c) /\ bearer[c].left \in Nat /\ activeLast \in Nat /\ \A x \in SessionRoles : roleLast[x] \in Nat
    BY DEF SessionInv, SessionType
  <2> QED
    BY <2>1 DEF TabIsRecent, SessionHypotheses
<1>4. SessionInv => Signed!UsedUpIsRefused
  <2> USE DEF holder, challenged, bearer, presented, leftOf, namedFor, usedUp, call, activeLast, roleLast
  <2> SUFFICES ASSUME SessionInv, NEW i \in usedUp PROVE leftOf[i] > 0 => namedFor[i] # 0
    BY DEF Signed!UsedUpIsRefused, Signed!Honoured
  <2> QED
    BY DEF SessionInv, SessionType, TokensAreNamed, Named
<1>5. Inv => SessionsEnd
  BY <1>3, <1>4 DEF SessionsEnd, Signed!SessionsEnd
<1> QED
  BY <1>1, <1>2, <1>5, PTL DEF MCSpec

-----------------------------------------------------------------------------
(* Vendors.                                                                *)

(* The variables of Vendors, by what they are there.                       *)
hopOf == s1
rayCarried == s2
madeUp == s3
outcome == s4
letBy == s5
logged == s6

(* Where a request may be, in the order it gets there.                     *)
HopNames == {"edge", "worker", "module", "fetch", "bigip", "nginx"}
Position == [edge |-> 1, worker |-> 2, module |-> 3, fetch |-> 4, bigip |-> 5, nginx |-> 6,
             application |-> 7, nowhere |-> 7]

LoggedAt(r, hop) == \E f \in logged : f.of = r /\ f.hop = hop

(* The id of a ray the request carries is that of a row which was logged.  *)
KnownRay(r, id) ==
    \E hop \in {"edge", "fetch"} : id = {<<r, hop>>} /\ LoggedAt(r, hop)

(* What the event of each hop says, but for its verdict.                   *)
TellsItsHop(e) ==
    LET r == e.of
        from(feed, vendor) == e.feed = feed /\ e.vendor = vendor
        client == {<<r, "client">>}
    IN  \/ /\ e.hop = "edge" /\ from("cloudflare", "cloudflare")
           /\ e.id = {<<r, "edge">>} /\ e.linked = {} /\ e.address = client
        \/ /\ e.hop = "worker" /\ from("cloudflare", "datadome")
           /\ e.id = {<<r, "edge">>} /\ e.linked = {} /\ e.address = {}
        \/ /\ e.hop = "fetch" /\ from("cloudflare", "cloudflare")
           /\ e.id = {<<r, "fetch">>} /\ e.linked = {<<r, "edge">>} /\ e.address = client
        \/ /\ e.hop = "module" /\ from("datadome", "datadome")
           /\ e.id = {<<r, "module">>} /\ e.linked = {} /\ e.address = client
        \/ /\ e.hop = "bigip" /\ from("f5", "f5")
           /\ e.id = {<<r, "support">>} \/ KnownRay(r, e.id)
           /\ e.linked = {} /\ e.address = IF madeUp[r] THEN {<<"colo">>} ELSE client
        \/ /\ e.hop = "nginx" /\ from("nginx", "nginx")
           /\ KnownRay(r, e.id) /\ e.linked = {} /\ e.address \subseteq client

TripType ==
    /\ hopOf \in [Visits -> DOMAIN Position]
    /\ madeUp \in [Visits -> BOOLEAN]
    /\ DOMAIN rayCarried = Visits
    /\ outcome \in [Visits -> {"open", "answered", "refused"}]
    /\ \A e \in logged : e.of \in Visits /\ e.hop \in HopNames
    /\ \A x \in letBy : \E r \in Visits, hop \in HopNames : x = <<r, hop>>

(* A request has left the hops it was logged at, each of them once.        *)
BehindIt ==
    /\ \A e \in logged : Position[e.hop] < Position[hopOf[e.of]]
    /\ \A e, f \in logged : e.of = f.of /\ e.hop = f.hop => e = f
    /\ \A r \in Visits, hop \in HopNames : <<r, hop>> \in letBy => Position[hop] < Position[hopOf[r]]

(* Past the edge it has been logged there, and carries a ray of its own.   *)
Carries ==
    \A r \in Visits : hopOf[r] # "edge" =>
        /\ LoggedAt(r, "edge")
        /\ \E hop \in {"edge", "fetch"} :
              rayCarried[r] = {[ray |-> <<r, hop>>, place |-> "SOF"]} /\ LoggedAt(r, hop)

LastOf(e) == \A f \in logged : ~Trip!Before(e, f)

Verdicts ==
    /\ \A r \in Visits : hopOf[r] \in HopNames => outcome[r] = "open"
    /\ \A e \in logged :
          /\ e.verdict \in {"blocked", "rate_limited"} => outcome[e.of] = "refused" /\ LastOf(e)
          /\ outcome[e.of] = "refused" /\ LastOf(e) => e.verdict \in Trip!Refusals \cup {"unknown"}
          /\ e.verdict = "monitored" <=> <<e.of, e.hop>> \in letBy

TripInv == TripType /\ (\A e \in logged : TellsItsHop(e)) /\ BehindIt /\ Carries /\ Verdicts

LEMMA BeforeIsEarlier ==
    ASSUME NEW e, NEW f, e.hop \in HopNames, f.hop \in HopNames
    PROVE  Trip!Before(e, f) <=> e.of = f.of /\ Position[e.hop] < Position[f.hop]
<1>1. DOMAIN Trip!Hops = 1..6
  BY DEF Trip!Hops
<1>2. /\ Trip!Hops[1] = "edge" /\ Trip!Hops[2] = "worker" /\ Trip!Hops[3] = "module" /\ Trip!Hops[4] = "fetch"
      /\ Trip!Hops[5] = "bigip" /\ Trip!Hops[6] = "nginx"
  BY DEF Trip!Hops
<1>3. \A hop \in HopNames : Position[hop] \in 1..6 /\ Trip!Hops[Position[hop]] = hop
  BY <1>2 DEF HopNames, Position
<1>4. \A i \in 1..6 : Trip!Hops[i] \in HopNames /\ Position[Trip!Hops[i]] = i
  <2> SUFFICES ASSUME NEW i \in 1..6 PROVE Trip!Hops[i] \in HopNames /\ Position[Trip!Hops[i]] = i
    OBVIOUS
  <2>1. i = 1 \/ i = 2 \/ i = 3 \/ i = 4 \/ i = 5 \/ i = 6
    OBVIOUS
  <2> QED
    BY <1>2, <2>1 DEF HopNames, Position
<1> QED
  BY <1>1, <1>3, <1>4 DEF Trip!Before

LEMMA TripInit == ASSUME Trip!Init PROVE TripInv
BY DEF hopOf, rayCarried, madeUp, outcome, letBy, logged, Trip!Init, TripInv, TripType,
    BehindIt, Carries, Verdicts, HopNames, Position

(* Every action logs one event of the hop the request leaves.              *)
LEMMA TripLeaves ==
    ASSUME TripInv, NEW r \in Visits, NEW e, NEW next, NEW how, NEW against \in BOOLEAN,
           hopOf[r] \in HopNames, e.of = r, e.hop = hopOf[r], logged' = logged \cup {e}, TellsItsHop(e)',
           hopOf' = [hopOf EXCEPT ![r] = next], next \in DOMAIN Position, Position[hopOf[r]] < Position[next],
           outcome' = [outcome EXCEPT ![r] = how], how \in {"open", "answered", "refused"},
           next \in HopNames => how = "open",
           letBy' = IF against THEN letBy \cup {<<r, hopOf[r]>>} ELSE letBy,
           e.verdict = "monitored" <=> against,
           e.verdict \in {"blocked", "rate_limited"} => how = "refused",
           how = "refused" => e.verdict \in Trip!Refusals \cup {"unknown"},
           UNCHANGED madeUp, DOMAIN rayCarried' = Visits,
           \A q \in Visits \ {r} : rayCarried'[q] = rayCarried[q],
           \E hop \in {"edge", "fetch"} :
               rayCarried'[r] = {[ray |-> <<r, hop>>, place |-> "SOF"]} /\ LoggedAt(r, hop)',
           LoggedAt(r, "edge")'
    PROVE  TripInv'
<1> USE DEF hopOf, rayCarried, madeUp, outcome, letBy, logged
<1> USE DEF TripInv
<1>1. TripType'
  BY DEF TripType
<1>2. \A q, hop : LoggedAt(q, hop) => LoggedAt(q, hop)'
  BY DEF LoggedAt
<1>3. (\A f \in logged : TellsItsHop(f))'
  <2>1. \A f \in logged : TellsItsHop(f)'
    BY <1>2 DEF TellsItsHop, KnownRay
  <2> QED
    BY <2>1
<1>4. \A hop \in HopNames : Position[hop] \in Nat /\ Position[next] \in Nat
  BY DEF HopNames, Position
<1>5. BehindIt'
  <2>1. /\ hopOf'[r] = next /\ \A q \in Visits \ {r} : hopOf'[q] = hopOf[q]
        /\ Position[next] \in Nat /\ \A q \in Visits : Position[hopOf[q]] \in Nat
    BY DEF TripType, Position
  <2>2. (\A f \in logged : Position[f.hop] < Position[hopOf[f.of]])'
    BY <1>4, <2>1 DEF TripType, BehindIt
  <2>3. \A f \in logged : f.of = r => f.hop # hopOf[r]
    BY <1>4, <2>1 DEF TripType, BehindIt
  <2>4. (\A f, g \in logged : f.of = g.of /\ f.hop = g.hop => f = g)'
    BY <2>3 DEF BehindIt
  <2>5. ASSUME NEW q \in Visits, NEW hop \in HopNames, <<q, hop>> \in letBy'
        PROVE  Position[hop] < Position[hopOf'[q]]
    <3>1. CASE <<q, hop>> \in letBy
      <4>1. Position[hop] < Position[hopOf[q]]
        BY <3>1 DEF BehindIt
      <4>2. CASE q = r
        BY <1>4, <2>1, <4>1, <4>2
      <4>3. CASE q # r
        BY <2>1, <4>1, <4>3
      <4> QED
        BY <4>2, <4>3
    <3>2. CASE <<q, hop>> \notin letBy
      <4>1. <<q, hop>> = <<r, hopOf[r]>>
        BY <2>5, <3>2
      <4>2. q = r /\ hop = hopOf[r]
        BY <4>1
      <4> QED
        BY <2>1, <4>2
    <3> QED
      BY <3>1, <3>2
  <2> QED
    BY <2>2, <2>4, <2>5 DEF BehindIt
<1>6. Carries'
  <2>1. \A q \in Visits \ {r} : hopOf'[q] = hopOf[q]
    BY DEF TripType
  <2> QED
    BY <1>2, <2>1 DEF Carries
<1>7. Verdicts'
  <2>1. /\ hopOf'[r] = next /\ outcome'[r] = how
        /\ \A q \in Visits \ {r} : hopOf'[q] = hopOf[q] /\ outcome'[q] = outcome[q]
    BY DEF TripType
  <2>2. \A f \in logged : f.of = r => Position[f.hop] < Position[hopOf[r]] /\ f.hop \in HopNames
    BY DEF BehindIt, TripType
  <2>3. \A f \in logged : f.of = r => Trip!Before(f, e) /\ ~Trip!Before(e, f) /\ ~Trip!Before(e, e)
    BY <1>4, <2>2, BeforeIsEarlier
  <2>4. \A f \in logged : f.of # r => ~Trip!Before(f, e) /\ ~Trip!Before(e, f)
    BY DEF Trip!Before
  <2>5. ~Trip!Before(e, e)
    BY <1>4, BeforeIsEarlier
  <2>6. LastOf(e)'
    BY <2>3, <2>4, <2>5 DEF LastOf, Trip!Before
  <2>7. \A f \in logged : f.of = r => ~LastOf(f)'
    BY <2>3 DEF LastOf, Trip!Before
  <2>8. \A f \in logged : f.of # r => (LastOf(f)' <=> LastOf(f))
    BY <2>4 DEF LastOf, Trip!Before
  <2>9. outcome[r] = "open"
    BY DEF Verdicts
  <2>10. \A f \in logged : f.of = r => f.verdict \notin {"blocked", "rate_limited"}
    BY <2>9 DEF Verdicts
  <2>11. \A f \in logged : <<f.of, f.hop>> \in letBy' <=> <<f.of, f.hop>> \in letBy
    BY <1>4, <2>2
  <2>12. <<r, hopOf[r]>> \notin letBy
    BY <1>4 DEF BehindIt
  <2>13. \A q \in Visits : hopOf'[q] \in HopNames => outcome'[q] = "open"
    BY <2>1 DEF Verdicts
  <2>14. ASSUME NEW f \in logged'
         PROVE  /\ f.verdict \in {"blocked", "rate_limited"} => outcome'[f.of] = "refused" /\ LastOf(f)'
                /\ outcome'[f.of] = "refused" /\ LastOf(f)' => f.verdict \in Trip!Refusals \cup {"unknown"}
                /\ f.verdict = "monitored" <=> <<f.of, f.hop>> \in letBy'
    <3>1. CASE f = e
      BY <2>1, <2>6, <2>12, <3>1
    <3>2. CASE f \in logged /\ f.of = r
      BY <2>7, <2>10, <2>11, <3>2 DEF Verdicts
    <3>3. CASE f \in logged /\ f.of # r
      BY <2>1, <2>8, <2>11, <3>3 DEF Verdicts, TripType
    <3> QED
      BY <2>14, <3>1, <3>2, <3>3
  <2>15. (\A f \in logged :
            /\ f.verdict \in {"blocked", "rate_limited"} => outcome[f.of] = "refused" /\ LastOf(f)
            /\ outcome[f.of] = "refused" /\ LastOf(f) => f.verdict \in Trip!Refusals \cup {"unknown"}
            /\ f.verdict = "monitored" <=> <<f.of, f.hop>> \in letBy)'
    BY <2>14 DEF Trip!Refusals
  <2> QED
    BY <2>13, <2>15 DEF Verdicts
<1> QED
  BY <1>1, <1>3, <1>5, <1>6, <1>7

(* The hops in the order they may be gone through.                         *)
LEMMA HopsOnTheWay ==
    /\ \A hop \in HopNames : Position[hop] \in 1..6 /\ hop \in DOMAIN Position
    /\ Position["application"] = 7 /\ Position["nowhere"] = 7
    /\ {"application", "nowhere"} \subseteq DOMAIN Position \ HopNames
    /\ DOMAIN Position = HopNames \cup {"application", "nowhere"}
BY DEF HopNames, Position

(* A verdict of a hop's table.                                             *)
LEMMA TableVerdicts ==
    /\ \A word \in DOMAIN Trip!SecurityActionVerdict \cup {"new"} :
          /\ Trip!Said(Trip!SecurityActionVerdict, word) = "monitored" <=> word = "log"
          /\ Trip!Said(Trip!SecurityActionVerdict, word) \in {"blocked", "rate_limited"} <=> word \in {"block", "ratelimit"}
          /\ word \in {"block", "managedchallenge", "ratelimit", "new"}
                => Trip!Said(Trip!SecurityActionVerdict, word) \in Trip!Refusals \cup {"unknown"}
    /\ \A word \in DOMAIN Trip!RequestStatusVerdict \cup {"new"} :
          /\ Trip!Said(Trip!RequestStatusVerdict, word) = "monitored" <=> word = "alerted"
          /\ Trip!Said(Trip!RequestStatusVerdict, word) # "rate_limited"
          /\ Trip!Said(Trip!RequestStatusVerdict, word) = "blocked" <=> word = "blocked"
          /\ word = "new" => Trip!Said(Trip!RequestStatusVerdict, word) = "unknown"
    /\ \A word \in DOMAIN Trip!ActionVerdict \cup {"new"} :
          /\ Trip!Said(Trip!ActionVerdict, word) = "monitored" <=> word = "monitor"
          /\ Trip!Said(Trip!ActionVerdict, word) \in {"blocked", "rate_limited"} <=> word \in {"block", "ratelimit"}
          /\ word \in {"block", "captcha", "ratelimit", "new"}
                => Trip!Said(Trip!ActionVerdict, word) \in Trip!Refusals \cup {"unknown"}
BY DEF Trip!SecurityActionVerdict, Trip!RequestStatusVerdict, Trip!ActionVerdict,
    Trip!Said, Trip!Refusals

(* A hop that logs what it saw and refuses the request or passes it on.    *)
LEMMA TripMoves ==
    ASSUME TripInv, NEW r \in Visits, NEW e, NEW refused \in BOOLEAN, NEW next,
           NEW against \in BOOLEAN, Trip!Move(r, refused, next, against),
           hopOf[r] \in HopNames, e.of = r, e.hop = hopOf[r], logged' = logged \cup {e}, TellsItsHop(e)',
           next \in DOMAIN Position, Position[hopOf[r]] < Position[next],
           e.verdict = "monitored" <=> against,
           e.verdict \in {"blocked", "rate_limited"} => refused,
           refused => e.verdict \in Trip!Refusals \cup {"unknown"},
           UNCHANGED madeUp,
           \/ hopOf[r] \in {"edge", "fetch"} /\ Trip!Carry(r, hopOf[r])
           \/ hopOf[r] # "edge" /\ UNCHANGED rayCarried
    PROVE  TripInv'
<1> USE DEF hopOf, rayCarried, madeUp, outcome, letBy, logged
<1> DEFINE onward == IF refused THEN "nowhere" ELSE next
           how == IF refused THEN "refused" ELSE "open"
<1>1. /\ hopOf' = [hopOf EXCEPT ![r] = onward] /\ outcome' = [outcome EXCEPT ![r] = how]
      /\ letBy' = IF against THEN letBy \cup {<<r, hopOf[r]>>} ELSE letBy
  BY DEF Trip!Move
<1>2. onward \in DOMAIN Position /\ Position[hopOf[r]] < Position[onward]
  BY HopsOnTheWay
<1>3. (onward \in HopNames => how = "open") /\ how \in {"open", "answered", "refused"}
  BY DEF HopNames
<1>4. \A q, hop : LoggedAt(q, hop) => LoggedAt(q, hop)'
  BY DEF LoggedAt
<1>5. \A hop : hop = hopOf[r] => LoggedAt(r, hop)'
  BY DEF LoggedAt
<1>6. hopOf[r] # "edge" => LoggedAt(r, "edge")
  BY DEF TripInv, Carries
<1>7. LoggedAt(r, "edge")'
  BY <1>4, <1>5, <1>6
<1>8. /\ DOMAIN rayCarried' = Visits /\ \A q \in Visits \ {r} : rayCarried'[q] = rayCarried[q]
      /\ \E hop \in {"edge", "fetch"} :
             rayCarried'[r] = {[ray |-> <<r, hop>>, place |-> "SOF"]} /\ LoggedAt(r, hop)'
  <2>1. DOMAIN rayCarried = Visits
    BY DEF TripInv, TripType
  <2>2. CASE hopOf[r] \in {"edge", "fetch"} /\ Trip!Carry(r, hopOf[r])
    <3>1. PICK hop \in {"edge", "fetch"} : hop = hopOf[r]
      BY <2>2
    <3>2. rayCarried' = [rayCarried EXCEPT ![r] = {[ray |-> <<r, hop>>, place |-> "SOF"]}]
      BY <2>2, <3>1 DEF Trip!Carry
    <3>3. LoggedAt(r, hop)'
      BY <1>5, <3>1
    <3> QED
      BY <2>1, <3>2, <3>3
  <2>3. CASE hopOf[r] # "edge" /\ UNCHANGED rayCarried
    BY <1>4, <2>1, <2>3 DEF TripInv, Carries
  <2> QED
    BY <2>2, <2>3
<1>9. how = "refused" <=> refused
  OBVIOUS
<1> HIDE DEF onward, how
<1> QED
  BY <1>1, <1>2, <1>3, <1>7, <1>8, <1>9, TripLeaves

LEMMA EdgeStep == ASSUME TripInv, NEW r \in Visits, Trip!Edge(r) PROVE TripInv'
<1> USE DEF hopOf, rayCarried, madeUp, outcome, letBy, logged
<1>1. PICK action \in DOMAIN Trip!SecurityActionVerdict \cup {"new"}, next \in {"worker", "module", "bigip"} :
         /\ Trip!Log(Trip!EdgeRow(r, "edge", <<"00">>, action))
         /\ \E refused \in Trip!Enforced(action, {"block", "managedchallenge", "ratelimit"}) :
               Trip!Move(r, refused, next, action = "log")
  BY DEF Trip!Edge, Trip!May, Trip!SecurityActionVerdict
<1>2. PICK refused \in BOOLEAN :
         /\ refused \in Trip!Enforced(action, {"block", "managedchallenge", "ratelimit"})
         /\ Trip!Move(r, refused, next, action = "log")
  BY <1>1 DEF Trip!Enforced
<1> DEFINE e == Trip!Normalize(Trip!EdgeRow(r, "edge", <<"00">>, action))
<1>3. /\ e.feed = "cloudflare" /\ e.vendor = "cloudflare" /\ e.of = r /\ e.hop = "edge"
      /\ e.id = {<<r, "edge">>} /\ e.linked = {} /\ e.address = {<<r, "client">>}
      /\ e.verdict = Trip!Said(Trip!SecurityActionVerdict, action)
  BY DEF Trip!EdgeRow, Trip!Normalize, Trip!CloudflareEvent, Trip!IsDataDomeCall,
      Trip!ParentRay, Trip!Event
<1>4. logged' = logged \cup {e}
  BY <1>1 DEF Trip!Log
<1> HIDE DEF e
<1>5. hopOf[r] = "edge" /\ Trip!Carry(r, "edge") /\ madeUp' = madeUp
  BY DEF Trip!Edge
<1>6. TellsItsHop(e)'
  BY <1>3 DEF TellsItsHop
<1>7. Position[hopOf[r]] < Position[next] /\ next \in DOMAIN Position /\ hopOf[r] \in HopNames
  BY <1>5 DEF Position, HopNames
<1>8. /\ e.verdict = "monitored" <=> action = "log"
      /\ e.verdict \in {"blocked", "rate_limited"} => refused
      /\ refused => e.verdict \in Trip!Refusals \cup {"unknown"}
  BY <1>2, <1>3, TableVerdicts DEF Trip!Enforced
<1> QED
  BY <1>2, <1>3, <1>4, <1>5, <1>6, <1>7, <1>8, TripMoves

LEMMA AskDataDomeStep == ASSUME TripInv, NEW r \in Visits, Trip!AskDataDome(r) PROVE TripInv'
<1> USE DEF hopOf, rayCarried, madeUp, outcome, letBy, logged
<1>0. PICK status \in Trip!May(r, {0, 200, 403}, {200}),
           type \in Trip!May(r, Trip!Objecting \cup {"authorize", "none"}, {"authorize"}) :
         /\ status = 0 => type = "none"
         /\ status = 403 => type # "authorize"
         /\ Trip!Log([feed |-> "cloudflare", of |-> r, hop |-> "worker", host |-> "datadome",
                 ray |-> <<r, "call">>, parent |-> <<r, "edge">>, client |-> {<<"worker">>},
                 action |-> "none", status |-> status, type |-> type])
         /\ Trip!Move(r, status = 403, "fetch", status = 200 /\ type \in Trip!Objecting)
  BY DEF Trip!AskDataDome
<1>1. status \in {0, 200, 403} /\ type \in Trip!Objecting \cup {"authorize", "none"}
  BY DEF Trip!May
<1> DEFINE line == [feed |-> "cloudflare", of |-> r, hop |-> "worker", host |-> "datadome",
                   ray |-> <<r, "call">>, parent |-> <<r, "edge">>, client |-> {<<"worker">>},
                   action |-> "none", status |-> status, type |-> type]
           e == Trip!Normalize(line)
<1>2. <<r, "edge">> # <<"00">>
  OBVIOUS
<1>3. /\ e.feed = "cloudflare" /\ e.vendor = "datadome" /\ e.of = r /\ e.hop = "worker"
      /\ e.id = {<<r, "edge">>} /\ e.linked = {} /\ e.address = {}
      /\ e.verdict = Trip!DataDomeVerdict(status, type)
  BY <1>2 DEF Trip!Normalize, Trip!CloudflareEvent, Trip!IsDataDomeCall, Trip!ParentRay,
      Trip!Event
<1>4. logged' = logged \cup {e}
  BY <1>0 DEF Trip!Log
<1> HIDE DEF e
<1>5. hopOf[r] = "worker" /\ rayCarried' = rayCarried /\ madeUp' = madeUp
  BY DEF Trip!AskDataDome
<1>6. TellsItsHop(e)'
  BY <1>3 DEF TellsItsHop
<1>7. Position[hopOf[r]] < Position["fetch"] /\ "fetch" \in DOMAIN Position /\ hopOf[r] \in HopNames
  BY <1>5 DEF Position, HopNames
<1>8. /\ e.verdict = "monitored" <=> status = 200 /\ type \in Trip!Objecting
      /\ e.verdict \in {"blocked", "rate_limited"} => status = 403
      /\ status = 403 => e.verdict \in Trip!Refusals \cup {"unknown"}
  BY <1>0, <1>1, <1>3 DEF Trip!DataDomeVerdict, Trip!Refusals, Trip!Objecting
<1> DEFINE refused == status = 403
           against == status = 200 /\ type \in Trip!Objecting
<1>9. refused \in BOOLEAN /\ against \in BOOLEAN /\ Trip!Move(r, refused, "fetch", against)
  BY <1>0
<1> QED
  BY <1>3, <1>4, <1>5, <1>6, <1>7, <1>8, <1>9, TripMoves

LEMMA FetchOriginStep == ASSUME TripInv, NEW r \in Visits, Trip!FetchOrigin(r) PROVE TripInv'
<1> USE DEF hopOf, rayCarried, madeUp, outcome, letBy, logged
<1> DEFINE e == Trip!Normalize(Trip!EdgeRow(r, "fetch", <<r, "edge">>, "none"))
<1>2. <<r, "edge">> # <<"00">>
  OBVIOUS
<1>3. /\ e.feed = "cloudflare" /\ e.vendor = "cloudflare" /\ e.of = r /\ e.hop = "fetch"
      /\ e.id = {<<r, "fetch">>} /\ e.linked = {<<r, "edge">>} /\ e.address = {<<r, "client">>}
      /\ e.verdict = "allowed"
  BY <1>2 DEF Trip!EdgeRow, Trip!Normalize, Trip!CloudflareEvent, Trip!IsDataDomeCall,
      Trip!ParentRay, Trip!Event, Trip!Said, Trip!SecurityActionVerdict
<1>4. logged' = logged \cup {e}
  BY DEF Trip!Log, Trip!FetchOrigin
<1> HIDE DEF e
<1>5. hopOf[r] = "fetch" /\ Trip!Carry(r, "fetch") /\ madeUp' = madeUp /\ Trip!Move(r, FALSE, "bigip", FALSE)
  BY DEF Trip!FetchOrigin
<1>6. TellsItsHop(e)'
  BY <1>3 DEF TellsItsHop
<1>7. Position[hopOf[r]] < Position["bigip"] /\ "bigip" \in DOMAIN Position /\ hopOf[r] \in HopNames
  BY <1>5 DEF Position, HopNames
<1>8. e.verdict # "monitored" /\ e.verdict \notin {"blocked", "rate_limited"}
  BY <1>3
<1> QED
  BY <1>3, <1>4, <1>5, <1>6, <1>7, <1>8, TripMoves

LEMMA AskModuleStep == ASSUME TripInv, NEW r \in Visits, Trip!AskModule(r) PROVE TripInv'
<1> USE DEF hopOf, rayCarried, madeUp, outcome, letBy, logged
<1>1. PICK action \in DOMAIN Trip!ActionVerdict \cup {"none", "new"}, bot \in BOOLEAN :
         /\ bot => action = "none"
         /\ Trip!Log([feed |-> "datadome", of |-> r, hop |-> "module", request |-> <<r, "module">>,
                 client |-> {<<r, "client">>}, action |-> action, bot |-> bot])
         /\ \E refused \in Trip!Enforced(action, {"block", "captcha", "ratelimit"}) :
               Trip!Move(r, refused, "bigip", action = "monitor" \/ bot)
  BY DEF Trip!AskModule
<1>2. PICK refused \in BOOLEAN :
         /\ refused \in Trip!Enforced(action, {"block", "captcha", "ratelimit"})
         /\ Trip!Move(r, refused, "bigip", action = "monitor" \/ bot)
  BY <1>1 DEF Trip!Enforced
<1> DEFINE line == [feed |-> "datadome", of |-> r, hop |-> "module", request |-> <<r, "module">>,
                   client |-> {<<r, "client">>}, action |-> action, bot |-> bot]
           e == Trip!Normalize(line)
<1>3. /\ e.feed = "datadome" /\ e.vendor = "datadome" /\ e.of = r /\ e.hop = "module"
      /\ e.id = {<<r, "module">>} /\ e.linked = {} /\ e.address = {<<r, "client">>}
      /\ e.verdict = Trip!ModuleVerdict(line)
  BY DEF Trip!Normalize, Trip!ModuleEvent, Trip!Event
<1>4. logged' = logged \cup {e}
  BY <1>1 DEF Trip!Log
<1>5. e.verdict = IF action # "none" THEN Trip!Said(Trip!ActionVerdict, action)
                  ELSE IF bot THEN "monitored" ELSE "allowed"
  BY <1>3 DEF Trip!ModuleVerdict
<1> HIDE DEF e
<1>6. hopOf[r] = "module" /\ rayCarried' = rayCarried /\ madeUp' = madeUp
  BY DEF Trip!AskModule
<1>7. TellsItsHop(e)'
  BY <1>3 DEF TellsItsHop
<1>8. Position[hopOf[r]] < Position["bigip"] /\ "bigip" \in DOMAIN Position /\ hopOf[r] \in HopNames
  BY <1>6 DEF Position, HopNames
<1> DEFINE against == action = "monitor" \/ bot
<1>9. /\ e.verdict = "monitored" <=> against
      /\ e.verdict \in {"blocked", "rate_limited"} => refused
      /\ refused => e.verdict \in Trip!Refusals \cup {"unknown"}
  <2>1. CASE action = "none"
    BY <1>2, <1>5, <2>1 DEF Trip!Enforced
  <2>2. CASE action # "none"
    <3>1. action \in DOMAIN Trip!ActionVerdict \cup {"new"} /\ ~bot
      BY <1>1, <2>2
    <3> QED
      BY <1>2, <1>5, <2>2, <3>1, TableVerdicts DEF Trip!Enforced
  <2> QED
    BY <2>1, <2>2
<1>10. against \in BOOLEAN /\ Trip!Move(r, refused, "bigip", against)
  BY <1>2
<1> QED
  BY <1>3, <1>4, <1>6, <1>7, <1>8, <1>9, <1>10, TripMoves

(* The header holds one ray.                                               *)
LEMMA RayOfOne == \A ray : Trip!RayOfHeader({[ray |-> ray, place |-> "SOF"]}) = {ray}
BY DEF Trip!RayOfHeader

LEMMA BigIPStep == ASSUME TripInv, NEW r \in Visits, Trip!BigIP(r) PROVE TripInv'
<1> USE DEF hopOf, rayCarried, madeUp, outcome, letBy, logged
<1>1. PICK status \in DOMAIN Trip!RequestStatusVerdict \cup {"new"}, rate \in BOOLEAN, cut \in BOOLEAN :
         /\ rate => status = "blocked"
         /\ Trip!Log([feed |-> "f5", of |-> r, hop |-> "bigip", support |-> <<r, "support">>,
                 header |-> IF cut THEN {} ELSE rayCarried[r],
                 connecting |-> IF cut THEN {} ELSE Trip!HandedOn(r),
                 forwarded |-> Trip!HandedOn(r), peer |-> {<<"colo">>}, status |-> status, rate |-> rate])
         /\ \E refused \in Trip!Enforced(status, {"blocked"}) :
               Trip!Move(r, refused, "nginx", status = "alerted")
  <2>1. /\ Trip!May(r, DOMAIN Trip!RequestStatusVerdict \cup {"new"}, {"passed"})
              \subseteq DOMAIN Trip!RequestStatusVerdict \cup {"new"}
        /\ Trip!May(r, BOOLEAN, {FALSE}) \subseteq BOOLEAN
    BY DEF Trip!May, Trip!RequestStatusVerdict
  <2> QED
    BY <2>1 DEF Trip!BigIP
<1>2. PICK refused \in BOOLEAN :
         /\ refused \in Trip!Enforced(status, {"blocked"})
         /\ Trip!Move(r, refused, "nginx", status = "alerted")
  BY <1>1 DEF Trip!Enforced
<1> DEFINE line == [feed |-> "f5", of |-> r, hop |-> "bigip", support |-> <<r, "support">>,
                   header |-> IF cut THEN {} ELSE rayCarried[r],
                   connecting |-> IF cut THEN {} ELSE Trip!HandedOn(r),
                   forwarded |-> Trip!HandedOn(r), peer |-> {<<"colo">>}, status |-> status, rate |-> rate]
<1>0. PICK e : e = Trip!Normalize(line)
  OBVIOUS
<1>3. /\ e.feed = "f5" /\ e.vendor = "f5" /\ e.of = r /\ e.hop = "bigip" /\ e.linked = {}
      /\ e.id = Trip!FirstOf(Trip!RayOfHeader(line.header), {<<r, "support">>}, {})
      /\ e.address = Trip!BigIPAddress(line) /\ e.verdict = Trip!BigIPVerdict(line)
  BY <1>0 DEF Trip!Normalize, Trip!BigIPEvent, Trip!Event
<1>4. logged' = logged \cup {e}
  BY <1>0, <1>1 DEF Trip!Log
<1>5. e.verdict = IF status = "blocked" /\ rate THEN "rate_limited"
                  ELSE Trip!Said(Trip!RequestStatusVerdict, status)
  BY <1>3 DEF Trip!BigIPVerdict
<1>6. hopOf[r] = "bigip" /\ rayCarried' = rayCarried /\ madeUp' = madeUp
  BY DEF Trip!BigIP
<1>7. e.id = {<<r, "support">>} \/ KnownRay(r, e.id)
  <2>1. PICK hop \in {"edge", "fetch"} :
           rayCarried[r] = {[ray |-> <<r, hop>>, place |-> "SOF"]} /\ LoggedAt(r, hop)
    BY <1>6 DEF TripInv, Carries
  <2>2. CASE cut
    BY <1>3, <2>2 DEF Trip!RayOfHeader, Trip!FirstOf
  <2>3. CASE ~cut
    <3>1. line.header = {[ray |-> <<r, hop>>, place |-> "SOF"]}
      BY <2>1, <2>3
    <3>2. e.id = {<<r, hop>>}
      BY <1>3, <3>1, RayOfOne DEF Trip!FirstOf
    <3> QED
      BY <2>1, <3>2 DEF KnownRay
  <2> QED
    BY <2>2, <2>3
<1>8. e.address = IF madeUp[r] THEN {<<"colo">>} ELSE {<<r, "client">>}
  <2>1. <<r, "client">> # <<"colo">> /\ <<r, "client">> # <<"pseudo">> /\ <<r, "client">> # <<"lan">>
    OBVIOUS
  <2>2. Trip!Routable(Trip!HandedOn(r)) = IF madeUp[r] THEN {} ELSE {<<r, "client">>}
    BY <2>1 DEF Trip!Routable, Trip!HandedOn
  <2>3. e.address = Trip!FirstOf(Trip!Routable(IF cut THEN {} ELSE Trip!HandedOn(r)),
                            Trip!Routable(Trip!HandedOn(r)) \ {<<"colo">>}, {<<"colo">>})
    BY <1>3 DEF Trip!BigIPAddress
  <2>4. Trip!Routable({}) = {}
    BY DEF Trip!Routable
  <2> QED
    BY <2>1, <2>2, <2>3, <2>4 DEF Trip!FirstOf
<1>9. TellsItsHop(e)'
  <2>1. KnownRay(r, e.id) => KnownRay(r, e.id)'
    BY <1>4 DEF KnownRay, LoggedAt
  <2>2. (e.id = {<<r, "support">>} \/ KnownRay(r, e.id))'
    BY <1>7, <2>1
  <2>3. (e.address = IF madeUp[r] THEN {<<"colo">>} ELSE {<<r, "client">>})'
    BY <1>6, <1>8
  <2> QED
    BY <1>3, <2>2, <2>3 DEF TellsItsHop
<1>10. Position[hopOf[r]] < Position["nginx"] /\ "nginx" \in DOMAIN Position /\ hopOf[r] \in HopNames
  BY <1>6 DEF Position, HopNames
<1> DEFINE against == status = "alerted"
<1>11. /\ e.verdict = "monitored" <=> against
       /\ e.verdict \in {"blocked", "rate_limited"} => refused
       /\ refused => e.verdict \in Trip!Refusals \cup {"unknown"}
  BY <1>2, <1>5, TableVerdicts DEF Trip!Enforced, Trip!Refusals
<1>12. against \in BOOLEAN /\ Trip!Move(r, refused, "nginx", against)
  BY <1>2
<1> QED
  BY <1>3, <1>4, <1>6, <1>9, <1>10, <1>11, <1>12, TripMoves

LEMMA NginxStep == ASSUME TripInv, NEW r \in Visits, Trip!Nginx(r) PROVE TripInv'
<1> USE DEF hopOf, rayCarried, madeUp, outcome, letBy, logged
<1>1. PICK upstream \in Trip!May(r, BOOLEAN, {TRUE}), status \in Trip!May(r, {200, 403, 429, 503}, {200}),
           remote \in Trip!May(r, {<<r, "client">>, <<"lan">>}, {<<r, "client">>}) :
         /\ Trip!Log([feed |-> "nginx", of |-> r, hop |-> "nginx", header |-> rayCarried[r],
                 connecting |-> Trip!HandedOn(r), remote |-> {remote}, upstream |-> upstream,
                 status |-> status])
         /\ hopOf' = [hopOf EXCEPT ![r] = IF upstream THEN "application" ELSE "nowhere"]
         /\ outcome' = [outcome EXCEPT ![r] =
                         IF ~upstream /\ status \in {403, 429} THEN "refused" ELSE "answered"]
  BY DEF Trip!Nginx
<1>1a. /\ upstream \in BOOLEAN /\ status \in {200, 403, 429, 503}
       /\ remote \in {<<r, "client">>, <<"lan">>}
  BY DEF Trip!May
<1> DEFINE line == [feed |-> "nginx", of |-> r, hop |-> "nginx", header |-> rayCarried[r],
                   connecting |-> Trip!HandedOn(r), remote |-> {remote}, upstream |-> upstream,
                   status |-> status]
<1>0. PICK e : e = Trip!Normalize(line)
  OBVIOUS
<1>2. /\ e.feed = "nginx" /\ e.vendor = "nginx" /\ e.of = r /\ e.hop = "nginx" /\ e.linked = {}
      /\ e.id = Trip!RayOfHeader(rayCarried[r])
      /\ e.address = Trip!FirstOf(Trip!Routable(Trip!HandedOn(r)), Trip!Routable({remote}), {})
      /\ e.verdict = Trip!NginxVerdict(line)
  BY <1>0 DEF Trip!Normalize, Trip!NginxEvent, Trip!NginxAddress, Trip!Event
<1>3. logged' = logged \cup {e}
  BY <1>0, <1>1 DEF Trip!Log
<1>4. e.verdict = CASE upstream -> "allowed"
                    [] ~upstream /\ status = 403 -> "blocked"
                    [] ~upstream /\ status = 429 -> "rate_limited"
                    [] OTHER -> "allowed"
  BY <1>2 DEF Trip!NginxVerdict
<1>5. hopOf[r] = "nginx" /\ rayCarried' = rayCarried /\ madeUp' = madeUp /\ letBy' = letBy
  BY DEF Trip!Nginx
<1>6. PICK hop \in {"edge", "fetch"} :
         rayCarried[r] = {[ray |-> <<r, hop>>, place |-> "SOF"]} /\ LoggedAt(r, hop)
  BY <1>5 DEF TripInv, Carries
<1>7. e.id = {<<r, hop>>}
  <2>1. Trip!RayOfHeader(rayCarried[r]) = {<<r, hop>>}
    <3>1. Trip!RayOfHeader({[ray |-> <<r, hop>>, place |-> "SOF"]}) = {<<r, hop>>}
      BY RayOfOne
    <3> QED
      BY <1>6, <3>1
  <2> QED
    BY <1>2, <2>1
<1>8. e.address \subseteq {<<r, "client">>}
  BY <1>2, <1>1a DEF Trip!FirstOf, Trip!Routable, Trip!HandedOn
<1>9. \A q, h : LoggedAt(q, h) => LoggedAt(q, h)'
  BY <1>3 DEF LoggedAt
<1>10. TellsItsHop(e)'
  BY <1>2, <1>6, <1>7, <1>8, <1>9 DEF TellsItsHop, KnownRay
<1> DEFINE onward == IF upstream THEN "application" ELSE "nowhere"
           how == IF ~upstream /\ status \in {403, 429} THEN "refused" ELSE "answered"
<1>11. /\ hopOf[r] \in HopNames /\ onward \in DOMAIN Position /\ Position[hopOf[r]] < Position[onward]
       /\ onward \notin HopNames /\ how \in {"open", "answered", "refused"}
  BY <1>5 DEF Position, HopNames
<1>12. /\ e.verdict # "monitored"
       /\ e.verdict \in {"blocked", "rate_limited"} => how = "refused"
       /\ how = "refused" => e.verdict \in Trip!Refusals \cup {"unknown"}
  BY <1>4, <1>1a DEF Trip!Refusals
<1>13. hopOf' = [hopOf EXCEPT ![r] = onward] /\ outcome' = [outcome EXCEPT ![r] = how]
  BY <1>1
<1>14. /\ DOMAIN rayCarried' = Visits /\ \A q \in Visits \ {r} : rayCarried'[q] = rayCarried[q]
       /\ \E h \in {"edge", "fetch"} :
              rayCarried'[r] = {[ray |-> <<r, h>>, place |-> "SOF"]} /\ LoggedAt(r, h)'
  BY <1>5, <1>6, <1>9 DEF TripInv, TripType
<1>15. LoggedAt(r, "edge")'
  BY <1>5, <1>9 DEF TripInv, Carries
<1> HIDE DEF onward, how
<1>16. PICK against \in BOOLEAN : ~against
  OBVIOUS
<1>17. /\ against \in BOOLEAN /\ letBy' = IF against THEN letBy \cup {<<r, hopOf[r]>>} ELSE letBy
       /\ e.verdict = "monitored" <=> against
  BY <1>5, <1>12, <1>16
<1> QED
  BY <1>2, <1>3, <1>5, <1>10, <1>11, <1>12, <1>13, <1>14, <1>15, <1>17, TripLeaves

LEMMA TripSteps == ASSUME TripInv, Trip!Next PROVE TripInv'
BY EdgeStep, AskDataDomeStep, FetchOriginStep, AskModuleStep, BigIPStep, NginxStep DEF Trip!Next

(* What is told of a request is told by its identifiers: whose they are,   *)
(* which row's, and whose address they come with.                          *)
LEMMA LinkedAndTold == ASSUME TripInv PROVE Trip!HopsAreLinked /\ Trip!RowsAreTold /\ Trip!AddressIsTheClients
<1> USE DEF hopOf, rayCarried, madeUp, outcome, letBy, logged
<1> USE DEF TripInv
<1>1. \A e \in logged : e.of \in Visits /\ e.hop \in HopNames /\ TellsItsHop(e)
  BY DEF TripType
<1>2. \A e \in logged : \A x \in e.id \cup e.linked :
         \E name \in {"edge", "fetch", "module", "support"} : x = <<e.of, name>>
  BY <1>1 DEF TellsItsHop, KnownRay
<1>3. ASSUME NEW e \in logged, NEW f \in logged, Trip!Share(e, f) PROVE e.of = f.of
  <2>1. PICK x : x \in e.id \cup e.linked /\ x \in f.id \cup f.linked
    BY <1>3 DEF Trip!Share
  <2>2. PICK here, there : x = <<e.of, here>> /\ x = <<f.of, there>>
    BY <1>2, <2>1
  <2> QED
    BY <2>2
<1>4. ASSUME NEW e \in logged, e.hop # "edge", ~Trip!Nameless(e)
      PROVE  \E f \in logged : Trip!Before(f, e) /\ Trip!Share(e, f)
  <2>1. PICK hop \in {"edge", "fetch"} :
           LoggedAt(e.of, hop) /\ <<e.of, hop>> \in e.id \cup e.linked /\ Position[hop] < Position[e.hop]
    <3>1. LoggedAt(e.of, "edge")
      BY <1>1 DEF Carries, BehindIt, TripType, HopNames, Position
    <3>2. /\ Position["edge"] = 1 /\ Position["worker"] = 2 /\ Position["fetch"] = 4
          /\ Position["bigip"] = 5 /\ Position["nginx"] = 6
      BY DEF Position
    <3>3. CASE e.hop \in {"worker", "fetch"}
      <4>1. <<e.of, "edge">> \in e.id \cup e.linked
        BY <1>1, <3>3 DEF TellsItsHop
      <4> QED
        BY <3>1, <3>2, <3>3, <4>1
    <3>4. CASE e.hop \in {"bigip", "nginx"}
      <4>1. KnownRay(e.of, e.id)
        BY <1>1, <1>4, <3>4 DEF TellsItsHop, Trip!Nameless
      <4> QED
        BY <3>2, <3>4, <4>1 DEF KnownRay
    <3>5. e.hop # "module"
      BY <1>1, <1>4 DEF TellsItsHop, Trip!Nameless
    <3> QED
      BY <1>1, <1>4, <3>3, <3>4, <3>5 DEF HopNames
  <2>2. PICK f \in logged : f.of = e.of /\ f.hop = hop
    BY <2>1 DEF LoggedAt
  <2>3. Trip!Before(f, e)
    BY <1>1, <2>1, <2>2, BeforeIsEarlier
  <2>4. f.id = {<<e.of, hop>>}
    BY <1>1, <2>2 DEF TellsItsHop
  <2> QED
    BY <2>1, <2>3, <2>4 DEF Trip!Share
<1>5. Trip!HopsAreLinked
  BY <1>3, <1>4 DEF Trip!HopsAreLinked
<1>6. ASSUME NEW e \in logged, NEW f \in logged, Trip!EventIDFor(e) = Trip!EventIDFor(f) PROVE e = f
  <2>1. e.feed = f.feed /\ e.vendor = f.vendor /\ e.id = f.id
    BY <1>6 DEF Trip!EventIDFor
  <2>2. \E x : x \in e.id
    BY <1>1 DEF TellsItsHop, KnownRay
  <2>3. e.of = f.of
    BY <1>3, <2>1, <2>2 DEF Trip!Share
  <2>4. e.hop = f.hop
    <3>1. CASE e.feed = "cloudflare" /\ e.vendor = "cloudflare"
      <4>1. e.hop \in {"edge", "fetch"} /\ e.id = {<<e.of, e.hop>>}
        BY <1>1, <3>1 DEF TellsItsHop
      <4>2. f.hop \in {"edge", "fetch"} /\ f.id = {<<f.of, f.hop>>}
        BY <1>1, <2>1, <3>1 DEF TellsItsHop
      <4>3. <<e.of, e.hop>> = <<f.of, f.hop>>
        BY <2>1, <4>1, <4>2
      <4> QED
        BY <4>3
    <3>2. CASE ~(e.feed = "cloudflare" /\ e.vendor = "cloudflare")
      BY <1>1, <2>1, <3>2 DEF TellsItsHop
    <3> QED
      BY <3>1, <3>2
  <2> QED
    BY <2>3, <2>4 DEF BehindIt
<1>7. Trip!RowsAreTold
  BY <1>6 DEF Trip!RowsAreTold
<1>8. Trip!AddressIsTheClients
  BY <1>1 DEF Trip!AddressIsTheClients, TellsItsHop
<1> QED
  BY <1>5, <1>7, <1>8

LEMMA VerdictsAreTrue == ASSUME TripInv PROVE Trip!VerdictIsWhatHappened
BY DEF hopOf, rayCarried, madeUp, outcome, letBy, logged, TripInv, Verdicts, LastOf,
    Trip!VerdictIsWhatHappened

LEMMA TripStutters == ASSUME TripInv, UNCHANGED shared PROVE TripInv'
<1> USE DEF hopOf, rayCarried, madeUp, outcome, letBy, logged, TripInv
<1>1. UNCHANGED <<s1, s2, s3, s4, s5, s6>>
  BY DEF shared
<1>2. TripType'
  BY <1>1 DEF TripType
<1>3. BehindIt'
  BY <1>1 DEF BehindIt
<1>4. \A r, hop : LoggedAt(r, hop)' <=> LoggedAt(r, hop)
  BY <1>1 DEF LoggedAt
<1>5. Carries'
  BY <1>1, <1>4 DEF Carries
<1>6. Verdicts'
  BY <1>1 DEF Verdicts, LastOf
<1>7. \A e \in logged : TellsItsHop(e)'
  BY <1>1, <1>4 DEF TellsItsHop, KnownRay
<1> QED
  BY <1>1, <1>2, <1>3, <1>5, <1>6, <1>7

(* What the adapters make of a request's trip is tied together by its      *)
(* identifiers and to no other request's, tells every row from every       *)
(* other, names its client and says what became of it, for any requests.   *)
THEOREM RequestsOfConsoleAreTold == MCSpec => []RequestsAreTold
<1> DEFINE Inv == scenario = "hops" => TripInv
<1>1. MCInit => Inv
  BY TripInit DEF MCInit
<1>2. Inv /\ [MCNext]_<<vars, shared, scenario>> => Inv'
  <2> SUFFICES ASSUME Inv, [MCNext]_<<vars, shared, scenario>>, scenario' = "hops" PROVE TripInv'
    OBVIOUS
  <2>1. scenario = "hops" /\ TripInv
    BY DEF MCNext
  <2>2. CASE UNCHANGED <<vars, shared, scenario>>
    BY <2>1, <2>2, TripStutters
  <2>3. CASE MCNext
    <3>1. Trip!Next
      BY <2>1, <2>3 DEF MCNext
    <3> QED
      BY <2>1, <3>1, TripSteps
  <2> QED
    BY <2>2, <2>3
<1>3. Inv => RequestsAreTold
  BY LinkedAndTold, VerdictsAreTrue DEF RequestsAreTold
<1> QED
  BY <1>1, <1>2, <1>3, PTL DEF MCSpec

-----------------------------------------------------------------------------
(* The firing of alerts.                                                   *)

(* The variables of Alerting, by what they are there.                      *)
instant == s1
quiet == s2
raised == s5
busy == s7
since == s8
fired == s9
listed == s10
mark == s11
rowRead == s12
lapses == s13

(* The processors are finitely many and a cooldown is some time.           *)
AlertHypotheses == IsFiniteSet(Alerters) /\ AlertCooldown \in Nat \ {0}

AlertSteps == {"idle", "evaluating", "claimed", "delivering", "marking", "locked"}
AlertWords == Fire!Statuses \cup Fire!States
AlertRows == [group : AlertGroups, firedAt : Nat, status : AlertWords, attempts : Nat,
              state : AlertWords, acknowledged : BOOLEAN]
RaisedIds == 1..Len(raised)

(* What is written to a row is not told apart by who writes it.            *)
AlertTypes ==
    /\ instant \in Nat /\ lapses \in Nat /\ quiet \in [AlertGroups -> Nat]
    /\ busy \in [Fire!Actors -> AlertSteps]
    /\ since \in [Alerters -> Nat] /\ fired \in [Alerters -> Seq(AlertGroups)]
    /\ raised \in Seq(AlertRows)
    /\ listed \in [Alerters -> Seq(RaisedIds \X AlertRows)]
    /\ mark \in [Fire!Actors -> [id : Nat, status : AlertWords, attempts : Nat]]
    /\ DOMAIN rowRead = Fire!Actors /\ rowRead = [x \in Fire!Actors |-> rowRead[x]]

(* Who works on an alert has one that is there, and has read its group.    *)
InHand(x) ==
    /\ busy[x] \in {"marking", "locked"} => mark[x].id \in RaisedIds
    /\ busy[x] = "locked" => rowRead[x] \in AlertRows /\ rowRead[x].group = raised[mark[x].id].group

(* Whose delivery pass is under way.                                       *)
HasList(p) ==
    \/ busy[p] = "delivering"
    \/ p \notin AlertOperators /\ busy[p] \in {"marking", "locked"}

OnList(p) ==
    /\ busy[p] \in {"evaluating", "claimed"} => fired[p] # <<>>
    /\ HasList(p) => listed[p] # <<>>

(* The alerts of a group, and the claims of alerts about to be stored.     *)
AlertsOf(g) == {a \in RaisedIds : raised[a].group = g}
ClaimsOf(g) == {p \in Alerters : busy[p] = "claimed" /\ Head(fired[p]) = g}

(* Every alert of a group, and every claim of one about to be stored, has  *)
(* used up a cooldown of the time until the group may fire again.          *)
Paid(g) ==
    /\ (Cardinality(AlertsOf(g)) + Cardinality(ClaimsOf(g))) * AlertCooldown <= quiet[g]
    /\ quiet[g] <= instant + AlertCooldown

(* Groups that were silenced with nothing to show for it; each of them     *)
(* took a lapse of its own.                                                *)
Unmatched == {g \in AlertGroups : quiet[g] # 0 /\ AlertsOf(g) = {} /\ ClaimsOf(g) = {}}

Matched == IsFiniteSet(Unmatched) /\ Cardinality(Unmatched) <= lapses

AlertInv ==
    /\ AlertTypes
    /\ \A x \in Fire!Actors : InHand(x)
    /\ \A p \in Alerters : OnList(p)
    /\ \A g \in AlertGroups : Paid(g)
    /\ Matched

LEMMA AlertInit == ASSUME AlertHypotheses, Fire!Init PROVE AlertInv
<1> USE DEF instant, quiet, raised, busy, since, fired, listed, mark, rowRead, lapses
<1>1. AlertTypes
  BY DEF Fire!Init, AlertTypes, AlertSteps, Fire!NoMark, AlertWords, Fire!Statuses,
      Fire!States, Fire!Actors
<1>2. (\A x \in Fire!Actors : InHand(x)) /\ \A p \in Alerters : OnList(p)
  BY DEF Fire!Init, InHand, OnList, HasList, Fire!Actors
<1>3. \A g \in AlertGroups : Paid(g)
  <2>1. ASSUME NEW g \in AlertGroups PROVE AlertsOf(g) = {} /\ ClaimsOf(g) = {}
    BY DEF Fire!Init, AlertsOf, ClaimsOf, Fire!Actors, RaisedIds
  <2>2. Cardinality({}) = 0
    BY FS_EmptySet
  <2>3. \A c \in Nat : (0 + 0) * c <= 0
    OBVIOUS
  <2> SUFFICES ASSUME NEW g \in AlertGroups PROVE Paid(g)
    OBVIOUS
  <2>4. quiet[g] = 0 /\ instant = 0 /\ AlertCooldown \in Nat
    BY DEF Fire!Init, AlertHypotheses
  <2>5. (Cardinality(AlertsOf(g)) + Cardinality(ClaimsOf(g))) * AlertCooldown <= quiet[g]
    BY <2>1, <2>2, <2>3, <2>4
  <2> QED
    BY <2>4, <2>5 DEF Paid
<1>4. Matched
  <2>1. Unmatched = {} /\ lapses = 0
    BY DEF Fire!Init, Unmatched
  <2> QED
    BY <2>1, FS_EmptySet DEF Matched
<1> QED
  BY <1>1, <1>2, <1>3, <1>4 DEF AlertInv

LEMMA OneMoreTimes == \A n, c \in Nat : (n + 1) * c = n * c + c
OBVIOUS

LEMMA AlertsAreCounted == ASSUME AlertHypotheses, Len(raised) \in Nat
    PROVE \A g : /\ IsFiniteSet(AlertsOf(g)) /\ IsFiniteSet(ClaimsOf(g))
                 /\ Cardinality(AlertsOf(g)) \in Nat /\ Cardinality(ClaimsOf(g)) \in Nat
<1> USE DEF instant, quiet, raised, busy, since, fired, listed, mark, rowRead, lapses
<1> SUFFICES ASSUME NEW g PROVE IsFiniteSet(AlertsOf(g)) /\ IsFiniteSet(ClaimsOf(g))
  BY FS_CardinalityType
<1>1. IsFiniteSet(RaisedIds)
  BY FS_Interval DEF RaisedIds
<1>2. AlertsOf(g) \in SUBSET (RaisedIds) /\ ClaimsOf(g) \in SUBSET Alerters
  BY DEF AlertsOf, ClaimsOf
<1> QED
  BY <1>1, <1>2, FS_Subset DEF AlertHypotheses

(* What is paid for stays so while cooldowns only begin and fewer alerts   *)
(* are about to be stored.                                                 *)
LEMMA StaysPaid ==
    ASSUME AlertHypotheses, AlertInv, NEW g \in AlertGroups, Len(raised') \in Nat,
           instant' \in Nat, quiet' \in [AlertGroups -> Nat],
           instant <= instant', AlertsOf(g)' = AlertsOf(g), ClaimsOf(g)' \subseteq ClaimsOf(g),
           quiet'[g] = quiet[g] \/ (quiet[g] <= quiet'[g] /\ quiet'[g] <= instant' + AlertCooldown)
    PROVE  Paid(g)'
<1> USE DEF instant, quiet, raised, busy, since, fired, listed, mark, rowRead, lapses
<1>1. Len(raised) \in Nat
  BY DEF AlertInv, AlertTypes
<1>2. Cardinality(ClaimsOf(g)') <= Cardinality(ClaimsOf(g)) /\ Cardinality(ClaimsOf(g)') \in Nat
  BY <1>1, AlertsAreCounted, FS_Subset, FS_CardinalityType
<1>3. (Cardinality(AlertsOf(g)) + Cardinality(ClaimsOf(g)')) * AlertCooldown
         <= (Cardinality(AlertsOf(g)) + Cardinality(ClaimsOf(g))) * AlertCooldown
  <2>1. \A m, n, c \in Nat : m <= n => m * c <= n * c
    OBVIOUS
  <2> QED
    BY <1>1, <1>2, <2>1, AlertsAreCounted DEF AlertHypotheses
<1>4. /\ Paid(g) /\ quiet[g] \in Nat /\ instant \in Nat /\ quiet'[g] \in Nat
      /\ AlertCooldown \in Nat
  BY DEF AlertInv, AlertTypes, AlertHypotheses
<1>5. /\ (Cardinality(AlertsOf(g)) + Cardinality(ClaimsOf(g))) * AlertCooldown \in Nat
      /\ (Cardinality(AlertsOf(g)) + Cardinality(ClaimsOf(g)')) * AlertCooldown \in Nat
  <2>1. \A m, n, c \in Nat : (m + n) * c \in Nat
    OBVIOUS
  <2> QED
    BY <1>1, <1>2, <1>4, <2>1, AlertsAreCounted
<1> QED
  BY <1>2, <1>3, <1>4, <1>5 DEF Paid

(* ... of every group, if no cooldown begins.                              *)
LEMMA Unpaid ==
    ASSUME AlertHypotheses, AlertInv, AlertTypes', instant <= instant', UNCHANGED quiet,
           \A g \in AlertGroups : AlertsOf(g)' = AlertsOf(g) /\ ClaimsOf(g)' \subseteq ClaimsOf(g)
    PROVE  \A g \in AlertGroups : Paid(g)'
<1> USE DEF instant, quiet, raised, busy, since, fired, listed, mark, rowRead, lapses
<1> SUFFICES ASSUME NEW g \in AlertGroups PROVE Paid(g)'
  OBVIOUS
<1>1. /\ Len(raised') \in Nat /\ instant' \in Nat
      /\ quiet' \in [AlertGroups -> Nat]
  BY DEF AlertTypes
<1>2. AlertsOf(g)' = AlertsOf(g) /\ ClaimsOf(g)' \subseteq ClaimsOf(g) /\ quiet'[g] = quiet[g]
  OBVIOUS
<1> QED
  BY <1>1, <1>2, StaysPaid, Zenon

(* A lapse silences one group, at most, with nothing to show for it.       *)
LEMMA StaysMatched ==
    ASSUME AlertInv, NEW g,
           \/ lapses' = lapses /\ Unmatched' \subseteq Unmatched
           \/ lapses' = lapses + 1 /\ Unmatched' \subseteq Unmatched \cup {g}
    PROVE  Matched'
<1>1. IsFiniteSet(Unmatched) /\ Cardinality(Unmatched) \in Nat /\ Cardinality(Unmatched) <= lapses
  BY FS_CardinalityType DEF AlertInv, Matched
<1>2. lapses \in Nat
  BY DEF AlertInv, AlertTypes
<1>3. /\ IsFiniteSet(Unmatched \cup {g}) /\ Cardinality(Unmatched \cup {g}) \in Nat
      /\ Cardinality(Unmatched \cup {g}) <= Cardinality(Unmatched) + 1
  <2>1. PICK S : S = Unmatched
    OBVIOUS
  <2>2. /\ IsFiniteSet(S) /\ Cardinality(S) \in Nat /\ IsFiniteSet(S \cup {g})
        /\ Cardinality(S \cup {g}) = IF g \in S THEN Cardinality(S) ELSE Cardinality(S) + 1
    BY <1>1, <2>1, FS_AddElement
  <2> QED
    BY <2>1, <2>2
<1>4. CASE lapses' = lapses /\ Unmatched' \subseteq Unmatched
  BY <1>1, <1>2, <1>4, FS_Subset, FS_CardinalityType DEF Matched
<1>5. CASE lapses' = lapses + 1 /\ Unmatched' \subseteq Unmatched \cup {g}
  <2>1. /\ IsFiniteSet(Unmatched') /\ Cardinality(Unmatched') \in Nat
        /\ Cardinality(Unmatched') <= Cardinality(Unmatched \cup {g})
    BY <1>3, <1>5, FS_Subset, FS_CardinalityType
  <2> QED
    BY <1>1, <1>2, <1>3, <1>5, <2>1 DEF Matched
<1> QED
  BY <1>4, <1>5

(* ... and whoever leaves the cooldowns and what follows them silences     *)
(* none.                                                                   *)
LEMMA SameMatched ==
    ASSUME AlertInv, UNCHANGED quiet, lapses' \in {lapses, lapses + 1},
           \A g \in AlertGroups : AlertsOf(g)' = AlertsOf(g) /\ ClaimsOf(g)' = ClaimsOf(g)
    PROVE  Matched'
<1>1. Unmatched' = Unmatched
  BY DEF Unmatched, quiet
<1> QED
  BY <1>1, StaysMatched

LEMMA EvaluateKeeps ==
    ASSUME AlertHypotheses, AlertInv, NEW p \in Alerters, Fire!Evaluate(p)
    PROVE  AlertInv'
<1> USE DEF instant, quiet, raised, busy, since, fired, listed, mark, rowRead, lapses
<1>0. PICK n \in 1..AlertsStored :
         \E some \in [1..n -> AlertGroups] : fired' = [fired EXCEPT ![p] = some]
  BY Zenon DEF Fire!Evaluate
<1>1. PICK some \in [1..n -> AlertGroups] : fired' = [fired EXCEPT ![p] = some]
  BY <1>0
<1>2. some \in Seq(AlertGroups) /\ some # <<>>
  BY <1>1
<1>3. AlertTypes'
  BY <1>1, <1>2 DEF AlertInv, AlertTypes, Fire!Evaluate, Fire!Go, AlertSteps, Fire!Actors,
      RaisedIds
<1>4. \A x \in Fire!Actors : InHand(x)'
  BY DEF AlertInv, AlertTypes, Fire!Evaluate, Fire!Go, InHand, RaisedIds, Fire!Actors
<1>5. \A q \in Alerters : OnList(q)'
  BY <1>1, <1>2 DEF AlertInv, AlertTypes, Fire!Evaluate, Fire!Go, OnList, HasList, Fire!Actors
<1>6. \A g \in AlertGroups : AlertsOf(g)' = AlertsOf(g) /\ ClaimsOf(g)' = ClaimsOf(g)
  BY <1>1 DEF AlertInv, AlertTypes, Fire!Evaluate, Fire!Go, AlertsOf, ClaimsOf, RaisedIds,
      Fire!Actors
<1>8. instant <= instant' /\ UNCHANGED <<quiet, lapses>>
  BY DEF Fire!Evaluate, AlertInv, AlertTypes
<1>7. \A g \in AlertGroups : Paid(g)'
  BY <1>3, <1>6, <1>8, Unpaid
<1>9. Matched'
  BY <1>6, <1>8, SameMatched
<1> QED
  BY <1>3, <1>4, <1>5, <1>7, <1>9 DEF AlertInv

LEMMA TailsOfLists ==
    \A S : \A s \in Seq(S) : s # <<>> => Tail(s) \in Seq(S) /\ (Len(s) > 1 => Tail(s) # <<>>)
<1> SUFFICES ASSUME NEW S, NEW s \in Seq(S), s # <<>>
             PROVE  Tail(s) \in Seq(S) /\ (Len(s) > 1 => Tail(s) # <<>>)
  OBVIOUS
<1>1. Tail(s) \in Seq(S)
  OBVIOUS
<1>2. Len(s) \in Nat /\ Len(Tail(s)) = Len(s) - 1 /\ Len(<<>>) = 0
  OBVIOUS
<1>3. Len(s) > 1 => Len(Tail(s)) # Len(<<>>)
  BY <1>2
<1> QED
  BY <1>1, <1>3

(* The next group that fired, or none.                                     *)
LEMMA NextGroupKeeps ==
    ASSUME AlertHypotheses, AlertInv, NEW p \in Alerters, busy[p] \in {"evaluating", "claimed"},
           Fire!NextGroup(p)
    PROVE  /\ busy' \in [Fire!Actors -> AlertSteps] /\ since' \in [Alerters -> Nat]
           /\ fired' \in [Alerters -> Seq(AlertGroups)]
           /\ \A q \in Alerters : busy'[q] \in {"evaluating", "claimed"} => fired'[q] # <<>>
           /\ busy'[p] \in {"idle", "evaluating"}
           /\ \A x \in Fire!Actors : x # p => busy'[x] = busy[x]
           /\ \A q \in Alerters : q # p => fired'[q] = fired[q]
           /\ \A g : ClaimsOf(g)' = ClaimsOf(g) \ {p}
<1> USE DEF instant, quiet, raised, busy, since, fired, listed, mark, rowRead, lapses
<1>1. fired[p] \in Seq(AlertGroups) /\ fired[p] # <<>> /\ p \in Fire!Actors
  BY DEF AlertInv, AlertTypes, OnList, HasList, Fire!Actors
<1>2. Tail(fired[p]) \in Seq(AlertGroups) /\ (Len(fired[p]) > 1 => Tail(fired[p]) # <<>>)
  BY <1>1, TailsOfLists
<1>3. busy' \in [Fire!Actors -> AlertSteps] /\ busy'[p] \in {"idle", "evaluating"}
  BY <1>1 DEF AlertInv, AlertTypes, Fire!NextGroup, Fire!Go, AlertSteps
<1>4. since' \in [Alerters -> Nat] /\ fired' \in [Alerters -> Seq(AlertGroups)]
  BY <1>2 DEF AlertInv, AlertTypes, Fire!NextGroup
<1>5. /\ \A x \in Fire!Actors : x # p => busy'[x] = busy[x]
      /\ \A q \in Alerters : q # p => fired'[q] = fired[q]
      /\ busy'[p] = "evaluating" => fired'[p] # <<>>
  BY <1>1, <1>2 DEF AlertInv, AlertTypes, Fire!NextGroup, Fire!Go
<1>6. \A q \in Alerters : busy'[q] \in {"evaluating", "claimed"} => fired'[q] # <<>>
  BY <1>3, <1>5 DEF AlertInv, OnList, HasList, Fire!Actors
<1>7. \A g : ClaimsOf(g)' = ClaimsOf(g) \ {p}
  BY <1>3, <1>5 DEF ClaimsOf, Fire!Actors
<1> QED
  BY <1>3, <1>4, <1>5, <1>6, <1>7

(* A step of one evaluation leaves those who hold alerts alone.            *)
LEMMA HandsKept ==
    ASSUME AlertInv, NEW p \in Alerters, busy' \in [Fire!Actors -> AlertSteps], NEW s,
           busy'[p] \notin {"delivering", "marking", "locked"},
           \A x \in Fire!Actors : x # p => busy'[x] = busy[x],
           UNCHANGED <<listed, mark, rowRead>>, raised' = raised \/ raised' = Append(raised, s)
    PROVE  /\ \A x \in Fire!Actors : InHand(x)'
           /\ \A q \in Alerters : HasList(q)' => listed'[q] # <<>>
<1> USE DEF instant, quiet, raised, busy, since, fired, listed, mark, rowRead, lapses
<1>1. \A a \in RaisedIds : a \in RaisedIds' /\ raised'[a] = raised[a]
  BY DEF AlertInv, AlertTypes, RaisedIds
<1>2. \A x \in Fire!Actors : InHand(x)'
  BY <1>1 DEF AlertInv, InHand
<1> QED
  BY <1>2 DEF AlertInv, OnList, HasList, Fire!Actors

LEMMA EvaluationKeeps ==
    ASSUME AlertHypotheses, AlertInv, NEW p \in Alerters,
           \/ Fire!Claim(p) \/ Fire!ClaimFails(p) \/ Fire!StoreAlert(p) \/ Fire!StoreAlertFails(p)
    PROVE  AlertInv'
<1> USE DEF instant, quiet, raised, busy, since, fired, listed, mark, rowRead, lapses
<1>1. /\ p \in Fire!Actors /\ Head(fired[p]) \in AlertGroups
      /\ busy[p] \in {"evaluating", "claimed"}
      /\ instant \in Nat /\ AlertCooldown \in Nat /\ \A g \in AlertGroups : quiet[g] \in Nat
      /\ instant + AlertCooldown \in Nat
  BY DEF AlertInv, AlertTypes, OnList, HasList, Fire!Actors, AlertHypotheses, Fire!Claim,
      Fire!ClaimFails, Fire!StoreAlert, Fire!StoreAlertFails
<1>2. Fire!Fresh(p) \in AlertRows
  BY <1>1 DEF Fire!Fresh, AlertRows, AlertWords, Fire!Statuses, Fire!States, AlertInv,
      AlertTypes
<1>3. ASSUME Fire!NextGroup(p), UNCHANGED <<instant, listed, mark, rowRead>>, lapses' \in Nat,
             quiet' \in [AlertGroups -> Nat],
             raised' = raised \/ raised' = Append(raised, Fire!Fresh(p))
      PROVE  /\ AlertTypes'
             /\ \A x \in Fire!Actors : InHand(x)'
             /\ \A q \in Alerters : OnList(q)'
             /\ \A g : ClaimsOf(g)' = ClaimsOf(g) \ {p}
  <2>1. /\ busy' \in [Fire!Actors -> AlertSteps] /\ since' \in [Alerters -> Nat]
        /\ fired' \in [Alerters -> Seq(AlertGroups)]
        /\ \A q \in Alerters : busy'[q] \in {"evaluating", "claimed"} => fired'[q] # <<>>
        /\ busy'[p] \in {"idle", "evaluating"}
        /\ \A x \in Fire!Actors : x # p => busy'[x] = busy[x]
        /\ \A g : ClaimsOf(g)' = ClaimsOf(g) \ {p}
    BY <1>1, <1>3, NextGroupKeeps
  <2>2. raised' \in Seq(AlertRows) /\ RaisedIds \subseteq RaisedIds'
    <3>1. raised \in Seq(AlertRows) /\ Len(raised) \in Nat
      BY DEF AlertInv, AlertTypes
    <3>2. raised' \in Seq(AlertRows) /\ Len(raised') \in {Len(raised), Len(raised) + 1}
      BY <1>2, <1>3, <3>1
    <3> QED
      BY <3>1, <3>2 DEF RaisedIds
  <2>3. listed' \in [Alerters -> Seq(RaisedIds' \X AlertRows)]
    <3>1. RaisedIds \X AlertRows \subseteq RaisedIds' \X AlertRows
      BY <2>2
    <3>2. \A S, T : S \subseteq T => Seq(S) \subseteq Seq(T)
      OBVIOUS
    <3> QED
      BY <1>3, <3>1, <3>2 DEF AlertInv, AlertTypes
  <2>4. AlertTypes'
    BY <1>3, <2>1, <2>2, <2>3 DEF AlertInv, AlertTypes
  <2>5. /\ \A x \in Fire!Actors : InHand(x)'
        /\ \A q \in Alerters : HasList(q)' => listed'[q] # <<>>
    BY <1>3, <2>1, HandsKept
  <2> QED
    BY <2>1, <2>4, <2>5 DEF OnList
<1>4. ASSUME raised' = raised PROVE \A g : AlertsOf(g)' = AlertsOf(g)
  BY <1>4 DEF AlertsOf, RaisedIds
<1>5. CASE Fire!Claim(p) /\ quiet[Head(fired[p])] > instant
  <2>1. /\ Fire!NextGroup(p)
        /\ UNCHANGED <<instant, listed, mark, rowRead, lapses, quiet, raised>>
        /\ busy[p] = "evaluating"
    BY <1>5, <1>1 DEF Fire!Claim
  <2>2. /\ AlertTypes' /\ (\A x \in Fire!Actors : InHand(x)') /\ \A q \in Alerters : OnList(q)'
        /\ \A g : ClaimsOf(g)' = ClaimsOf(g) \ {p}
    BY <1>3, <2>1 DEF AlertInv, AlertTypes
  <2>3. \A g : ClaimsOf(g)' = ClaimsOf(g)
    BY <2>1, <2>2 DEF ClaimsOf
  <2>4. \A g \in AlertGroups : Paid(g)'
    BY <1>1, <1>4, <2>1, <2>2, <2>3, Unpaid
  <2>5. Matched'
    BY <1>4, <2>1, <2>3, SameMatched
  <2> QED
    BY <2>2, <2>4, <2>5 DEF AlertInv
<1>6. CASE Fire!Claim(p) /\ ~(quiet[Head(fired[p])] > instant)
  <2>0. PICK g \in AlertGroups : g = Head(fired[p])
    BY <1>1
  <2>1. /\ busy[p] = "evaluating" /\ busy' = [busy EXCEPT ![p] = "claimed"]
        /\ quiet' = [quiet EXCEPT ![g] = instant + AlertCooldown] /\ quiet[g] <= instant
        /\ UNCHANGED <<instant, since, fired, raised, listed, mark, rowRead, lapses>>
    BY <1>1, <1>6, <2>0 DEF Fire!Claim, Fire!Go
  <2>2. AlertTypes'
    BY <1>1, <2>1 DEF AlertInv, AlertTypes, AlertSteps, RaisedIds
  <2>3. /\ \A x \in Fire!Actors : InHand(x)'
        /\ \A q \in Alerters : OnList(q)'
    BY <1>1, <2>1 DEF AlertInv, AlertTypes, InHand, OnList, HasList, RaisedIds, Fire!Actors
  <2>4. /\ ClaimsOf(g)' = ClaimsOf(g) \cup {p} /\ p \notin ClaimsOf(g)
        /\ \A h : h # g => ClaimsOf(h)' = ClaimsOf(h)
    BY <1>1, <2>0, <2>1 DEF ClaimsOf, Fire!Actors, AlertInv, AlertTypes
  <2>5. /\ IsFiniteSet(ClaimsOf(g)) /\ Cardinality(ClaimsOf(g)) \in Nat
        /\ Cardinality(AlertsOf(g)) \in Nat /\ Len(raised) \in Nat /\ AlertsOf(g)' = AlertsOf(g)
    BY <1>4, <2>1, AlertsAreCounted DEF AlertInv, AlertTypes
  <2>6. Cardinality(ClaimsOf(g)') = Cardinality(ClaimsOf(g)) + 1
    BY <2>4, <2>5, FS_AddElement
  <2>7. (Cardinality(AlertsOf(g)) + Cardinality(ClaimsOf(g)')) * AlertCooldown <= instant + AlertCooldown
    <3>1. PICK n \in Nat : n = Cardinality(AlertsOf(g)) + Cardinality(ClaimsOf(g))
      BY <2>5
    <3>2. n * AlertCooldown <= quiet[g] /\ n * AlertCooldown \in Nat
      BY <1>1, <3>1 DEF AlertInv, Paid
    <3>3. Cardinality(AlertsOf(g)) + Cardinality(ClaimsOf(g)') = n + 1
      BY <2>5, <2>6, <3>1
    <3>4. (n + 1) * AlertCooldown = n * AlertCooldown + AlertCooldown
      BY <1>1, OneMoreTimes
    <3> QED
      BY <1>1, <2>1, <3>2, <3>3, <3>4
  <2>8. Paid(g)'
    BY <1>1, <2>1, <2>4, <2>5, <2>7 DEF Paid, AlertInv, AlertTypes
  <2>9. \A h \in AlertGroups : h # g => Paid(h)'
    <3> SUFFICES ASSUME NEW h \in AlertGroups, h # g PROVE Paid(h)'
      OBVIOUS
    <3>1. AlertsOf(h)' = AlertsOf(h) /\ ClaimsOf(h)' = ClaimsOf(h) /\ quiet'[h] = quiet[h]
      BY <1>1, <1>4, <2>1, <2>4 DEF AlertInv, AlertTypes
    <3> QED
      BY <2>1, <3>1 DEF Paid, AlertInv
  <2>10. Unmatched' \subseteq Unmatched
    BY <1>1, <1>4, <2>1, <2>4 DEF Unmatched, AlertInv, AlertTypes
  <2>11. Matched'
    BY <2>1, <2>10, StaysMatched
  <2> QED
    BY <2>2, <2>3, <2>8, <2>9, <2>11 DEF AlertInv
<1>7. CASE Fire!ClaimFails(p)
  <2>1. /\ Fire!NextGroup(p) /\ UNCHANGED <<instant, listed, mark, rowRead, raised>>
        /\ lapses' = lapses + 1
        /\ busy[p] = "evaluating" /\ quiet' \in [AlertGroups -> Nat]
        /\ \A g \in AlertGroups :
              \/ quiet'[g] = quiet[g]
              \/ /\ quiet[g] <= quiet'[g] /\ quiet'[g] <= instant + AlertCooldown
                 /\ g = Head(fired[p])
    BY <1>1, <1>7 DEF Fire!ClaimFails, Fire!Fault, AlertInv, AlertTypes
  <2>2. lapses' \in Nat /\ Len(raised') \in Nat /\ instant' \in Nat
    BY <2>1 DEF AlertInv, AlertTypes
  <2>3. /\ AlertTypes' /\ (\A x \in Fire!Actors : InHand(x)') /\ \A q \in Alerters : OnList(q)'
        /\ \A g : ClaimsOf(g)' = ClaimsOf(g) \ {p}
    BY <1>3, <2>1, <2>2
  <2>4. ASSUME NEW g \in AlertGroups PROVE Paid(g)'
    BY <1>1, <1>4, <2>1, <2>2, <2>3, StaysPaid
  <2>5. \A g : ClaimsOf(g)' = ClaimsOf(g)
    BY <2>1, <2>3 DEF ClaimsOf
  <2>6. Unmatched' \subseteq Unmatched \cup {Head(fired[p])}
    BY <1>4, <2>1, <2>5 DEF Unmatched
  <2>7. Matched'
    BY <2>1, <2>6, StaysMatched
  <2> QED
    BY <2>3, <2>4, <2>7 DEF AlertInv
<1>8. CASE Fire!StoreAlert(p) \/ (Fire!StoreAlertFails(p) /\ raised' = Append(raised, Fire!Fresh(p)))
  <2>0. PICK g \in AlertGroups : g = Head(fired[p])
    BY <1>1
  <2>1. /\ Fire!NextGroup(p) /\ UNCHANGED <<instant, listed, mark, rowRead, quiet>>
        /\ raised' = Append(raised, Fire!Fresh(p))
        /\ busy[p] = "claimed" /\ lapses' \in {lapses, lapses + 1}
    BY <1>8 DEF Fire!StoreAlert, Fire!StoreAlertFails, Fire!Fault
  <2>2. lapses' \in Nat /\ quiet' \in [AlertGroups -> Nat]
    BY <2>1 DEF AlertInv, AlertTypes
  <2>3. /\ AlertTypes' /\ (\A x \in Fire!Actors : InHand(x)') /\ \A q \in Alerters : OnList(q)'
        /\ \A h : ClaimsOf(h)' = ClaimsOf(h) \ {p}
    BY <1>3, <2>1, <2>2
  <2>4. /\ AlertsOf(g)' = AlertsOf(g) \cup {Len(raised) + 1}
        /\ Len(raised) + 1 \notin AlertsOf(g)
        /\ \A h : h # g => AlertsOf(h)' = AlertsOf(h)
    BY <2>0, <2>1 DEF AlertsOf, RaisedIds, Fire!Fresh, AlertInv, AlertTypes
  <2>5. /\ p \in ClaimsOf(g) /\ ClaimsOf(g)' = ClaimsOf(g) \ {p}
        /\ \A h : h # g => ClaimsOf(h)' = ClaimsOf(h)
    BY <2>0, <2>1, <2>3 DEF ClaimsOf
  <2>6. /\ IsFiniteSet(ClaimsOf(g)) /\ Cardinality(ClaimsOf(g)) \in Nat
        /\ IsFiniteSet(AlertsOf(g)) /\ Cardinality(AlertsOf(g)) \in Nat
    BY AlertsAreCounted DEF AlertInv, AlertTypes
  <2>7. /\ Cardinality(AlertsOf(g)') = Cardinality(AlertsOf(g)) + 1
        /\ Cardinality(ClaimsOf(g)') = Cardinality(ClaimsOf(g)) - 1
    <3>1. Cardinality(AlertsOf(g)') = Cardinality(AlertsOf(g)) + 1
      BY <2>4, <2>6, FS_AddElement
    <3>2. Cardinality(ClaimsOf(g) \ {p}) = Cardinality(ClaimsOf(g)) - 1
      BY <2>5, <2>6, FS_RemoveElement
    <3> QED
      BY <2>5, <3>1, <3>2
  <2>8. Paid(g)'
    <3>1. Cardinality(AlertsOf(g)') + Cardinality(ClaimsOf(g)') = Cardinality(AlertsOf(g)) + Cardinality(ClaimsOf(g))
      BY <2>6, <2>7
    <3>2. Paid(g)
      BY <1>1 DEF AlertInv
    <3> QED
      BY <2>1, <2>2, <2>4, <3>1, <3>2 DEF Paid
  <2>9. \A h \in AlertGroups : h # g => Paid(h)'
    <3> SUFFICES ASSUME NEW h \in AlertGroups, h # g PROVE Paid(h)'
      OBVIOUS
    <3>1. AlertsOf(h)' = AlertsOf(h) /\ ClaimsOf(h)' = ClaimsOf(h)
      BY <2>4, <2>5
    <3> QED
      BY <2>1, <2>2, <3>1 DEF Paid, AlertInv
  <2>10. Unmatched' \subseteq Unmatched
    BY <2>1, <2>4, <2>5 DEF Unmatched
  <2>11. Matched'
    BY <2>1, <2>10, StaysMatched
  <2> QED
    BY <2>3, <2>8, <2>9, <2>11 DEF AlertInv
<1>9. CASE Fire!StoreAlertFails(p) /\ raised' = raised
  <2>1. /\ Fire!NextGroup(p) /\ UNCHANGED <<instant, listed, mark, rowRead, quiet, raised>>
        /\ lapses' = lapses + 1
    BY <1>9 DEF Fire!StoreAlertFails, Fire!Fault
  <2>2. lapses' \in Nat /\ quiet' \in [AlertGroups -> Nat] /\ instant <= instant'
    BY <2>1 DEF AlertInv, AlertTypes
  <2>3. /\ AlertTypes' /\ (\A x \in Fire!Actors : InHand(x)') /\ \A q \in Alerters : OnList(q)'
        /\ \A g : ClaimsOf(g)' = ClaimsOf(g) \ {p}
    BY <1>3, <2>1, <2>2
  <2>4. \A g \in AlertGroups : Paid(g)'
    BY <1>4, <2>1, <2>2, <2>3, Unpaid
  <2>5. \A g : g # Head(fired[p]) => ClaimsOf(g)' = ClaimsOf(g)
    BY <2>3 DEF ClaimsOf
  <2>6. Unmatched' \subseteq Unmatched \cup {Head(fired[p])}
    BY <1>4, <2>1, <2>5 DEF Unmatched
  <2>7. Matched'
    BY <2>1, <2>6, StaysMatched
  <2> QED
    BY <2>3, <2>4, <2>7 DEF AlertInv
<1> QED
  BY <1>5, <1>6, <1>7, <1>8, <1>9 DEF Fire!StoreAlertFails

(* A step about one alert leaves the alerts and the claims of every group  *)
(* as they were.                                                           *)
LEMMA DeliveryKeeps ==
    ASSUME AlertHypotheses, AlertInv, NEW x \in Fire!Actors, busy[x] # "claimed",
           busy'[x] # "claimed",
           \A y \in Fire!Actors : y # x => busy'[y] = busy[y],
           AlertTypes', Len(raised') = Len(raised),
           \A a \in RaisedIds : raised'[a].group = raised[a].group,
           UNCHANGED <<instant, quiet>>, lapses' \in {lapses, lapses + 1},
           \A p \in Alerters : p # x => fired'[p] = fired[p],
           \A y \in Fire!Actors : InHand(y)', \A p \in Alerters : OnList(p)'
    PROVE  AlertInv'
<1> USE DEF instant, quiet, raised, busy, since, fired, listed, mark, rowRead, lapses
<1>1. \A g : ClaimsOf(g)' = ClaimsOf(g)
  BY DEF ClaimsOf, Fire!Actors
<1>2. \A g : AlertsOf(g)' = AlertsOf(g)
  BY DEF AlertsOf, RaisedIds
<1>3. instant <= instant'
  BY DEF AlertInv, AlertTypes
<1>4. \A g \in AlertGroups : Paid(g)'
  BY <1>1, <1>2, <1>3, Unpaid
<1>5. Matched'
  BY <1>1, <1>2, SameMatched
<1> QED
  BY <1>4, <1>5 DEF AlertInv

(* The alert in hand is the first of those listed.                         *)
LEMMA HandOfList ==
    ASSUME AlertInv, NEW p \in Alerters, Fire!Delivering(p)
    PROVE  /\ p \in Fire!Actors /\ Fire!AlertInHand(p) \in RaisedIds /\ Fire!AlertInHand(p) \in Nat
           /\ Fire!RowInHand(p) \in AlertRows /\ Fire!RowInHand(p).attempts + 1 \in Nat
           /\ listed[p] \in Seq(RaisedIds \X AlertRows) /\ listed[p] # <<>>
<1> USE DEF instant, quiet, raised, busy, since, fired, listed, mark, rowRead, lapses
<1>1. p \in Fire!Actors /\ listed[p] \in Seq(RaisedIds \X AlertRows) /\ listed[p] # <<>>
  BY DEF AlertInv, AlertTypes, OnList, HasList, Fire!Delivering, Fire!Actors
<1>2. Head(listed[p]) \in RaisedIds \X AlertRows
  BY <1>1
<1>3. /\ Fire!AlertInHand(p) \in RaisedIds /\ Fire!AlertInHand(p) \in Nat
      /\ Fire!RowInHand(p) \in AlertRows
  BY <1>2 DEF Fire!AlertInHand, Fire!RowInHand, RaisedIds
<1> QED
  BY <1>1, <1>3 DEF AlertRows

LEMMA MarkKeeps ==
    ASSUME AlertHypotheses, AlertInv, NEW p \in Alerters, Fire!Delivering(p),
           NEW status \in AlertWords, NEW attempts \in Nat,
           Fire!Mark(p, Fire!AlertInHand(p), status, attempts),
           lapses' \in {lapses, lapses + 1}
    PROVE  AlertInv'
<1> USE DEF instant, quiet, raised, busy, since, fired, listed, mark, rowRead, lapses
<1>1. p \in Fire!Actors /\ Fire!AlertInHand(p) \in RaisedIds /\ Fire!AlertInHand(p) \in Nat
  BY HandOfList
<1>2. /\ mark' = [mark EXCEPT ![p] = [id |-> Fire!AlertInHand(p), status |-> status,
                                   attempts |-> attempts]]
      /\ busy' = [busy EXCEPT ![p] = "marking"] /\ busy[p] = "delivering"
      /\ UNCHANGED <<instant, quiet, raised, since, fired, listed, rowRead>>
  BY DEF Fire!Mark, Fire!Go, Fire!Delivering
<1>3. AlertTypes'
  BY <1>1, <1>2 DEF AlertInv, AlertTypes, AlertSteps, RaisedIds
<1>4. \A y \in Fire!Actors : InHand(y)'
  BY <1>1, <1>2 DEF AlertInv, AlertTypes, InHand, RaisedIds
<1>5. \A q \in Alerters : OnList(q)'
  BY <1>1, <1>2 DEF AlertInv, AlertTypes, OnList, HasList, Fire!Actors
<1>6. busy'[p] # "claimed" /\ \A y \in Fire!Actors : y # p => busy'[y] = busy[y]
  BY <1>1, <1>2 DEF AlertInv, AlertTypes
<1> QED
  BY <1>1, <1>2, <1>3, <1>4, <1>5, <1>6, DeliveryKeeps

LEMMA ListsOfSome ==
    \A S : \A n \in Nat : \A s \in [1..n -> S] : s \in Seq(S) /\ (n > 0 => s # <<>>)
OBVIOUS

(* On to the next of those listed, or to none.                             *)
LEMMA NextAlertKeeps ==
    ASSUME AlertInv, NEW p \in Alerters, listed[p] # <<>>, Fire!NextAlert(p)
    PROVE  /\ busy' = [busy EXCEPT ![p] = IF Len(listed[p]) > 1 THEN "delivering" ELSE "idle"]
           /\ busy' \in [Fire!Actors -> AlertSteps] /\ busy'[p] \in {"delivering", "idle"}
           /\ listed' \in [Alerters -> Seq(RaisedIds \X AlertRows)]
           /\ busy'[p] = "delivering" => listed'[p] # <<>>
           /\ \A q \in Alerters : q # p => listed'[q] = listed[q]
<1> USE DEF instant, quiet, raised, busy, since, fired, listed, mark, rowRead, lapses
<1>1. p \in Fire!Actors /\ listed[p] \in Seq(RaisedIds \X AlertRows)
  BY DEF AlertInv, AlertTypes, Fire!Actors
<1>2. Tail(listed[p]) \in Seq(RaisedIds \X AlertRows) /\ (Len(listed[p]) > 1 => Tail(listed[p]) # <<>>)
  BY <1>1, TailsOfLists
<1> QED
  BY <1>1, <1>2 DEF AlertInv, AlertTypes, Fire!NextAlert, Fire!Go, AlertSteps

LEMMA ListKeeps ==
    ASSUME AlertHypotheses, AlertInv, NEW p \in Alerters,
           Fire!ListPending(p) \/ Fire!Skip(p)
    PROVE  AlertInv'
<1> USE DEF instant, quiet, raised, busy, since, fired, listed, mark, rowRead, lapses
<1>1. p \in Fire!Actors
  BY DEF Fire!Actors
<1>2. UNCHANGED <<instant, quiet, raised, since, fired, mark, rowRead, lapses>>
  BY DEF Fire!ListPending, Fire!Skip
<1>3. /\ busy' \in [Fire!Actors -> AlertSteps] /\ busy[p] \in {"idle", "delivering"}
      /\ busy'[p] \in {"delivering", "idle"}
      /\ listed' \in [Alerters -> Seq(RaisedIds \X AlertRows)]
      /\ busy'[p] = "delivering" => listed'[p] # <<>>
      /\ \A q \in Alerters : q # p => listed'[q] = listed[q]
      /\ \A y \in Fire!Actors : y # p => busy'[y] = busy[y]
  <2>1. CASE Fire!ListPending(p)
    <3>1. PICK n \in 1..AlertBatch :
             \E batch \in [1..n -> Fire!PendingIds] :
                listed' = [listed EXCEPT ![p] = [i \in 1..n |-> <<batch[i], raised[batch[i]]>>]]
      BY <2>1, Zenon DEF Fire!ListPending
    <3>2. PICK batch \in [1..n -> Fire!PendingIds] :
             listed' = [listed EXCEPT ![p] = [i \in 1..n |-> <<batch[i], raised[batch[i]]>>]]
      BY <3>1
    <3>3. n \in Nat /\ n > 0
      OBVIOUS
    <3>4. \A i \in 1..n : batch[i] \in RaisedIds /\ raised[batch[i]] \in AlertRows
      BY <3>2 DEF Fire!PendingIds, Fire!Ids, RaisedIds, AlertInv, AlertTypes
    <3>5. PICK some : some = [i \in 1..n |-> <<batch[i], raised[batch[i]]>>]
      OBVIOUS
    <3>6. some \in Seq(RaisedIds \X AlertRows) /\ some # <<>>
      <4>1. some \in [1..n -> RaisedIds \X AlertRows]
        BY <3>4, <3>5
      <4> QED
        BY <3>3, <4>1, ListsOfSome
    <3> QED
      BY <1>1, <2>1, <3>2, <3>5, <3>6 DEF Fire!ListPending, Fire!Go, AlertInv, AlertTypes,
          AlertSteps
  <2>2. CASE Fire!Skip(p)
    BY <1>1, <2>2, HandOfList, NextAlertKeeps DEF Fire!Skip, Fire!Delivering, AlertInv,
        AlertTypes
  <2> QED
    BY <2>1, <2>2
<1>4. AlertTypes'
  BY <1>2, <1>3 DEF AlertInv, AlertTypes, RaisedIds
<1>5. \A y \in Fire!Actors : InHand(y)'
  BY <1>2, <1>3 DEF AlertInv, InHand, RaisedIds
<1>6. \A q \in Alerters : OnList(q)'
  BY <1>2, <1>3 DEF AlertInv, OnList, HasList, Fire!Actors
<1> QED
  BY <1>1, <1>2, <1>3, <1>4, <1>5, <1>6, DeliveryKeeps

LEMMA ReturnKeeps ==
    ASSUME AlertHypotheses, AlertInv, NEW x \in Fire!Actors, busy[x] \in {"marking", "locked"},
           Fire!Return(x),
           \/ raised' = raised
           \/ busy[x] = "locked" /\ raised' = [raised EXCEPT ![mark[x].id] = Fire!Mutated(x, rowRead[x])],
           UNCHANGED <<instant, quiet, since, fired>>, lapses' \in {lapses, lapses + 1}
    PROVE  AlertInv'
<1> USE DEF instant, quiet, raised, busy, since, fired, listed, mark, rowRead, lapses
<1>1. /\ x \in AlertOperators \/ (x \in Alerters /\ x \notin AlertOperators /\ listed[x] # <<>>)
      /\ mark[x].id \in RaisedIds /\ mark[x] \in [id : Nat, status : AlertWords, attempts : Nat]
  BY DEF AlertInv, AlertTypes, InHand, OnList, HasList, Fire!Actors
<1>2. /\ mark' = [mark EXCEPT ![x] = Fire!NoMark]
      /\ Fire!NoMark \in [id : Nat, status : AlertWords, attempts : Nat]
      /\ rowRead' = [rowRead EXCEPT ![x] = Fire!NoRow]
  BY DEF Fire!Return, Fire!NoMark, AlertWords, Fire!Statuses
<1>3. /\ busy' \in [Fire!Actors -> AlertSteps] /\ busy'[x] \in {"delivering", "idle"}
      /\ listed' \in [Alerters -> Seq(RaisedIds \X AlertRows)]
      /\ x \in Alerters /\ busy'[x] = "delivering" => listed'[x] # <<>>
      /\ \A q \in Alerters : q # x => listed'[q] = listed[q]
      /\ \A y \in Fire!Actors : y # x => busy'[y] = busy[y]
  <2>1. CASE x \in AlertOperators
    BY <2>1 DEF Fire!Return, Fire!Go, AlertInv, AlertTypes, AlertSteps
  <2>2. CASE x \notin AlertOperators
    <3>1. Fire!NextAlert(x)
      BY <2>2 DEF Fire!Return
    <3>2. x \in Alerters /\ listed[x] # <<>>
      BY <1>1, <2>2
    <3>3. /\ busy' = [busy EXCEPT ![x] = IF Len(listed[x]) > 1 THEN "delivering" ELSE "idle"]
          /\ busy' \in [Fire!Actors -> AlertSteps] /\ busy'[x] \in {"delivering", "idle"}
          /\ listed' \in [Alerters -> Seq(RaisedIds \X AlertRows)]
          /\ busy'[x] = "delivering" => listed'[x] # <<>>
          /\ \A q \in Alerters : q # x => listed'[q] = listed[q]
      BY <3>1, <3>2, NextAlertKeeps
    <3> QED
      BY <3>3 DEF AlertInv, AlertTypes
  <2> QED
    BY <2>1, <2>2
<1>4. /\ raised' \in Seq(AlertRows) /\ Len(raised') = Len(raised)
      /\ \A a \in RaisedIds : raised'[a].group = raised[a].group
  <2>1. CASE raised' = raised
    BY <2>1 DEF AlertInv, AlertTypes
  <2>2. CASE busy[x] = "locked" /\ raised' = [raised EXCEPT ![mark[x].id] = Fire!Mutated(x, rowRead[x])]
    <3>1. rowRead[x] \in AlertRows /\ rowRead[x].group = raised[mark[x].id].group
      BY <2>2 DEF AlertInv, InHand
    <3>2. /\ Fire!Mutated(x, rowRead[x]) \in AlertRows
          /\ Fire!Mutated(x, rowRead[x]).group = rowRead[x].group
      BY <1>1, <3>1 DEF Fire!Mutated, AlertRows
    <3>3. PICK r \in AlertRows : r = Fire!Mutated(x, rowRead[x])
      BY <3>2
    <3>4. PICK i \in 1..Len(raised) : i = mark[x].id
      BY <1>1 DEF RaisedIds
    <3>5. /\ raised' = [raised EXCEPT ![i] = r] /\ r.group = raised[i].group
          /\ raised \in Seq(AlertRows)
      BY <2>2, <3>1, <3>2, <3>3, <3>4 DEF AlertInv, AlertTypes
    <3> QED
      BY <3>5 DEF RaisedIds
  <2> QED
    BY <2>1, <2>2
<1>5. AlertTypes'
  <2>1. /\ RaisedIds' = RaisedIds /\ instant' \in Nat /\ lapses' \in Nat
        /\ quiet' \in [AlertGroups -> Nat]
    BY <1>4 DEF AlertInv, AlertTypes, RaisedIds
  <2>2. since' \in [Alerters -> Nat] /\ fired' \in [Alerters -> Seq(AlertGroups)]
    BY DEF AlertInv, AlertTypes
  <2>3. /\ mark' \in [Fire!Actors -> [id : Nat, status : AlertWords, attempts : Nat]]
        /\ DOMAIN rowRead' = Fire!Actors /\ rowRead' = [y \in Fire!Actors |-> rowRead'[y]]
    BY <1>2 DEF AlertInv, AlertTypes
  <2> QED
    BY <1>3, <1>4, <2>1, <2>2, <2>3 DEF AlertTypes
<1>6. \A y \in Fire!Actors : InHand(y)'
  BY <1>2, <1>3, <1>4 DEF AlertInv, AlertTypes, InHand, RaisedIds
<1>7. \A q \in Alerters : OnList(q)'
  BY <1>3 DEF AlertInv, OnList, HasList, Fire!Actors
<1> QED
  BY <1>3, <1>4, <1>5, <1>6, <1>7, DeliveryKeeps

LEMMA UpdateKeeps ==
    ASSUME AlertHypotheses, AlertInv, NEW x \in Fire!Actors, Fire!Update(x)
    PROVE  AlertInv'
<1> USE DEF instant, quiet, raised, busy, since, fired, listed, mark, rowRead, lapses
<1>1. CASE Fire!TakeLock(x)
  <2>1. /\ busy[x] = "marking" /\ busy' = [busy EXCEPT ![x] = "locked"]
        /\ rowRead' = [rowRead EXCEPT ![x] = raised[mark[x].id]]
        /\ UNCHANGED <<instant, quiet, raised, since, fired, listed, mark, lapses>>
    BY <1>1 DEF Fire!TakeLock, Fire!Go
  <2>2. AlertTypes'
    BY <2>1 DEF AlertInv, AlertTypes, AlertSteps, RaisedIds
  <2>3. \A y \in Fire!Actors : InHand(y)'
    BY <2>1 DEF AlertInv, AlertTypes, InHand, RaisedIds
  <2>4. \A q \in Alerters : OnList(q)'
    BY <2>1 DEF AlertInv, AlertTypes, OnList, HasList, Fire!Actors
  <2>5. busy'[x] # "claimed" /\ \A y \in Fire!Actors : y # x => busy'[y] = busy[y]
    BY <2>1 DEF AlertInv, AlertTypes
  <2> QED
    BY <2>1, <2>2, <2>3, <2>4, <2>5, DeliveryKeeps
<1>2. CASE Fire!TakeLockFails(x)
  BY <1>2, ReturnKeeps DEF Fire!TakeLockFails, Fire!Fault
<1>3. CASE Fire!WriteRow(x)
  BY <1>3, ReturnKeeps DEF Fire!WriteRow
<1>4. CASE Fire!WriteRowFails(x)
  BY <1>4, ReturnKeeps DEF Fire!WriteRowFails, Fire!Fault
<1> QED
  BY <1>1, <1>2, <1>3, <1>4 DEF Fire!Update

LEMMA AlertNext == ASSUME AlertHypotheses, AlertInv, Fire!Next PROVE AlertInv'
<1> USE DEF instant, quiet, raised, busy, since, fired, listed, mark, rowRead, lapses
<1>1. ASSUME NEW p \in Alerters, Fire!Evaluation(p) PROVE AlertInv'
  BY <1>1, EvaluateKeeps, EvaluationKeeps DEF Fire!Evaluation
<1>2. ASSUME NEW p \in Alerters, Fire!Delivery(p) PROVE AlertInv'
  <2>1. CASE Fire!ListPending(p) \/ Fire!Skip(p)
    BY <2>1, ListKeeps
  <2>2. CASE Fire!GiveUp(p) \/ Fire!DeliverNothing(p) \/ Fire!Post(p) \/ Fire!PostFails(p)
    <3>1. PICK status \in AlertWords, attempts \in Nat : Fire!Mark(p, Fire!AlertInHand(p), status, attempts)
      <4>1. Fire!Delivering(p)
        BY <2>2 DEF Fire!GiveUp, Fire!DeliverNothing, Fire!Post, Fire!PostFails
      <4>2. Fire!RowInHand(p).attempts \in Nat /\ Fire!RowInHand(p).attempts + 1 \in Nat
        BY <4>1, HandOfList DEF AlertRows
      <4>3. {"failed", "delivered", "pending"} \subseteq AlertWords
        BY DEF AlertWords, Fire!Statuses
      <4> QED
        BY <2>2, <4>2, <4>3 DEF Fire!GiveUp, Fire!DeliverNothing, Fire!Post, Fire!PostFails
    <3>2. Fire!Delivering(p) /\ lapses' \in {lapses, lapses + 1}
      BY <2>2 DEF Fire!GiveUp, Fire!DeliverNothing, Fire!Post, Fire!PostFails, Fire!Fault
    <3> QED
      BY <3>1, <3>2, MarkKeeps
  <2> QED
    BY <1>2, <2>1, <2>2 DEF Fire!Delivery
<1>3. ASSUME NEW p \in Alerters, Fire!Crash(p) PROVE AlertInv'
  <2>1. /\ busy' = [busy EXCEPT ![p] = "idle"] /\ p \in Fire!Actors /\ lapses' = lapses + 1
        /\ fired' = [fired EXCEPT ![p] = <<>>] /\ listed' = [listed EXCEPT ![p] = <<>>]
        /\ since' = [since EXCEPT ![p] = 0] /\ mark' = [mark EXCEPT ![p] = Fire!NoMark]
        /\ rowRead' = [rowRead EXCEPT ![p] = Fire!NoRow] /\ UNCHANGED <<instant, quiet, raised>>
    BY <1>3 DEF Fire!Crash, Fire!Go, Fire!Fault, Fire!Actors
  <2>2. AlertTypes'
    <3>1. /\ RaisedIds' = RaisedIds /\ instant' \in Nat /\ lapses' \in Nat
          /\ quiet' \in [AlertGroups -> Nat] /\ raised' \in Seq(AlertRows)
      BY <2>1 DEF AlertInv, AlertTypes, RaisedIds
    <3>2. busy' \in [Fire!Actors -> AlertSteps] /\ since' \in [Alerters -> Nat]
      BY <2>1 DEF AlertInv, AlertTypes, AlertSteps
    <3>3. /\ fired' \in [Alerters -> Seq(AlertGroups)]
          /\ listed' \in [Alerters -> Seq(RaisedIds \X AlertRows)]
      <4>1. \A S : <<>> \in Seq(S)
        OBVIOUS
      <4> QED
        BY <2>1, <4>1 DEF AlertInv, AlertTypes
    <3>4. /\ mark' \in [Fire!Actors -> [id : Nat, status : AlertWords, attempts : Nat]]
          /\ DOMAIN rowRead' = Fire!Actors /\ rowRead' = [y \in Fire!Actors |-> rowRead'[y]]
      <4>1. Fire!NoMark \in [id : Nat, status : AlertWords, attempts : Nat]
        BY DEF Fire!NoMark, AlertWords, Fire!Statuses
      <4> QED
        BY <2>1, <4>1 DEF AlertInv, AlertTypes
    <3> QED
      BY <3>1, <3>2, <3>3, <3>4 DEF AlertTypes
  <2>3. \A y \in Fire!Actors : InHand(y)'
    BY <2>1 DEF AlertInv, AlertTypes, InHand, RaisedIds
  <2>4. \A q \in Alerters : OnList(q)'
    BY <2>1 DEF AlertInv, AlertTypes, OnList, HasList, Fire!Actors
  <2>5. \A g : ClaimsOf(g)' \subseteq ClaimsOf(g) /\ AlertsOf(g)' = AlertsOf(g)
    BY <2>1 DEF AlertInv, AlertTypes, ClaimsOf, AlertsOf, RaisedIds, Fire!Actors
  <2>6. instant <= instant'
    BY <2>1 DEF AlertInv, AlertTypes
  <2>7. \A g \in AlertGroups : Paid(g)'
    BY <2>1, <2>2, <2>5, <2>6, Unpaid
  <2>8. \A g : g # Head(fired[p]) => ClaimsOf(g)' = ClaimsOf(g)
    BY <2>1 DEF ClaimsOf, AlertInv, AlertTypes, Fire!Actors
  <2>9. Unmatched' \subseteq Unmatched \cup {Head(fired[p])}
    BY <2>1, <2>5, <2>8 DEF Unmatched
  <2>10. Matched'
    BY <2>1, <2>9, StaysMatched
  <2> QED
    BY <2>2, <2>3, <2>4, <2>7, <2>10 DEF AlertInv
<1>4. ASSUME NEW o \in AlertOperators, NEW a \in Fire!Ids,
             NEW target \in {"acknowledged", "resolved"},
             Fire!Triage(o, a, target)
      PROVE  AlertInv'
  <2>1. /\ busy[o] = "idle" /\ busy' = [busy EXCEPT ![o] = "marking"] /\ o \in Fire!Actors
        /\ mark' = [mark EXCEPT ![o] = [id |-> a, status |-> target, attempts |-> 0]]
        /\ UNCHANGED <<instant, quiet, raised, since, fired, listed, rowRead, lapses>>
    BY <1>4 DEF Fire!Triage, Fire!Go, Fire!Actors
  <2>2. a \in RaisedIds /\ a \in Nat /\ target \in AlertWords
    BY DEF Fire!Ids, RaisedIds, AlertWords, Fire!States
  <2>3. AlertTypes'
    BY <2>1, <2>2 DEF AlertInv, AlertTypes, AlertSteps, RaisedIds
  <2>4. \A y \in Fire!Actors : InHand(y)'
    BY <2>1, <2>2 DEF AlertInv, AlertTypes, InHand, RaisedIds
  <2>5. \A q \in Alerters : OnList(q)'
    BY <2>1 DEF AlertInv, AlertTypes, OnList, HasList, Fire!Actors
  <2>6. busy'[o] # "claimed" /\ \A y \in Fire!Actors : y # o => busy'[y] = busy[y]
    BY <2>1 DEF AlertInv, AlertTypes
  <2> QED
    BY <2>1, <2>3, <2>4, <2>5, <2>6, DeliveryKeeps
<1>5. ASSUME Fire!EditRule \/ Fire!Tick PROVE AlertInv'
  <2>1. /\ UNCHANGED <<quiet, raised, busy, since, fired, listed, mark, rowRead, lapses>>
        /\ instant' = instant \/ instant' = instant + 1
    BY <1>5 DEF Fire!EditRule, Fire!Tick, Fire!work
  <2>2. AlertTypes' /\ instant <= instant'
    BY <2>1 DEF AlertInv, AlertTypes, RaisedIds
  <2>3. (\A y \in Fire!Actors : InHand(y)') /\ \A q \in Alerters : OnList(q)'
    BY <2>1 DEF AlertInv, InHand, OnList, HasList, RaisedIds
  <2>4. \A g : ClaimsOf(g)' = ClaimsOf(g) /\ AlertsOf(g)' = AlertsOf(g)
    BY <2>1 DEF ClaimsOf, AlertsOf, RaisedIds
  <2>5. \A g \in AlertGroups : Paid(g)'
    BY <2>1, <2>2, <2>4, Unpaid
  <2>6. Matched'
    BY <2>1, <2>4, SameMatched
  <2> QED
    BY <2>2, <2>3, <2>5, <2>6 DEF AlertInv
<1>6. ASSUME NEW x \in Fire!Actors, Fire!Update(x) PROVE AlertInv'
  BY <1>6, UpdateKeeps
<1> QED
  BY <1>1, <1>2, <1>3, <1>4, <1>5, <1>6 DEF Fire!Next

LEMMA CooldownsFit == \A n, t \in Nat, c \in Nat \ {0} : n * c <= t + c => n <= (t \div c) + 1
OBVIOUS

LEMMA AlertSafe ==
    ASSUME AlertHypotheses, AlertInv
    PROVE  Fire!AlertsPerCooldown /\ Fire!SilenceHasAlert
<1> USE DEF instant, quiet, raised, busy, since, fired, listed, mark, rowRead, lapses
<1>1. Fire!AlertsPerCooldown
  <2> SUFFICES ASSUME NEW g \in AlertGroups
               PROVE  Cardinality(AlertsOf(g)) <= (instant \div AlertCooldown) + 1
    <3>1. \A S : Fire!Cardinality(S) = Cardinality(S)
      BY DEF Fire!Cardinality, Fire!IsFiniteSet, Cardinality, IsFiniteSet
    <3> QED
      BY <3>1 DEF Fire!AlertsPerCooldown, AlertsOf, RaisedIds, Fire!Ids
  <2>1. /\ Cardinality(AlertsOf(g)) \in Nat /\ Cardinality(ClaimsOf(g)) \in Nat
        /\ instant \in Nat /\ quiet[g] \in Nat
    BY AlertsAreCounted DEF AlertInv, AlertTypes
  <2>2. Cardinality(AlertsOf(g)) * AlertCooldown
           <= (Cardinality(AlertsOf(g)) + Cardinality(ClaimsOf(g))) * AlertCooldown
    <3>1. \A m, n, c \in Nat : m * c <= (m + n) * c
      OBVIOUS
    <3> QED
      BY <2>1, <3>1 DEF AlertHypotheses
  <2>3. PICK m \in Nat, n \in Nat :
           m = Cardinality(AlertsOf(g)) * AlertCooldown
           /\ n = (Cardinality(AlertsOf(g)) + Cardinality(ClaimsOf(g))) * AlertCooldown
    <3>1. \A k, l, c \in Nat : k * c \in Nat /\ (k + l) * c \in Nat
      OBVIOUS
    <3> QED
      BY <2>1, <3>1 DEF AlertHypotheses
  <2>4. Cardinality(AlertsOf(g)) * AlertCooldown <= instant + AlertCooldown
    BY <2>1, <2>2, <2>3 DEF AlertInv, Paid, AlertHypotheses
  <2> QED
    BY <2>1, <2>4, CooldownsFit DEF AlertHypotheses
<1>2. Fire!SilenceHasAlert
  <2>1. Fire!SilencedByNothing \subseteq Unmatched
    BY DEF Fire!SilencedByNothing, Unmatched, AlertsOf, ClaimsOf, RaisedIds, Fire!Ids,
        AlertInv, AlertTypes
  <2>2. /\ IsFiniteSet(Unmatched) /\ Cardinality(Unmatched) \in Nat
        /\ Cardinality(Unmatched) <= lapses /\ lapses \in Nat
    BY FS_CardinalityType DEF AlertInv, Matched, AlertTypes
  <2>3. /\ Cardinality(Fire!SilencedByNothing) <= Cardinality(Unmatched)
        /\ Cardinality(Fire!SilencedByNothing) \in Nat
    BY <2>1, <2>2, FS_Subset, FS_CardinalityType
  <2>4. \A S : Fire!Cardinality(S) = Cardinality(S)
    BY DEF Fire!Cardinality, Fire!IsFiniteSet, Cardinality, IsFiniteSet
  <2>5. Cardinality(Fire!SilencedByNothing) <= lapses
    BY <2>2, <2>3
  <2> QED
    BY <2>4, <2>5 DEF Fire!SilenceHasAlert
<1> QED
  BY <1>1, <1>2

LEMMA AlertStutters == ASSUME AlertHypotheses, AlertInv, UNCHANGED shared PROVE AlertInv'
<1> USE DEF instant, quiet, raised, busy, since, fired, listed, mark, rowRead, lapses
<1>1. UNCHANGED <<instant, quiet, raised, busy, since, fired, listed, mark, rowRead, lapses>>
  BY DEF shared
<1>2. AlertTypes'
  BY <1>1 DEF AlertInv, AlertTypes, RaisedIds
<1>3. (\A x \in Fire!Actors : InHand(x)') /\ \A p \in Alerters : OnList(p)'
  BY <1>1 DEF AlertInv, InHand, OnList, HasList, RaisedIds
<1>4. \A g : ClaimsOf(g)' = ClaimsOf(g) /\ AlertsOf(g)' = AlertsOf(g)
  BY <1>1 DEF ClaimsOf, AlertsOf, RaisedIds
<1>5. instant <= instant' /\ UNCHANGED <<quiet, lapses>>
  BY <1>1 DEF AlertInv, AlertTypes
<1>6. \A g \in AlertGroups : Paid(g)'
  BY <1>2, <1>4, <1>5, Unpaid
<1>7. Matched'
  BY <1>4, <1>5, SameMatched
<1> QED
  BY <1>2, <1>3, <1>6, <1>7 DEF AlertInv

(* However many processors evaluate the rule, a group is alerted of once   *)
(* per cooldown, and it is silent only after an alert or with one about to *)
(* be stored, but for one group per failed call or crash; for any          *)
(* processors, groups, cooldown, edits, failures and crashes.              *)
THEOREM AlertsOfConsoleAreSingle == ASSUME AlertHypotheses PROVE MCSpec => []OneAlertPerSilence
<1> DEFINE Inv == scenario \in {"edit", "fire"} => AlertInv
<1>1. MCInit => Inv
  BY AlertInit DEF MCInit
<1>2. Inv /\ [MCNext]_<<vars, shared, scenario>> => Inv'
  <2> SUFFICES ASSUME Inv, [MCNext]_<<vars, shared, scenario>>, scenario' \in {"edit", "fire"}
               PROVE  AlertInv'
    OBVIOUS
  <2>1. scenario \in {"edit", "fire"} /\ AlertInv
    BY DEF MCNext
  <2>2. CASE UNCHANGED <<vars, shared, scenario>>
    BY <2>1, <2>2, AlertStutters
  <2>3. CASE MCNext
    <3>1. Fire!Next
      BY <2>1, <2>3 DEF MCNext
    <3> QED
      BY <2>1, <3>1, AlertNext
  <2> QED
    BY <2>2, <2>3
<1>3. Inv => OneAlertPerSilence
  BY AlertSafe DEF OneAlertPerSilence
<1> QED
  BY <1>1, <1>2, <1>3, PTL DEF MCSpec

-----------------------------------------------------------------------------
(* The listings.                                                           *)

(* The variables of Search, by what they are there.                        *)
holding == s1
listable == s2
usedIds == s3
search == s4
still == s5

(* What a listing may show: the newest version of each row.                *)
NewestRows == Paging!Newest(listable)

(* Identifiers are ordered as numbers and a page has room for a row.       *)
SearchHypotheses ==
    SearchIds \subseteq Nat /\ SearchTimes \in Nat /\ SearchPage \in Nat \ {0} /\ SearchCap \in Nat

SearchRows == [id : SearchIds, time : 0..SearchTimes, version : Nat]
SearchJobs == [kind : {"events", "export", "records"}, cursor : [time : Nat, id : Nat],
               listed : Seq(SearchIds), done : BOOLEAN]

SearchTypes ==
    /\ holding \in {"events", "records"}
    /\ listable \subseteq SearchRows /\ usedIds \subseteq SearchIds
    /\ \A r \in listable : r.id \in usedIds
    /\ search # Paging!NoJob => search \in SearchJobs

(* A version is one row, and time advances with it; an event's stays.      *)
VersionsInOrder ==
    \A r, s \in listable :
        r.id = s.id => /\ r.version = s.version => r = s
                       /\ r.version <= s.version => r.time <= s.time
                       /\ holding = "events" => r.time = s.time

IsAfter(r, c) == r.time < c.time \/ (r.time = c.time /\ r.id < c.id)
ListedIds == {search.listed[n] : n \in DOMAIN search.listed}

ListedOnce ==
    /\ \A m, n \in DOMAIN search.listed : search.listed[m] = search.listed[n] => m = n
    /\ ListedIds \subseteq usedIds

(* The cursor parts what was listed from what is to come.                  *)
CursorParts ==
    /\ \A r \in NewestRows : r.id \in ListedIds => ~IsAfter(r, search.cursor)
    /\ \A i \in still : \E r \in NewestRows :
          r.id = i /\ (i \in ListedIds \/ IsAfter(r, search.cursor))

(* A listing read to its end holds all that stood still.                   *)
AllListed ==
    (search.kind = "export" => Len(search.listed) < SearchCap) => still \subseteq ListedIds

SearchInv ==
    /\ SearchTypes /\ VersionsInOrder
    /\ search # Paging!NoJob =>
          /\ ListedOnce
          /\ ~search.done => CursorParts
          /\ search.done => AllListed

LEMMA SearchInit == ASSUME SearchHypotheses, Paging!Init PROVE SearchInv
<1> USE DEF holding, listable, usedIds, search, still, NewestRows
<1>1. PICK present \in SUBSET SearchIds, time \in [SearchIds -> 0..SearchTimes] :
         /\ listable = {[id |-> i, time |-> time[i], version |-> 1] : i \in present}
         /\ usedIds = present
  BY DEF Paging!Init
<1>2. SearchTypes
  BY <1>1 DEF Paging!Init, SearchTypes, SearchRows
<1>3. VersionsInOrder
  BY <1>1 DEF VersionsInOrder, SearchHypotheses
<1> QED
  BY <1>2, <1>3 DEF SearchInv, Paging!Init

(* What a page is cut from.                                                *)
LEMMA RowsAreNumbers ==
    ASSUME SearchHypotheses, NEW r \in SearchRows
    PROVE  r.time \in Int /\ r.id \in Int /\ r.time \in Nat /\ r.id \in Nat
<1>1. r.time \in 0..SearchTimes /\ r.id \in SearchIds
  BY DEF SearchRows
<1>2. r.id \in Nat
  BY <1>1 DEF SearchHypotheses
<1>3. r.time \in Nat
  BY <1>1 DEF SearchHypotheses
<1> QED
  BY <1>2, <1>3

LEMMA MatchedIs ==
    ASSUME SearchTypes, VersionsInOrder, NEW c
    PROVE  Paging!Matched(c) = {r \in NewestRows : IsAfter(r, c)}
<1> USE DEF holding, listable, usedIds, search, still, NewestRows
<1>1. \A r \in listable : r \in Paging!After(listable, c) <=> IsAfter(r, c)
  BY DEF Paging!After, IsAfter
<1>2. /\ Paging!After(listable, c) \subseteq listable
      /\ Paging!After(NewestRows, c) = {r \in NewestRows : IsAfter(r, c)}
  BY DEF Paging!After, IsAfter, Paging!Newest
<1>3. ASSUME holding = "events" PROVE Paging!Newest(Paging!After(listable, c)) = {r \in NewestRows : IsAfter(r, c)}
  <2>1. \A r, s \in listable : r.id = s.id /\ IsAfter(r, c) => IsAfter(s, c)
    BY <1>3 DEF VersionsInOrder, IsAfter
  <2> QED
    BY <1>1, <1>2, <2>1 DEF Paging!Newest
<1> QED
  BY <1>2, <1>3 DEF Paging!Matched, SearchTypes

LEMMA NewestIsOne ==
    ASSUME SearchTypes, VersionsInOrder
    PROVE  /\ NewestRows \subseteq listable
           /\ \A r, s \in NewestRows : r.id = s.id => r = s
<1> USE DEF holding, listable, usedIds, search, still, NewestRows
<1> QED
  BY DEF SearchTypes, VersionsInOrder, Paging!Newest, SearchRows

LEMMA BeginKeeps == ASSUME SearchHypotheses, SearchInv, Paging!Begin PROVE SearchInv'
<1> USE DEF holding, listable, usedIds, search, still, NewestRows
<1>1. /\ holding' = holding /\ listable' = listable /\ usedIds' = usedIds
      /\ still' = {r.id : r \in NewestRows}
      /\ search'.listed = <<>> /\ search'.cursor = Paging!NoCursor /\ search'.done = FALSE
      /\ search' \in SearchJobs
  BY DEF Paging!Begin, SearchJobs, Paging!NoCursor, SearchHypotheses
<1>2. SearchTypes' /\ VersionsInOrder'
  BY <1>1 DEF SearchInv, SearchTypes, VersionsInOrder
<1>3. ListedIds' = {} /\ NewestRows' = NewestRows
  BY <1>1 DEF ListedIds, Paging!Newest
<1>4. ListedOnce'
  BY <1>1, <1>3 DEF ListedOnce
<1>5. \A r \in NewestRows : IsAfter(r, Paging!NoCursor)
  BY DEF SearchInv, SearchTypes, SearchRows, Paging!Newest, IsAfter, Paging!NoCursor,
      SearchHypotheses
<1>6. CursorParts'
  BY <1>1, <1>3, <1>5 DEF CursorParts, IsAfter
<1> QED
  BY <1>1, <1>2, <1>4, <1>6 DEF SearchInv

(* Nothing but the table changes: the newest row of what is listed does    *)
(* not go back, and of what stood still it stays where it was.             *)
LEMMA TableKeeps ==
    ASSUME SearchInv, holding' = holding, search' = search, search # Paging!NoJob,
           SearchTypes', VersionsInOrder', usedIds \subseteq usedIds', still' \subseteq still,
           ~search.done => \A s \in NewestRows' : s.id \in ListedIds =>
                              \E r \in NewestRows : r.id = s.id /\ r.time <= s.time,
           ~search.done => \A r \in NewestRows : r.id \in still' =>
                              \E s \in NewestRows' : s.id = r.id /\ s.time = r.time
    PROVE  SearchInv'
<1> USE DEF holding, listable, usedIds, search, still, NewestRows
<1>1. ListedIds' = ListedIds /\ (search # Paging!NoJob)'
  BY DEF ListedIds
<1>2. ListedOnce'
  BY <1>1 DEF SearchInv, ListedOnce
<1>3. search.done => AllListed'
  BY <1>1 DEF SearchInv, AllListed
<1>4. ASSUME ~search.done PROVE CursorParts'
  <2>1. CursorParts /\ search \in SearchJobs
    BY <1>4 DEF SearchInv, SearchTypes
  <2>2. \A r \in NewestRows : r \in SearchRows
    BY DEF SearchInv, SearchTypes, Paging!Newest
  <2>3. \A s \in NewestRows' : s \in SearchRows
    BY DEF SearchTypes, Paging!Newest
  <2>4. ASSUME NEW s \in NewestRows', s.id \in ListedIds' PROVE ~IsAfter(s, search.cursor)
    <3>1. PICK r \in NewestRows : r.id = s.id /\ r.time <= s.time
      BY <1>1, <1>4, <2>4
    <3>2. ~IsAfter(r, search.cursor)
      BY <1>1, <2>1, <2>4, <3>1 DEF CursorParts
    <3> QED
      BY <2>1, <2>2, <2>3, <3>1, <3>2 DEF IsAfter, SearchJobs, SearchRows
  <2>5. ASSUME NEW i \in still'
        PROVE  \E s \in NewestRows' : s.id = i /\ (i \in ListedIds' \/ IsAfter(s, search.cursor))
    <3>1. PICK r \in NewestRows : r.id = i /\ (i \in ListedIds \/ IsAfter(r, search.cursor))
      BY <2>1 DEF CursorParts
    <3>2. PICK s \in NewestRows' : s.id = r.id /\ s.time = r.time
      BY <1>4, <3>1
    <3> QED
      BY <1>1, <3>1, <3>2 DEF IsAfter
  <2> QED
    BY <2>4, <2>5 DEF CursorParts, IsAfter
<1> QED
  BY <1>1, <1>2, <1>3, <1>4 DEF SearchInv

(* A version more of one row.                                              *)
LEMMA VersionKeeps ==
    ASSUME SearchTypes, VersionsInOrder, NEW r \in NewestRows,
           NEW t \in 0..SearchTimes, t >= r.time,
           holding = "events" => t = r.time, SearchHypotheses, holding' = holding,
           usedIds' = usedIds, search' = search,
           listable' = listable \cup {[r EXCEPT !.version = @ + 1, !.time = t]}
    PROVE  /\ SearchTypes' /\ VersionsInOrder'
           /\ NewestRows' = (NewestRows \ {r}) \cup {[r EXCEPT !.version = @ + 1, !.time = t]}
<1> USE DEF holding, listable, usedIds, search, still, NewestRows
<1>1. PICK q : q = [r EXCEPT !.version = @ + 1, !.time = t]
  OBVIOUS
<1>2. r \in listable /\ r \in SearchRows /\ listable \subseteq SearchRows
  BY DEF Paging!Newest, SearchTypes
<1>3. /\ q \in SearchRows /\ q.id = r.id /\ q.time = t /\ q.version = r.version + 1
      /\ t \in Nat /\ r.time \in Nat /\ r.version \in Nat
  <2>1. /\ r.id \in SearchIds /\ r.time \in Nat /\ r.version \in Nat /\ t \in Nat
        /\ DOMAIN r = {"id", "time", "version"}
    BY <1>2 DEF SearchRows, SearchHypotheses
  <2>2. q = [id |-> r.id, time |-> t, version |-> r.version + 1]
    BY <1>1, <1>2 DEF SearchRows
  <2> QED
    BY <2>1, <2>2 DEF SearchRows
<1>4. \A s \in listable : s.id = q.id =>
          s.version < q.version /\ s.time <= q.time /\ (holding = "events" => s.time = q.time)
  BY <1>2, <1>3 DEF Paging!Newest, VersionsInOrder, SearchRows
<1>5. SearchTypes'
  BY <1>1, <1>2, <1>3 DEF SearchTypes
<1>5a. \A s \in listable : s.version \in Nat /\ s.time \in Nat
  BY <1>2 DEF SearchRows, SearchHypotheses
<1>6. VersionsInOrder'
  <2> SUFFICES ASSUME NEW a \in listable', NEW b \in listable', a.id = b.id
               PROVE  /\ a.version = b.version => a = b
                      /\ a.version <= b.version => a.time <= b.time
                      /\ holding = "events" => a.time = b.time
    BY DEF VersionsInOrder
  <2>1. listable' = listable \cup {q}
    BY <1>1
  <2>2. CASE a \in listable /\ b \in listable
    BY <2>2 DEF VersionsInOrder
  <2>3. CASE a = q \/ b = q
    BY <1>3, <1>4, <1>5a, <2>1, <2>3
  <2> QED
    BY <2>1, <2>2, <2>3
<1>7. NewestRows' = (NewestRows \ {r}) \cup {q}
  <2>1. listable' = listable \cup {q} /\ q \notin listable
    <3>1. ~(q.version < q.version)
      BY <1>3
    <3> QED
      BY <1>1, <1>4, <3>1
  <2>2. \A s \in NewestRows : s.id = r.id => s = r
    BY NewestIsOne
  <2>3. q \in NewestRows'
    BY <1>3, <1>4, <1>5a, <2>1 DEF Paging!Newest
  <2>4. ASSUME NEW s \in listable PROVE s \in NewestRows' <=> s \in NewestRows /\ s # r
    <3>1. CASE s.id = r.id
      <4>1. s \notin NewestRows'
        BY <1>3, <1>4, <1>5a, <2>1, <3>1 DEF Paging!Newest
      <4> QED
        BY <2>2, <3>1, <4>1
    <3>2. CASE s.id # r.id
      BY <1>3, <2>1, <3>2 DEF Paging!Newest
    <3> QED
      BY <3>1, <3>2
  <2>5. /\ NewestRows' \subseteq listable \cup {q}
        /\ NewestRows \subseteq listable
    BY <2>1 DEF Paging!Newest
  <2> QED
    BY <2>1, <2>3, <2>4, <2>5
<1> QED
  BY <1>1, <1>5, <1>6, <1>7

LEMMA ChangesKeep ==
    ASSUME SearchHypotheses, SearchInv,
           Paging!Arrive \/ Paging!Redeliver \/ Paging!Amend \/ Paging!Merge \/ Paging!Delete
    PROVE  SearchInv'
<1> USE DEF holding, listable, usedIds, search, still, NewestRows
<1>1. /\ SearchTypes /\ VersionsInOrder /\ NewestRows \subseteq listable
      /\ listable \subseteq SearchRows
  BY NewestIsOne DEF SearchInv, SearchTypes
<1>2. CASE Paging!Arrive
  <2>1. PICK i \in SearchIds \ usedIds, t \in 0..SearchTimes :
           /\ listable' = listable \cup {[id |-> i, time |-> t, version |-> 1]}
           /\ usedIds' = usedIds \cup {i}
    BY <1>2 DEF Paging!Arrive
  <2>2. UNCHANGED <<holding, search, still>> /\ search # Paging!NoJob
    BY <1>2 DEF Paging!Arrive, Paging!Change
  <2>3. PICK q : q = [id |-> i, time |-> t, version |-> 1]
    OBVIOUS
  <2>4. /\ q \in SearchRows /\ q.id = i /\ listable' = listable \cup {q}
        /\ \A r \in listable : r.id # i
    BY <1>1, <2>1, <2>3 DEF SearchTypes, SearchRows
  <2>5. SearchTypes'
    BY <1>1, <2>1, <2>2, <2>4 DEF SearchTypes
  <2>6. VersionsInOrder'
    BY <1>1, <2>2, <2>4 DEF VersionsInOrder, SearchRows
  <2>7. NewestRows' = NewestRows \cup {q}
    <3>1. q.version <= q.version
      BY <2>4 DEF SearchRows
    <3>2. \A r \in listable : r \in NewestRows' <=> r \in NewestRows
      BY <2>4 DEF Paging!Newest
    <3>3. /\ q \in NewestRows'
          /\ NewestRows' \subseteq listable \cup {q}
          /\ NewestRows \subseteq listable
      BY <2>4, <3>1 DEF Paging!Newest
    <3> QED
      BY <3>2, <3>3
  <2>8. \A s \in NewestRows' : s.id \in ListedIds => s \in NewestRows
    BY <2>1, <2>2, <2>4, <2>7 DEF SearchInv, ListedOnce
  <2>9. \A r \in NewestRows : r.time <= r.time
    BY <1>1 DEF SearchRows
  <2> QED
    BY <2>1, <2>2, <2>5, <2>6, <2>7, <2>8, <2>9, TableKeeps
<1>3. CASE Paging!Redeliver \/ Paging!Amend
  <2>1. PICK r \in NewestRows, t \in 0..SearchTimes :
           /\ t >= r.time /\ (holding = "events" => t = r.time)
           /\ listable' = listable \cup {[r EXCEPT !.version = @ + 1, !.time = t]}
           /\ still' = still \/ still' = still \ {r.id}
           /\ t # r.time => still' = still \ {r.id}
    <3>1. CASE Paging!Redeliver
      <4>1. PICK r \in NewestRows : listable' = listable \cup {[r EXCEPT !.version = @ + 1]}
        BY <3>1 DEF Paging!Redeliver
      <4>2. r \in SearchRows /\ r.time \in 0..SearchTimes
        BY <1>1 DEF SearchRows
      <4>3. [r EXCEPT !.version = @ + 1] = [r EXCEPT !.version = @ + 1, !.time = r.time]
        BY <4>2 DEF SearchRows
      <4>4. r.time >= r.time /\ still' = still
        BY <3>1, <4>2 DEF Paging!Redeliver
      <4>5. listable' = listable \cup {[r EXCEPT !.version = @ + 1, !.time = r.time]}
        BY <4>1, <4>3
      <4> QED
        BY <4>2, <4>4, <4>5
    <3>2. CASE Paging!Amend
      BY <3>2 DEF Paging!Amend
    <3> QED
      BY <1>3, <3>1, <3>2
  <2>2. holding' = holding /\ usedIds' = usedIds /\ search' = search /\ search # Paging!NoJob
    BY <1>3 DEF Paging!Redeliver, Paging!Amend, Paging!Change
  <2>3. PICK q : q = [r EXCEPT !.version = @ + 1, !.time = t]
    OBVIOUS
  <2>4. /\ SearchTypes' /\ VersionsInOrder'
        /\ NewestRows' = (NewestRows \ {r}) \cup {q}
    BY <1>1, <2>1, <2>2, <2>3, VersionKeeps
  <2>5. q.id = r.id /\ q.time = t /\ r \in SearchRows
    BY <1>1, <2>3 DEF SearchRows
  <2>6. \A s \in NewestRows : s.time <= s.time
    BY <1>1 DEF SearchRows
  <2>7. \A s \in NewestRows' : \E o \in NewestRows : o.id = s.id /\ o.time <= s.time
    BY <2>1, <2>4, <2>5, <2>6 DEF SearchRows
  <2>8. \A o \in NewestRows : o.id \in still' => \E s \in NewestRows' : s.id = o.id /\ s.time = o.time
    BY <2>1, <2>4, <2>5
  <2>9. still' \subseteq still
    BY <2>1
  <2> QED
    BY <2>2, <2>4, <2>7, <2>8, <2>9, TableKeeps
<1>4. CASE Paging!Merge
  <2>1. PICK o \in listable \ NewestRows : listable' = listable \ {o}
    BY <1>4 DEF Paging!Merge
  <2>2. UNCHANGED <<holding, usedIds, search, still>>
    BY <1>4 DEF Paging!Merge
  <2>3. NewestRows' = NewestRows
    <3>1. PICK p \in listable : p.id = o.id /\ ~(p.version <= o.version)
      BY <2>1 DEF Paging!Newest
    <3>2. p \in listable' /\ p # o
      <4>1. o.version <= o.version
        BY <1>1, <2>1 DEF SearchRows
      <4> QED
        BY <2>1, <3>1, <4>1
    <3>3. \A s \in listable' : s \in NewestRows' /\ s.id = o.id => o.version <= s.version
      BY <1>1, <2>1, <3>1, <3>2 DEF Paging!Newest, SearchRows
    <3> QED
      BY <2>1, <3>3 DEF Paging!Newest
  <2>4. SearchTypes'
    BY <1>1, <2>1, <2>2 DEF SearchTypes
  <2>5. VersionsInOrder'
    BY <1>1, <2>1, <2>2 DEF VersionsInOrder
  <2>6. CASE search = Paging!NoJob
    BY <2>2, <2>4, <2>5, <2>6 DEF SearchInv
  <2>7. CASE search # Paging!NoJob
    <3>1. \A s \in NewestRows : s.time <= s.time
      BY <1>1 DEF SearchRows
    <3> QED
      BY <2>2, <2>3, <2>4, <2>5, <2>7, <3>1, TableKeeps
  <2> QED
    BY <2>6, <2>7
<1>5. CASE Paging!Delete
  <2>1. PICK i : listable' = {r \in listable : r.id # i} /\ still' = still \ {i}
    BY <1>5 DEF Paging!Delete
  <2>2. UNCHANGED <<holding, usedIds, search>> /\ search # Paging!NoJob
    BY <1>5 DEF Paging!Delete, Paging!Change
  <2>3. NewestRows' = {r \in NewestRows : r.id # i}
    BY <2>1 DEF Paging!Newest
  <2>4. SearchTypes'
    BY <1>1, <2>1, <2>2 DEF SearchTypes
  <2>5. VersionsInOrder'
    BY <1>1, <2>1, <2>2 DEF VersionsInOrder
  <2>6. \A s \in NewestRows : s.time <= s.time
    BY <1>1 DEF SearchRows
  <2> QED
    BY <2>1, <2>2, <2>3, <2>4, <2>5, <2>6, TableKeeps
<1> QED
  BY <1>2, <1>3, <1>4, <1>5

(* Rows appended to a listing.                                             *)
LEMMA RowsAppended ==
    ASSUME NEW S, NEW s \in Seq(S), NEW n \in Nat, NEW f \in [1..n -> S]
    PROVE  /\ s \o f \in Seq(S) /\ Len(s \o f) = Len(s) + n
           /\ \A k \in 1..Len(s) : (s \o f)[k] = s[k]
           /\ \A k \in 1..n : (s \o f)[Len(s) + k] = f[k]
           /\ \A k \in DOMAIN (s \o f) :
                 k \in 1..Len(s) \/ (k - Len(s) \in 1..n /\ (s \o f)[k] = f[k - Len(s)])
<1>1. f \in Seq(S) /\ Len(f) = n
  OBVIOUS
<1>2. s \o f \in Seq(S) /\ Len(s \o f) = Len(s) + n
  BY <1>1
<1> QED
  BY <1>1, <1>2

LEMMA NeverBoth ==
    ASSUME SearchHypotheses
    PROVE  \A r, s \in SearchRows : Paging!Before(r, s) => r # s /\ ~Paging!Before(s, r)
<1> SUFFICES ASSUME NEW r \in SearchRows, NEW s \in SearchRows, Paging!Before(r, s)
             PROVE  r # s /\ ~Paging!Before(s, r)
  OBVIOUS
<1>1. r.time \in Int /\ r.id \in Int /\ s.time \in Int /\ s.id \in Int
  BY RowsAreNumbers
<1> QED
  BY <1>1 DEF Paging!Before

LEMMA PageKeeps == ASSUME SearchHypotheses, SearchInv, Paging!Page PROVE SearchInv'
<1> USE DEF holding, listable, usedIds, search, still, NewestRows
<1>1. /\ search # Paging!NoJob /\ ~search.done /\ search \in SearchJobs /\ SearchTypes
      /\ VersionsInOrder
      /\ ListedOnce /\ CursorParts /\ UNCHANGED <<holding, listable, usedIds, still>>
  BY DEF Paging!Page, SearchInv, SearchTypes
<1>2. PICK M : M = Paging!Matched(search.cursor)
  OBVIOUS
<1>3. PICK n \in 0..SearchPage : \E items \in [1..n -> M] :
         /\ Paging!FirstOf(items, M)
         /\ search' = [search EXCEPT
               !.listed = search.listed \o [i \in 1..n |-> items[i].id],
               !.cursor = IF M # Paging!Range(items)
                          THEN [time |-> items[SearchPage].time, id |-> items[SearchPage].id]
                          ELSE @,
               !.done = M = Paging!Range(items)
                        \/ /\ search.kind = "export"
                           /\ Len(search.listed \o [i \in 1..n |-> items[i].id]) >= SearchCap]
  BY <1>2 DEF Paging!Page
<1>4. PICK items \in [1..n -> M] :
         /\ Paging!FirstOf(items, M)
         /\ search' = [search EXCEPT
               !.listed = search.listed \o [i \in 1..n |-> items[i].id],
               !.cursor = IF M # Paging!Range(items)
                          THEN [time |-> items[SearchPage].time, id |-> items[SearchPage].id]
                          ELSE @,
               !.done = M = Paging!Range(items)
                        \/ /\ search.kind = "export"
                           /\ Len(search.listed \o [i \in 1..n |-> items[i].id]) >= SearchCap]
  BY <1>3
<1>5. PICK ids : ids = [i \in 1..n |-> items[i].id]
  OBVIOUS
<1>6. /\ M = {r \in NewestRows : IsAfter(r, search.cursor)}
      /\ M \subseteq SearchRows
      /\ NewestRows \subseteq SearchRows
      /\ NewestRows' = NewestRows
      /\ \A r, s \in NewestRows : r.id = s.id => r = s
  BY <1>1, <1>2, MatchedIs, NewestIsOne DEF SearchTypes, Paging!Newest
<1>7. /\ n \in Nat /\ ids \in [1..n -> SearchIds]
      /\ \A k \in 1..n : ids[k] = items[k].id /\ items[k] \in M
  BY <1>4, <1>5, <1>6 DEF SearchRows, SearchHypotheses
<1>8. PICK more : more = (search.listed \o ids)
  OBVIOUS
<1>9. /\ more \in Seq(SearchIds) /\ Len(more) = Len(search.listed) + n
      /\ \A k \in 1..Len(search.listed) : more[k] = search.listed[k]
      /\ \A k \in 1..n : more[Len(search.listed) + k] = ids[k]
      /\ \A k \in DOMAIN more :
            \/ k \in 1..Len(search.listed)
            \/ (k - Len(search.listed) \in 1..n /\ more[k] = ids[k - Len(search.listed)])
  BY <1>1, <1>7, <1>8, RowsAppended DEF SearchJobs
<1>10. /\ search'.listed = more /\ search'.kind = search.kind /\ DOMAIN search' = DOMAIN search
       /\ search'.cursor = IF M # Paging!Range(items)
                           THEN [time |-> items[SearchPage].time, id |-> items[SearchPage].id]
                           ELSE search.cursor
       /\ search'.done = (\/ M = Paging!Range(items)
                          \/ (search.kind = "export" /\ Len(more) >= SearchCap))
  BY <1>1, <1>4, <1>5, <1>8 DEF SearchJobs
<1>11. Paging!Range(items) = {items[k] : k \in 1..n}
  BY <1>4 DEF Paging!Range
(* A page that is not the last is full, and its last row comes before what it leaves. *)
<1>12. ASSUME M # Paging!Range(items)
       PROVE  /\ SearchPage = n /\ n \in 1..n
              /\ \A r \in M \ Paging!Range(items) : Paging!Before(items[n], r)
              /\ \A k \in 1..n : k = n \/ Paging!Before(items[k], items[n])
  <2>1. PICK r \in M : r \notin Paging!Range(items)
    BY <1>7, <1>11, <1>12
  <2>2. DOMAIN items = 1..n /\ Len(items) = n
    BY <1>4, <1>7
  <2>3. n = SearchPage
    BY <1>4, <2>1, <2>2 DEF Paging!FirstOf
  <2>4. n \in 1..n
    BY <2>3 DEF SearchHypotheses
  <2> QED
    BY <1>4, <2>2, <2>3, <2>4 DEF Paging!FirstOf
<1>13. search' \in SearchJobs
  <2>1. M # Paging!Range(items) =>
           [time |-> items[SearchPage].time, id |-> items[SearchPage].id] \in [time : Nat, id : Nat]
    <3> SUFFICES ASSUME M # Paging!Range(items)
                 PROVE  items[SearchPage].time \in Nat /\ items[SearchPage].id \in Nat
      OBVIOUS
    <3>1. items[SearchPage] \in SearchRows
      BY <1>6, <1>7, <1>12
    <3> QED
      BY <3>1, RowsAreNumbers
  <2> QED
    BY <1>1, <1>4, <1>5, <1>8, <1>9, <2>1 DEF SearchJobs
<1>14. (search # Paging!NoJob)'
  BY <1>13 DEF SearchJobs, Paging!NoJob
<1>15. SearchTypes' /\ VersionsInOrder'
  BY <1>1, <1>13 DEF SearchTypes, VersionsInOrder
<1>16. ListedIds' = ListedIds \cup {r.id : r \in Paging!Range(items)}
  <2>1. /\ DOMAIN more = 1..Len(more) /\ DOMAIN search.listed = 1..Len(search.listed)
        /\ Len(search.listed) \in Nat
    BY <1>1, <1>9 DEF SearchJobs
  <2>2. \A k \in DOMAIN more : more[k] \in ListedIds \/ \E j \in 1..n : more[k] = items[j].id
    BY <1>7, <1>9, <2>1 DEF ListedIds
  <2>3. \A k \in DOMAIN search.listed : k \in DOMAIN more /\ more[k] = search.listed[k]
    BY <1>7, <1>9, <2>1
  <2>4. \A j \in 1..n :
           Len(search.listed) + j \in DOMAIN more /\ more[Len(search.listed) + j] = items[j].id
    BY <1>7, <1>9, <2>1
  <2> QED
    BY <1>10, <1>11, <2>2, <2>3, <2>4 DEF ListedIds
<1>17. ListedOnce'
  <2>1. /\ DOMAIN search.listed = 1..Len(search.listed) /\ DOMAIN more = 1..Len(more)
        /\ Len(search.listed) \in Nat
    BY <1>1, <1>9 DEF SearchJobs
  <2>2. \A j \in 1..n : items[j].id \notin ListedIds
    BY <1>1, <1>6, <1>7 DEF CursorParts
  <2>3. \A j, k \in 1..n : items[j].id = items[k].id => j = k
    <3>1. \A j, k \in 1..n : j < k => Paging!Before(items[j], items[k])
      BY <1>4 DEF Paging!FirstOf
    <3>2. \A r \in SearchRows : ~Paging!Before(r, r)
      BY NeverBoth
    <3> QED
      BY <1>6, <1>7, <3>1, <3>2
  <2>4. ASSUME NEW j \in DOMAIN more, NEW k \in DOMAIN more, more[j] = more[k] PROVE j = k
    <3>1. CASE j \in 1..Len(search.listed) /\ k \in 1..Len(search.listed)
      BY <1>1, <1>9, <2>1, <2>4, <3>1 DEF ListedOnce
    <3>2. CASE j \notin 1..Len(search.listed) /\ k \notin 1..Len(search.listed)
      <4>1. PICK a \in 1..n : a = j - Len(search.listed) /\ more[j] = items[a].id
        BY <1>7, <1>9, <3>2
      <4>2. PICK b \in 1..n : b = k - Len(search.listed) /\ more[k] = items[b].id
        BY <1>7, <1>9, <3>2
      <4>3. a = b
        BY <2>3, <2>4, <4>1, <4>2
      <4>4. j \in Int /\ k \in Int
        BY <1>9, <2>1
      <4> QED
        BY <2>1, <4>1, <4>2, <4>3, <4>4
    <3>3. CASE j \in 1..Len(search.listed) /\ k \notin 1..Len(search.listed)
      <4>1. PICK b \in 1..n : more[k] = items[b].id
        BY <1>7, <1>9, <3>3
      <4>2. more[j] \in ListedIds
        BY <1>9, <2>1, <3>3 DEF ListedIds
      <4> QED
        BY <2>2, <2>4, <4>1, <4>2
    <3>4. CASE j \notin 1..Len(search.listed) /\ k \in 1..Len(search.listed)
      <4>1. PICK a \in 1..n : more[j] = items[a].id
        BY <1>7, <1>9, <3>4
      <4>2. more[k] \in ListedIds
        BY <1>9, <2>1, <3>4 DEF ListedIds
      <4> QED
        BY <2>2, <2>4, <4>1, <4>2
    <3> QED
      BY <3>1, <3>2, <3>3, <3>4
  <2>5. ListedIds' \subseteq usedIds'
    BY <1>1, <1>6, <1>7, <1>11, <1>16 DEF ListedOnce, SearchTypes, Paging!Newest
  <2> QED
    BY <1>10, <2>4, <2>5 DEF ListedOnce
<1>18. ASSUME M = Paging!Range(items) PROVE still \subseteq ListedIds'
  BY <1>1, <1>6, <1>16, <1>18 DEF CursorParts
<1>19. search'.done => AllListed'
  <2> SUFFICES ASSUME search'.done, search'.kind = "export" => Len(search'.listed) < SearchCap
               PROVE  still' \subseteq ListedIds'
    BY DEF AllListed
  <2>1. Len(more) < SearchCap => ~(Len(more) >= SearchCap)
    BY <1>9 DEF SearchHypotheses
  <2>2. search.kind = "export" => Len(more) < SearchCap
    BY <1>10
  <2>3. M = Paging!Range(items) \/ (search.kind = "export" /\ Len(more) >= SearchCap)
    BY <1>10
  <2>4. M = Paging!Range(items)
    BY <2>1, <2>2, <2>3
  <2> QED
    BY <1>1, <1>18, <2>4
<1>20. ASSUME ~search'.done PROVE CursorParts'
  <2>1. M # Paging!Range(items)
    BY <1>10, <1>20
  <2>2. /\ search'.cursor = [time |-> items[n].time, id |-> items[n].id] /\ items[n] \in M
        /\ \A r \in M \ Paging!Range(items) : Paging!Before(items[n], r)
        /\ \A k \in 1..n : k = n \/ Paging!Before(items[k], items[n])
    BY <1>7, <1>10, <1>12, <2>1
  <2>3. \A r \in SearchRows : IsAfter(r, search'.cursor) <=> Paging!Before(items[n], r)
    BY <1>6, <2>2 DEF IsAfter, Paging!Before, SearchRows, SearchHypotheses
  <2>4. \A r \in NewestRows : r.id \in ListedIds' => ~IsAfter(r, search'.cursor)
    <3> SUFFICES ASSUME NEW r \in NewestRows, r.id \in ListedIds', Paging!Before(items[n], r)
                 PROVE  FALSE
      BY <1>6, <2>3
    <3>1. CASE r.id \in ListedIds
      <4>1. ~IsAfter(r, search.cursor) /\ IsAfter(items[n], search.cursor)
        BY <1>1, <1>6, <2>2, <3>1 DEF CursorParts
      <4>2. /\ r \in SearchRows /\ items[n] \in SearchRows /\ search.cursor.time \in Int
            /\ search.cursor.id \in Int
        BY <1>1, <1>6, <2>2 DEF SearchJobs
      <4>3. r.time \in Int /\ r.id \in Int /\ items[n].time \in Int /\ items[n].id \in Int
        BY <4>2, RowsAreNumbers
      <4> QED
        BY <4>1, <4>2, <4>3 DEF IsAfter, Paging!Before
    <3>2. CASE \E k \in 1..n : r.id = items[k].id
      <4>1. PICK k \in 1..n : r = items[k]
        BY <1>6, <1>7, <3>2
      <4>2. r = items[n] \/ Paging!Before(r, items[n])
        BY <2>2, <4>1
      <4> QED
        BY <1>6, <2>2, <4>2, NeverBoth
    <3> QED
      BY <1>11, <1>16, <3>1, <3>2
  <2>5. ASSUME NEW i \in still
        PROVE  \E r \in NewestRows : r.id = i /\ (i \in ListedIds' \/ IsAfter(r, search'.cursor))
    <3>1. PICK r \in NewestRows : r.id = i /\ (i \in ListedIds \/ IsAfter(r, search.cursor))
      BY <1>1 DEF CursorParts
    <3>2. i \in ListedIds \/ r \in M
      BY <1>6, <3>1
    <3>3. r \in Paging!Range(items) \/ r \notin M \/ IsAfter(r, search'.cursor)
      BY <1>6, <2>2, <2>3
    <3> QED
      BY <1>16, <3>1, <3>2, <3>3
  <2> QED
    BY <1>1, <1>6, <2>4, <2>5 DEF CursorParts
<1> QED
  BY <1>14, <1>15, <1>17, <1>19, <1>20 DEF SearchInv

LEMMA SearchNext == ASSUME SearchHypotheses, SearchInv, Paging!Next PROVE SearchInv'
<1> USE DEF holding, listable, usedIds, search, still, NewestRows
<1>1. CASE Paging!PageFails \/ Paging!End
  <2>1. /\ UNCHANGED <<holding, listable, usedIds>>
        /\ (search' = Paging!NoJob \/ (search' = search /\ still' = still))
    BY <1>1 DEF Paging!PageFails, Paging!End
  <2>2. SearchTypes' /\ VersionsInOrder'
    BY <2>1 DEF SearchInv, SearchTypes, VersionsInOrder
  <2>3. CASE search' = Paging!NoJob
    BY <2>2, <2>3 DEF SearchInv
  <2>4. CASE search' = search /\ still' = still
    BY <2>1, <2>2, <2>4 DEF SearchInv, ListedOnce, CursorParts, AllListed, ListedIds,
        Paging!Newest, IsAfter
  <2> QED
    BY <2>1, <2>3, <2>4
<1> QED
  BY <1>1, BeginKeeps, PageKeeps, ChangesKeep DEF Paging!Next

LEMMA SearchSafe == ASSUME SearchHypotheses, SearchInv PROVE Paging!ListingIsFaithful
<1> USE DEF holding, listable, usedIds, search, still, NewestRows
<1> SUFFICES ASSUME search # Paging!NoJob
             PROVE  /\ \A i \in SearchIds : Paging!Times(i) <= 1
                    /\ search.done /\ (search.kind = "export" => Len(search.listed) < SearchCap)
                         => \A i \in still : Paging!Times(i) = 1
  BY DEF Paging!ListingIsFaithful
<1>0. \A i : Paging!Times(i) = Cardinality({n \in DOMAIN search.listed : search.listed[n] = i})
  <2>1. \A S : Paging!Cardinality(S) = Cardinality(S)
    BY DEF Paging!Cardinality, Paging!IsFiniteSet, Cardinality, IsFiniteSet
  <2> QED
    BY <2>1 DEF Paging!Times
<1>1. \A i : i \notin ListedIds => Paging!Times(i) = 0
  <2> SUFFICES ASSUME NEW i, i \notin ListedIds PROVE Paging!Times(i) = 0
    OBVIOUS
  <2>1. {n \in DOMAIN search.listed : search.listed[n] = i} = {}
    BY DEF ListedIds
  <2> QED
    BY <1>0, <2>1, FS_EmptySet
<1>2. \A i \in ListedIds : Paging!Times(i) = 1
  <2> SUFFICES ASSUME NEW m \in DOMAIN search.listed PROVE Paging!Times(search.listed[m]) = 1
    BY DEF ListedIds
  <2>1. {n \in DOMAIN search.listed : search.listed[n] = search.listed[m]} = {m}
    BY DEF SearchInv, ListedOnce
  <2> QED
    BY <1>0, <2>1, FS_Singleton
<1> QED
  BY <1>1, <1>2 DEF SearchInv, AllListed

LEMMA SearchStutters == ASSUME SearchInv, UNCHANGED shared PROVE SearchInv'
<1> USE DEF holding, listable, usedIds, search, still, NewestRows
<1>1. UNCHANGED <<holding, listable, usedIds, search, still>>
  BY DEF shared
<1>2. SearchTypes' /\ VersionsInOrder'
  BY <1>1 DEF SearchInv, SearchTypes, VersionsInOrder
<1>3. UNCHANGED ListedIds /\ UNCHANGED NewestRows
  BY <1>1 DEF ListedIds, Paging!Newest
<1> QED
  BY <1>1, <1>2, <1>3 DEF SearchInv, ListedOnce, CursorParts, AllListed, IsAfter

(* However events arrive, come again, are merged, amended and deleted      *)
(* between two pages, nothing is listed twice, and nothing that stood      *)
(* still is missing from a listing that was read to its end, for any       *)
(* identifiers, times, page, cap, changes and failures.                    *)
THEOREM ListingsOfConsoleAreFaithful ==
    ASSUME SearchHypotheses
    PROVE  MCSpec => []ListingIsFaithful
<1> DEFINE Inv == scenario = "search" => SearchInv
<1>1. MCInit => Inv
  BY SearchInit DEF MCInit
<1>2. Inv /\ [MCNext]_<<vars, shared, scenario>> => Inv'
  <2> SUFFICES ASSUME Inv, [MCNext]_<<vars, shared, scenario>>, scenario' = "search"
               PROVE  SearchInv'
    OBVIOUS
  <2>1. scenario = "search" /\ SearchInv
    BY DEF MCNext
  <2>2. CASE UNCHANGED <<vars, shared, scenario>>
    BY <2>1, <2>2, SearchStutters
  <2>3. CASE MCNext
    <3>1. Paging!Next
      BY <2>1, <2>3 DEF MCNext
    <3> QED
      BY <2>1, <3>1, SearchNext
  <2> QED
    BY <2>2, <2>3
<1>3. Inv => ListingIsFaithful
  BY SearchSafe DEF ListingIsFaithful
<1> QED
  BY <1>1, <1>2, <1>3, PTL DEF MCSpec
=============================================================================
