---------------------------- MODULE ClosersProofs ----------------------------
(***************************************************************************)
(* The theorems of CloserProofs, of the instances MCClosers composes.      *)
(*                                                                         *)
(* Which instance a behaviour is of never changes.  The pair of closers    *)
(* has the constants of the module itself, so its theorem is for any of    *)
(* them; the other two instances have theirs in MCClosers, and satisfy the *)
(* hypotheses of the theorems they are given to.                           *)
(*                                                                         *)
(* The second half is of Records, for any events, days and orders of trust *)
(* and any details of the type.  A row Tells of its events: each of its    *)
(* columns is what they say together, and of vendors' verdicts and scores  *)
(* what one event of that vendor says.  A record built from the members of *)
(* a window does (Built), and so does one that amends a row which does     *)
(* (Merged); with one event per vendor the vendors' verdicts are the       *)
(* events', so classifying them again finds what the events disagree on    *)
(* (ReclassifiedWeighs).  The members are a sequence, and a set of places  *)
(* in one has a first and a last because its subsets are well-founded by   *)
(* inclusion (HasExtreme), no induction needed.                            *)
(***************************************************************************)
EXTENDS MCClosers, CloserProofs, Sequences, WellFoundedInduction

(* The same of the closers that meet in MCClosers, whatever the events,    *)
(* identifiers, shapes and limits its configuration gives them.            *)
THEOREM PairRecordsAreOneRequest == MCSpec => []PairNoFalseJoin
<1> DEFINE PInv == scenario = "pair" => IInv
<1>1. MCInit => PInv
  BY Initially DEF MCInit
<1>2. PInv /\ [MCNext]_<<vars, ofRecords, scenario>> => PInv'
  <2>1. SUFFICES ASSUME PInv, [MCNext]_<<vars, ofRecords, scenario>>, scenario' = "pair"
                 PROVE  IInv'
    OBVIOUS
  <2>2. scenario = "pair" /\ [Next]_vars
    BY <2>1 DEF MCNext
  <2> QED
    BY <2>1, <2>2, Stepping
<1>3. PInv => PairNoFalseJoin
  BY FitsAreJoined DEF IInv, TypeOK, TableFits, NoFalseJoin, PairNoFalseJoin
<1> QED
  BY <1>1, <1>2, <1>3, PTL DEF MCSpec

-----------------------------------------------------------------------------
(* One closer whose calls fail.                                            *)

ShapeProof == INSTANCE CloserProofs WITH
    Events <- {"a", "b", "c"}, Closers <- {"k1"},
    VendorOf <- ShapeVendor, TimeOf <- ShapeTime, IdsOf <- ShapeIds, ShapeOf <- ShapeShape,
    NoShape <- "none", Window <- 5, Limit <- 2, FetchLimit <- 2, MaxFailures <- 1,
    Expires <- {"members", "pending members"}

LEMMA ShapeGroups ==
    \A E : Shape!Groups(E) = ShapeProof!Groups(E)
BY DEF Shape!Groups, Shape!ExactGroups, Shape!HeuristicGroups, Shape!SoloGroups,
       Shape!Confirmed, Shape!Cardinality, Shape!IsFiniteSet, Shape!Component,
       Shape!ClosedUnderIds, Shape!Connected, Shape!Smallest, Shape!HeuristicKeyIn,
       Shape!Opens, Shape!WindowKey, Shape!SoloKey, Shape!WindowOf, Shape!Shaped,
       Shape!ExactKey, Shape!ExactKeys, Shape!NoKey, ShapeProof!Groups,
       ShapeProof!ExactGroups, ShapeProof!HeuristicGroups, ShapeProof!SoloGroups,
       ShapeProof!Confirmed, ShapeProof!Cardinality, ShapeProof!IsFiniteSet,
       ShapeProof!Component, ShapeProof!ClosedUnderIds, ShapeProof!Connected,
       ShapeProof!Smallest, ShapeProof!HeuristicKeyIn, ShapeProof!Opens,
       ShapeProof!WindowKey, ShapeProof!SoloKey, ShapeProof!WindowOf, ShapeProof!Shaped,
       ShapeProof!ExactKey, ShapeProof!ExactKeys, ShapeProof!NoKey

LEMMA ShapeWorker ==
    Shape!Worker <=> ShapeProof!Worker
<1> USE DEF Shape!BucketKeys, Shape!ClosingKeys, Shape!ClosingKey, Shape!WindowKey,
            Shape!SoloKey, Shape!WindowOf, Shape!Shaped, Shape!ExactKey, Shape!ExactKeys,
            Shape!worker, Shape!redis, Shape!closer, ShapeProof!BucketKeys,
            ShapeProof!ClosingKeys, ShapeProof!ClosingKey, ShapeProof!WindowKey,
            ShapeProof!SoloKey, ShapeProof!WindowOf, ShapeProof!Shaped, ShapeProof!ExactKey,
            ShapeProof!ExactKeys, ShapeProof!worker, ShapeProof!redis, ShapeProof!closer
<1>1. Shape!PushMembers <=> ShapeProof!PushMembers
  BY DEF Shape!PushMembers, Shape!Pushed, Shape!Writes, Shape!Cardinality,
         Shape!IsFiniteSet, ShapeProof!PushMembers, ShapeProof!Pushed, ShapeProof!Writes,
         ShapeProof!Cardinality, ShapeProof!IsFiniteSet
<1>2. Shape!ScheduleWindows <=> ShapeProof!ScheduleWindows
  BY DEF Shape!ScheduleWindows, ShapeProof!ScheduleWindows
<1>3. Shape!CommitOffsets <=> ShapeProof!CommitOffsets
  BY DEF Shape!CommitOffsets, ShapeProof!CommitOffsets
<1> QED
  BY <1>1, <1>2, <1>3 DEF Shape!Worker, ShapeProof!Worker

LEMMA ShapeWorkerFailure ==
    Shape!WorkerFailure <=> ShapeProof!WorkerFailure
<1> USE DEF Shape!BucketKeys, Shape!ClosingKeys, Shape!ClosingKey, Shape!WindowKey,
            Shape!SoloKey, Shape!WindowOf, Shape!Shaped, Shape!ExactKey, Shape!ExactKeys,
            Shape!worker, Shape!redis, Shape!closer, ShapeProof!BucketKeys,
            ShapeProof!ClosingKeys, ShapeProof!ClosingKey, ShapeProof!WindowKey,
            ShapeProof!SoloKey, ShapeProof!WindowOf, ShapeProof!Shaped, ShapeProof!ExactKey,
            ShapeProof!ExactKeys, ShapeProof!worker, ShapeProof!redis, ShapeProof!closer
<1>1. Shape!PushFails <=> ShapeProof!PushFails
  BY DEF Shape!PushFails, Shape!Pushed, Shape!Writes, Shape!Fail, Shape!Cardinality,
         Shape!IsFiniteSet, ShapeProof!PushFails, ShapeProof!Pushed, ShapeProof!Writes,
         ShapeProof!Fail, ShapeProof!Cardinality, ShapeProof!IsFiniteSet
<1>2. Shape!ScheduleFails <=> ShapeProof!ScheduleFails
  BY DEF Shape!ScheduleFails, Shape!Fail, ShapeProof!ScheduleFails, ShapeProof!Fail
<1>3. Shape!WorkerCrash <=> ShapeProof!WorkerCrash
  BY DEF Shape!WorkerCrash, Shape!Fail, ShapeProof!WorkerCrash, ShapeProof!Fail
<1> QED
  BY <1>1, <1>2, <1>3 DEF Shape!WorkerFailure, ShapeProof!WorkerFailure

LEMMA ShapeTick ==
    \A c : Shape!Tick(c) <=> ShapeProof!Tick(c)
<1> SUFFICES ASSUME NEW c PROVE Shape!Tick(c) <=> ShapeProof!Tick(c)
  OBVIOUS
<1> USE DEF Shape!ClosingKey, Shape!WindowKey, Shape!SoloKey, Shape!WindowOf, Shape!Shaped,
            Shape!ExactKey, Shape!ExactKeys, Shape!worker, Shape!redis, Shape!Goto,
            ShapeProof!ClosingKey, ShapeProof!WindowKey, ShapeProof!SoloKey,
            ShapeProof!WindowOf, ShapeProof!Shaped, ShapeProof!ExactKey,
            ShapeProof!ExactKeys, ShapeProof!worker, ShapeProof!redis, ShapeProof!Goto
<1>1. Shape!Claim(c) <=> ShapeProof!Claim(c)
  BY DEF Shape!Claim, Shape!Cardinality, Shape!IsFiniteSet, ShapeProof!Claim,
         ShapeProof!Cardinality, ShapeProof!IsFiniteSet
<1>2. Shape!ReadMembers(c) <=> ShapeProof!ReadMembers(c)
  BY DEF Shape!ReadMembers, Shape!ClosingKeys, ShapeProof!ReadMembers,
         ShapeProof!ClosingKeys
<1>3. Shape!Walk(c) <=> ShapeProof!Walk(c)
  BY DEF Shape!Walk, Shape!Wanted, Shape!ClosingKeys, ShapeProof!Walk, ShapeProof!Wanted,
         ShapeProof!ClosingKeys
<1>4. Shape!WalkDone(c) <=> ShapeProof!WalkDone(c)
  BY DEF Shape!WalkDone, Shape!Wanted, Shape!Nothing, Shape!ClosingKeys,
         ShapeProof!WalkDone, ShapeProof!Wanted, ShapeProof!Nothing, ShapeProof!ClosingKeys
<1>5. Shape!Build(c) <=> ShapeProof!Build(c)
  BY ShapeGroups DEF Shape!Build, ShapeProof!Build
<1>6. Shape!LookUp(c) <=> ShapeProof!LookUp(c)
  BY DEF Shape!LookUp, Shape!FirstClaim, Shape!GroupIds, Shape!Smallest, Shape!Current,
         Shape!Unclaimed, ShapeProof!LookUp, ShapeProof!FirstClaim, ShapeProof!GroupIds,
         ShapeProof!Smallest, ShapeProof!Current, ShapeProof!Unclaimed
<1>7. Shape!Settle(c) <=> ShapeProof!Settle(c)
  BY DEF Shape!Settle, Shape!Current, Shape!GroupIds, Shape!Unclaimed, ShapeProof!Settle,
         ShapeProof!Current, ShapeProof!GroupIds, ShapeProof!Unclaimed
<1>8. Shape!Publish(c) <=> ShapeProof!Publish(c)
  BY DEF Shape!Publish, Shape!Smallest, Shape!Unclaimed, ShapeProof!Publish,
         ShapeProof!Smallest, ShapeProof!Unclaimed
<1>9. Shape!Materialize(c) <=> ShapeProof!Materialize(c)
  BY DEF Shape!Materialize, Shape!Current, Shape!Unclaimed, ShapeProof!Materialize,
         ShapeProof!Current, ShapeProof!Unclaimed
<1>10. Shape!WindowDone(c) <=> ShapeProof!WindowDone(c)
  BY DEF Shape!WindowDone, Shape!GroupKeys, Shape!BucketKeys, Shape!ClosingKeys,
         Shape!NoKey, Shape!NoEmission, Shape!NoEmissions, ShapeProof!WindowDone,
         ShapeProof!GroupKeys, ShapeProof!BucketKeys, ShapeProof!ClosingKeys,
         ShapeProof!NoKey, ShapeProof!NoEmission, ShapeProof!NoEmissions
<1>11. Shape!EndTick(c) <=> ShapeProof!EndTick(c)
  BY DEF Shape!EndTick, Shape!AfterPasses, Shape!Emitted, Shape!GroupKeys, Shape!BucketKeys,
         Shape!ClosingKeys, Shape!NoKey, Shape!NoEmission, ShapeProof!EndTick,
         ShapeProof!AfterPasses, ShapeProof!Emitted, ShapeProof!GroupKeys,
         ShapeProof!BucketKeys, ShapeProof!ClosingKeys, ShapeProof!NoKey,
         ShapeProof!NoEmission
<1>12. Shape!ReadStored(c) <=> ShapeProof!ReadStored(c)
  BY DEF Shape!ReadStored, Shape!Emitted, Shape!GroupKeys, Shape!BucketKeys,
         Shape!ClosingKeys, Shape!NoKey, Shape!NoEmission, Shape!NoRow,
         ShapeProof!ReadStored, ShapeProof!Emitted, ShapeProof!GroupKeys,
         ShapeProof!BucketKeys, ShapeProof!ClosingKeys, ShapeProof!NoKey,
         ShapeProof!NoEmission, ShapeProof!NoRow
<1>13. Shape!Insert(c) <=> ShapeProof!Insert(c)
  BY DEF Shape!Insert, Shape!Emitted, Shape!Versioned, Shape!Merge, Shape!TierRank,
         Shape!GroupKeys, Shape!BucketKeys, Shape!ClosingKeys, Shape!NoKey,
         Shape!NoEmission, Shape!NoEmissions, Shape!NoRow, ShapeProof!Insert,
         ShapeProof!Emitted, ShapeProof!Versioned, ShapeProof!Merge, ShapeProof!TierRank,
         ShapeProof!GroupKeys, ShapeProof!BucketKeys, ShapeProof!ClosingKeys,
         ShapeProof!NoKey, ShapeProof!NoEmission, ShapeProof!NoEmissions, ShapeProof!NoRow
<1> QED
  BY <1>1, <1>2, <1>3, <1>4, <1>5, <1>6, <1>7, <1>8, <1>9, <1>10, <1>11, <1>12, <1>13 DEF
      Shape!Tick, ShapeProof!Tick

LEMMA ShapeTickFailure ==
    \A c : Shape!TickFailure(c) <=> ShapeProof!TickFailure(c)
<1> SUFFICES ASSUME NEW c PROVE Shape!TickFailure(c) <=> ShapeProof!TickFailure(c)
  OBVIOUS
<1> USE DEF Shape!BucketKeys, Shape!ClosingKeys, Shape!ClosingKey, Shape!WindowKey,
            Shape!SoloKey, Shape!WindowOf, Shape!Shaped, Shape!ExactKey, Shape!ExactKeys,
            Shape!GroupKeys, Shape!NoKey, Shape!Unclaimed, Shape!Nothing, Shape!NoEmission,
            Shape!NoEmissions, Shape!NoRow, Shape!worker, Shape!redis, Shape!Goto,
            Shape!Fail, Shape!Emitted, Shape!AfterPasses, ShapeProof!BucketKeys,
            ShapeProof!ClosingKeys, ShapeProof!ClosingKey, ShapeProof!WindowKey,
            ShapeProof!SoloKey, ShapeProof!WindowOf, ShapeProof!Shaped, ShapeProof!ExactKey,
            ShapeProof!ExactKeys, ShapeProof!GroupKeys, ShapeProof!NoKey,
            ShapeProof!Unclaimed, ShapeProof!Nothing, ShapeProof!NoEmission,
            ShapeProof!NoEmissions, ShapeProof!NoRow, ShapeProof!worker, ShapeProof!redis,
            ShapeProof!Goto, ShapeProof!Fail, ShapeProof!Emitted, ShapeProof!AfterPasses
<1>1. Shape!ReadFails(c) <=> ShapeProof!ReadFails(c)
  BY DEF Shape!ReadFails, ShapeProof!ReadFails
<1>2. Shape!ResolveFails(c) <=> ShapeProof!ResolveFails(c)
  BY DEF Shape!ResolveFails, ShapeProof!ResolveFails
<1>3. Shape!InsertFails(c) <=> ShapeProof!InsertFails(c)
  BY DEF Shape!InsertFails, ShapeProof!InsertFails
<1>4. Shape!CloserCrash(c) <=> ShapeProof!CloserCrash(c)
  BY DEF Shape!CloserCrash, ShapeProof!CloserCrash
<1> QED
  BY <1>1, <1>2, <1>3, <1>4 DEF Shape!TickFailure, ShapeProof!TickFailure

LEMMA ShapeSame ==
    /\ Shape!Init <=> ShapeProof!Init
    /\ Shape!Next <=> ShapeProof!Next
<1> USE DEF Shape!BucketKeys, Shape!ClosingKeys, Shape!ClosingKey, Shape!WindowKey,
        Shape!SoloKey, Shape!WindowOf, Shape!Shaped, Shape!ExactKey, Shape!ExactKeys,
        Shape!GroupKeys, Shape!NoKey, Shape!Unclaimed, ShapeProof!BucketKeys,
        ShapeProof!ClosingKeys, ShapeProof!ClosingKey, ShapeProof!WindowKey,
        ShapeProof!SoloKey, ShapeProof!WindowOf, ShapeProof!Shaped, ShapeProof!ExactKey,
        ShapeProof!ExactKeys, ShapeProof!GroupKeys, ShapeProof!NoKey, ShapeProof!Unclaimed
<1>1. Shape!Init <=> ShapeProof!Init
  BY DEF Shape!Init, Shape!NoRow, Shape!Nothing, Shape!NoEmission, Shape!NoEmissions,
         ShapeProof!Init, ShapeProof!NoRow, ShapeProof!Nothing, ShapeProof!NoEmission,
         ShapeProof!NoEmissions
<1>2. \A k : Shape!ExpireMembers(k) <=> ShapeProof!ExpireMembers(k)
  BY DEF Shape!ExpireMembers, Shape!Pending, Shape!InHand, Shape!worker, Shape!closer,
         ShapeProof!ExpireMembers, ShapeProof!Pending, ShapeProof!InHand, ShapeProof!worker,
         ShapeProof!closer
<1>3. \A k : Shape!ExpireIdentity(k) <=> ShapeProof!ExpireIdentity(k)
  BY DEF Shape!ExpireIdentity, Shape!worker, Shape!closer, ShapeProof!ExpireIdentity,
         ShapeProof!worker, ShapeProof!closer
<1>4. Shape!Expiry <=> ShapeProof!Expiry
  BY <1>2, <1>3 DEF Shape!Expiry, ShapeProof!Expiry
<1>5. Shape!Next <=> ShapeProof!Next
  BY <1>4, ShapeWorker, ShapeWorkerFailure, ShapeTick, ShapeTickFailure DEF Shape!Next,
      ShapeProof!Next
<1> QED
  BY <1>1, <1>5

(* A closer that fails, is restarted, and builds windows from members that *)
(* have expired since never takes an event out of a record.                *)
THEOREM ShapeRecordsGrow == MCSpec => ShapeAmendmentsAdd
<1> DEFINE Now == scenario = "shape"
           Grows == Now => \A id \in Shape!GroupKeys : table[id].events \subseteq table'[id].events
<1>1. ShapeProof!GroupingAssumption /\ ShapeProof!CloserAssumption
  BY DEF ShapeProof!GroupingAssumption, ShapeProof!CloserAssumption, ShapeTime, ShapeIds, ShapeVendor,
         ShapeShape
<1>2. ShapeProof!Spec => ShapeProof!AmendmentsAdd
  BY ONLY <1>1, ShapeProof!OneCloserAdds
<1>3. MCInit /\ Now => ShapeProof!Init
  BY ShapeSame DEF MCInit
<1>4. Now /\ [MCNext]_<<vars, ofRecords, scenario>> => Now' /\ [ShapeProof!Next]_(ShapeProof!vars)
  BY ShapeSame DEF MCNext, vars, worker, redis, closer, ShapeProof!vars, ShapeProof!worker,
                   ShapeProof!redis, ShapeProof!closer
<1>5. [\A id \in ShapeProof!GroupKeys : table[id].events \subseteq table'[id].events]_table => [Grows]_table
  BY DEF Shape!GroupKeys, ShapeProof!GroupKeys, Shape!BucketKeys, ShapeProof!BucketKeys,
         Shape!ClosingKeys, ShapeProof!ClosingKeys, Shape!ClosingKey, ShapeProof!ClosingKey,
         Shape!WindowKey, ShapeProof!WindowKey, Shape!SoloKey, ShapeProof!SoloKey,
         Shape!WindowOf, ShapeProof!WindowOf, Shape!Shaped, ShapeProof!Shaped,
         Shape!ExactKey, ShapeProof!ExactKey, Shape!ExactKeys, ShapeProof!ExactKeys,
         Shape!NoKey, ShapeProof!NoKey
<1>6. ~Now /\ [MCNext]_<<vars, ofRecords, scenario>> => ~Now' /\ [Grows]_table
  BY DEF MCNext
<1> QED
  BY <1>2, <1>3, <1>4, <1>5, <1>6, PTL DEF MCSpec, ShapeProof!Spec, ShapeProof!AmendmentsAdd,
     ShapeAmendmentsAdd

-----------------------------------------------------------------------------
(* Two halves of one request that meet late.                               *)

BridgeProof == INSTANCE CloserProofs WITH
    Events <- {"f", "c", "d", "n", "o"}, Closers <- {"k1"},
    VendorOf <- [f |-> "f5", c |-> "cloudflare", d |-> "datadome", n |-> "nginx", o |-> "cloudflare"],
    TimeOf <- [f |-> 1, c |-> 1, d |-> 1, n |-> 1, o |-> 1],
    IdsOf <- [f |-> {1}, c |-> {1}, d |-> {2}, n |-> {2}, o |-> {1, 2}],
    ShapeOf <- [f |-> "/a", c |-> "/a", d |-> "/a", n |-> "/a", o |-> "/a"],
    NoShape <- "none", Window <- 5, Limit <- 2, FetchLimit <- 1, MaxFailures <- 0,
    Expires <- {}

LEMMA BridgeGroups ==
    \A E : Bridge!Groups(E) = BridgeProof!Groups(E)
BY DEF Bridge!Groups, Bridge!ExactGroups, Bridge!HeuristicGroups, Bridge!SoloGroups,
       Bridge!Confirmed, Bridge!Cardinality, Bridge!IsFiniteSet, Bridge!Component,
       Bridge!ClosedUnderIds, Bridge!Connected, Bridge!Smallest, Bridge!HeuristicKeyIn,
       Bridge!Opens, Bridge!WindowKey, Bridge!SoloKey, Bridge!WindowOf, Bridge!Shaped,
       Bridge!ExactKey, Bridge!ExactKeys, Bridge!NoKey, BridgeProof!Groups,
       BridgeProof!ExactGroups, BridgeProof!HeuristicGroups, BridgeProof!SoloGroups,
       BridgeProof!Confirmed, BridgeProof!Cardinality, BridgeProof!IsFiniteSet,
       BridgeProof!Component, BridgeProof!ClosedUnderIds, BridgeProof!Connected,
       BridgeProof!Smallest, BridgeProof!HeuristicKeyIn, BridgeProof!Opens,
       BridgeProof!WindowKey, BridgeProof!SoloKey, BridgeProof!WindowOf, BridgeProof!Shaped,
       BridgeProof!ExactKey, BridgeProof!ExactKeys, BridgeProof!NoKey

LEMMA BridgeWorker ==
    Bridge!Worker <=> BridgeProof!Worker
<1> USE DEF Bridge!BucketKeys, Bridge!ClosingKeys, Bridge!ClosingKey, Bridge!WindowKey,
            Bridge!SoloKey, Bridge!WindowOf, Bridge!Shaped, Bridge!ExactKey,
            Bridge!ExactKeys, Bridge!worker, Bridge!redis, Bridge!closer,
            BridgeProof!BucketKeys, BridgeProof!ClosingKeys, BridgeProof!ClosingKey,
            BridgeProof!WindowKey, BridgeProof!SoloKey, BridgeProof!WindowOf,
            BridgeProof!Shaped, BridgeProof!ExactKey, BridgeProof!ExactKeys,
            BridgeProof!worker, BridgeProof!redis, BridgeProof!closer
<1>1. Bridge!PushMembers <=> BridgeProof!PushMembers
  BY DEF Bridge!PushMembers, Bridge!Pushed, Bridge!Writes, Bridge!Cardinality,
         Bridge!IsFiniteSet, BridgeProof!PushMembers, BridgeProof!Pushed,
         BridgeProof!Writes, BridgeProof!Cardinality, BridgeProof!IsFiniteSet
<1>2. Bridge!ScheduleWindows <=> BridgeProof!ScheduleWindows
  BY DEF Bridge!ScheduleWindows, BridgeProof!ScheduleWindows
<1>3. Bridge!CommitOffsets <=> BridgeProof!CommitOffsets
  BY DEF Bridge!CommitOffsets, BridgeProof!CommitOffsets
<1> QED
  BY <1>1, <1>2, <1>3 DEF Bridge!Worker, BridgeProof!Worker

LEMMA BridgeWorkerFailure ==
    Bridge!WorkerFailure <=> BridgeProof!WorkerFailure
<1> USE DEF Bridge!BucketKeys, Bridge!ClosingKeys, Bridge!ClosingKey, Bridge!WindowKey,
            Bridge!SoloKey, Bridge!WindowOf, Bridge!Shaped, Bridge!ExactKey,
            Bridge!ExactKeys, Bridge!worker, Bridge!redis, Bridge!closer,
            BridgeProof!BucketKeys, BridgeProof!ClosingKeys, BridgeProof!ClosingKey,
            BridgeProof!WindowKey, BridgeProof!SoloKey, BridgeProof!WindowOf,
            BridgeProof!Shaped, BridgeProof!ExactKey, BridgeProof!ExactKeys,
            BridgeProof!worker, BridgeProof!redis, BridgeProof!closer
<1>1. Bridge!PushFails <=> BridgeProof!PushFails
  BY DEF Bridge!PushFails, Bridge!Pushed, Bridge!Writes, Bridge!Fail, Bridge!Cardinality,
         Bridge!IsFiniteSet, BridgeProof!PushFails, BridgeProof!Pushed, BridgeProof!Writes,
         BridgeProof!Fail, BridgeProof!Cardinality, BridgeProof!IsFiniteSet
<1>2. Bridge!ScheduleFails <=> BridgeProof!ScheduleFails
  BY DEF Bridge!ScheduleFails, Bridge!Fail, BridgeProof!ScheduleFails, BridgeProof!Fail
<1>3. Bridge!WorkerCrash <=> BridgeProof!WorkerCrash
  BY DEF Bridge!WorkerCrash, Bridge!Fail, BridgeProof!WorkerCrash, BridgeProof!Fail
<1> QED
  BY <1>1, <1>2, <1>3 DEF Bridge!WorkerFailure, BridgeProof!WorkerFailure

LEMMA BridgeTick ==
    \A c : Bridge!Tick(c) <=> BridgeProof!Tick(c)
<1> SUFFICES ASSUME NEW c PROVE Bridge!Tick(c) <=> BridgeProof!Tick(c)
  OBVIOUS
<1> USE DEF Bridge!ClosingKey, Bridge!WindowKey, Bridge!SoloKey, Bridge!WindowOf,
            Bridge!Shaped, Bridge!ExactKey, Bridge!ExactKeys, Bridge!worker, Bridge!redis,
            Bridge!Goto, BridgeProof!ClosingKey, BridgeProof!WindowKey, BridgeProof!SoloKey,
            BridgeProof!WindowOf, BridgeProof!Shaped, BridgeProof!ExactKey,
            BridgeProof!ExactKeys, BridgeProof!worker, BridgeProof!redis, BridgeProof!Goto
<1>1. Bridge!Claim(c) <=> BridgeProof!Claim(c)
  BY DEF Bridge!Claim, Bridge!Cardinality, Bridge!IsFiniteSet, BridgeProof!Claim,
         BridgeProof!Cardinality, BridgeProof!IsFiniteSet
<1>2. Bridge!ReadMembers(c) <=> BridgeProof!ReadMembers(c)
  BY DEF Bridge!ReadMembers, Bridge!ClosingKeys, BridgeProof!ReadMembers,
         BridgeProof!ClosingKeys
<1>3. Bridge!Walk(c) <=> BridgeProof!Walk(c)
  BY DEF Bridge!Walk, Bridge!Wanted, Bridge!ClosingKeys, BridgeProof!Walk,
         BridgeProof!Wanted, BridgeProof!ClosingKeys
<1>4. Bridge!WalkDone(c) <=> BridgeProof!WalkDone(c)
  BY DEF Bridge!WalkDone, Bridge!Wanted, Bridge!Nothing, Bridge!ClosingKeys,
         BridgeProof!WalkDone, BridgeProof!Wanted, BridgeProof!Nothing,
         BridgeProof!ClosingKeys
<1>5. Bridge!Build(c) <=> BridgeProof!Build(c)
  BY BridgeGroups DEF Bridge!Build, BridgeProof!Build
<1>6. Bridge!LookUp(c) <=> BridgeProof!LookUp(c)
  BY DEF Bridge!LookUp, Bridge!FirstClaim, Bridge!GroupIds, Bridge!Smallest, Bridge!Current,
         Bridge!Unclaimed, BridgeProof!LookUp, BridgeProof!FirstClaim, BridgeProof!GroupIds,
         BridgeProof!Smallest, BridgeProof!Current, BridgeProof!Unclaimed
<1>7. Bridge!Settle(c) <=> BridgeProof!Settle(c)
  BY DEF Bridge!Settle, Bridge!Current, Bridge!GroupIds, Bridge!Unclaimed,
         BridgeProof!Settle, BridgeProof!Current, BridgeProof!GroupIds,
         BridgeProof!Unclaimed
<1>8. Bridge!Publish(c) <=> BridgeProof!Publish(c)
  BY DEF Bridge!Publish, Bridge!Smallest, Bridge!Unclaimed, BridgeProof!Publish,
         BridgeProof!Smallest, BridgeProof!Unclaimed
<1>9. Bridge!Materialize(c) <=> BridgeProof!Materialize(c)
  BY DEF Bridge!Materialize, Bridge!Current, Bridge!Unclaimed, BridgeProof!Materialize,
         BridgeProof!Current, BridgeProof!Unclaimed
<1>10. Bridge!WindowDone(c) <=> BridgeProof!WindowDone(c)
  BY DEF Bridge!WindowDone, Bridge!GroupKeys, Bridge!BucketKeys, Bridge!ClosingKeys,
         Bridge!NoKey, Bridge!NoEmission, Bridge!NoEmissions, BridgeProof!WindowDone,
         BridgeProof!GroupKeys, BridgeProof!BucketKeys, BridgeProof!ClosingKeys,
         BridgeProof!NoKey, BridgeProof!NoEmission, BridgeProof!NoEmissions
<1>11. Bridge!EndTick(c) <=> BridgeProof!EndTick(c)
  BY DEF Bridge!EndTick, Bridge!AfterPasses, Bridge!Emitted, Bridge!GroupKeys,
         Bridge!BucketKeys, Bridge!ClosingKeys, Bridge!NoKey, Bridge!NoEmission,
         BridgeProof!EndTick, BridgeProof!AfterPasses, BridgeProof!Emitted,
         BridgeProof!GroupKeys, BridgeProof!BucketKeys, BridgeProof!ClosingKeys,
         BridgeProof!NoKey, BridgeProof!NoEmission
<1>12. Bridge!ReadStored(c) <=> BridgeProof!ReadStored(c)
  BY DEF Bridge!ReadStored, Bridge!Emitted, Bridge!GroupKeys, Bridge!BucketKeys,
         Bridge!ClosingKeys, Bridge!NoKey, Bridge!NoEmission, Bridge!NoRow,
         BridgeProof!ReadStored, BridgeProof!Emitted, BridgeProof!GroupKeys,
         BridgeProof!BucketKeys, BridgeProof!ClosingKeys, BridgeProof!NoKey,
         BridgeProof!NoEmission, BridgeProof!NoRow
<1>13. Bridge!Insert(c) <=> BridgeProof!Insert(c)
  BY DEF Bridge!Insert, Bridge!Emitted, Bridge!Versioned, Bridge!Merge, Bridge!TierRank,
         Bridge!GroupKeys, Bridge!BucketKeys, Bridge!ClosingKeys, Bridge!NoKey,
         Bridge!NoEmission, Bridge!NoEmissions, Bridge!NoRow, BridgeProof!Insert,
         BridgeProof!Emitted, BridgeProof!Versioned, BridgeProof!Merge,
         BridgeProof!TierRank, BridgeProof!GroupKeys, BridgeProof!BucketKeys,
         BridgeProof!ClosingKeys, BridgeProof!NoKey, BridgeProof!NoEmission,
         BridgeProof!NoEmissions, BridgeProof!NoRow
<1> QED
  BY <1>1, <1>2, <1>3, <1>4, <1>5, <1>6, <1>7, <1>8, <1>9, <1>10, <1>11, <1>12, <1>13 DEF
      Bridge!Tick, BridgeProof!Tick

LEMMA BridgeTickFailure ==
    \A c : Bridge!TickFailure(c) <=> BridgeProof!TickFailure(c)
<1> SUFFICES ASSUME NEW c PROVE Bridge!TickFailure(c) <=> BridgeProof!TickFailure(c)
  OBVIOUS
<1> USE DEF Bridge!BucketKeys, Bridge!ClosingKeys, Bridge!ClosingKey, Bridge!WindowKey,
            Bridge!SoloKey, Bridge!WindowOf, Bridge!Shaped, Bridge!ExactKey,
            Bridge!ExactKeys, Bridge!GroupKeys, Bridge!NoKey, Bridge!Unclaimed,
            Bridge!Nothing, Bridge!NoEmission, Bridge!NoEmissions, Bridge!NoRow,
            Bridge!worker, Bridge!redis, Bridge!Goto, Bridge!Fail, Bridge!Emitted,
            Bridge!AfterPasses, BridgeProof!BucketKeys, BridgeProof!ClosingKeys,
            BridgeProof!ClosingKey, BridgeProof!WindowKey, BridgeProof!SoloKey,
            BridgeProof!WindowOf, BridgeProof!Shaped, BridgeProof!ExactKey,
            BridgeProof!ExactKeys, BridgeProof!GroupKeys, BridgeProof!NoKey,
            BridgeProof!Unclaimed, BridgeProof!Nothing, BridgeProof!NoEmission,
            BridgeProof!NoEmissions, BridgeProof!NoRow, BridgeProof!worker,
            BridgeProof!redis, BridgeProof!Goto, BridgeProof!Fail, BridgeProof!Emitted,
            BridgeProof!AfterPasses
<1>1. Bridge!ReadFails(c) <=> BridgeProof!ReadFails(c)
  BY DEF Bridge!ReadFails, BridgeProof!ReadFails
<1>2. Bridge!ResolveFails(c) <=> BridgeProof!ResolveFails(c)
  BY DEF Bridge!ResolveFails, BridgeProof!ResolveFails
<1>3. Bridge!InsertFails(c) <=> BridgeProof!InsertFails(c)
  BY DEF Bridge!InsertFails, BridgeProof!InsertFails
<1>4. Bridge!CloserCrash(c) <=> BridgeProof!CloserCrash(c)
  BY DEF Bridge!CloserCrash, BridgeProof!CloserCrash
<1> QED
  BY <1>1, <1>2, <1>3, <1>4 DEF Bridge!TickFailure, BridgeProof!TickFailure

LEMMA BridgeSame ==
    /\ Bridge!Init <=> BridgeProof!Init
    /\ Bridge!Next <=> BridgeProof!Next
<1> USE DEF Bridge!BucketKeys, Bridge!ClosingKeys, Bridge!ClosingKey, Bridge!WindowKey,
        Bridge!SoloKey, Bridge!WindowOf, Bridge!Shaped, Bridge!ExactKey, Bridge!ExactKeys,
        Bridge!GroupKeys, Bridge!NoKey, Bridge!Unclaimed, BridgeProof!BucketKeys,
        BridgeProof!ClosingKeys, BridgeProof!ClosingKey, BridgeProof!WindowKey,
        BridgeProof!SoloKey, BridgeProof!WindowOf, BridgeProof!Shaped, BridgeProof!ExactKey,
        BridgeProof!ExactKeys, BridgeProof!GroupKeys, BridgeProof!NoKey,
        BridgeProof!Unclaimed
<1>1. Bridge!Init <=> BridgeProof!Init
  BY DEF Bridge!Init, Bridge!NoRow, Bridge!Nothing, Bridge!NoEmission, Bridge!NoEmissions,
         BridgeProof!Init, BridgeProof!NoRow, BridgeProof!Nothing, BridgeProof!NoEmission,
         BridgeProof!NoEmissions
<1>2. \A k : Bridge!ExpireMembers(k) <=> BridgeProof!ExpireMembers(k)
  BY DEF Bridge!ExpireMembers, Bridge!Pending, Bridge!InHand, Bridge!worker, Bridge!closer,
         BridgeProof!ExpireMembers, BridgeProof!Pending, BridgeProof!InHand,
         BridgeProof!worker, BridgeProof!closer
<1>3. \A k : Bridge!ExpireIdentity(k) <=> BridgeProof!ExpireIdentity(k)
  BY DEF Bridge!ExpireIdentity, Bridge!worker, Bridge!closer, BridgeProof!ExpireIdentity,
         BridgeProof!worker, BridgeProof!closer
<1>4. Bridge!Expiry <=> BridgeProof!Expiry
  BY <1>2, <1>3 DEF Bridge!Expiry, BridgeProof!Expiry
<1>5. Bridge!Next <=> BridgeProof!Next
  BY <1>4, BridgeWorker, BridgeWorkerFailure, BridgeTick, BridgeTickFailure DEF Bridge!Next,
      BridgeProof!Next
<1> QED
  BY <1>1, <1>5

(* The record of each half is found by the event that shows both are one   *)
(* request: its id is claimed under a key of its own events.               *)
THEOREM BridgeRecordsAreFound == MCSpec => []BridgeRecordsStayFindable
<1> DEFINE Now == scenario = "bridge"
<1>1. BridgeProof!GroupingAssumption /\ BridgeProof!CloserAssumption
  BY DEF BridgeProof!GroupingAssumption, BridgeProof!CloserAssumption
<1>2. BridgeProof!Spec => []BridgeProof!RecordsStayFindable
  BY ONLY <1>1, BridgeProof!RecordsAreFound
<1>3. MCInit /\ Now => BridgeProof!Init
  BY BridgeSame DEF MCInit
<1>4. Now /\ [MCNext]_<<vars, ofRecords, scenario>> => Now' /\ [BridgeProof!Next]_(BridgeProof!vars)
  BY BridgeSame DEF MCNext, vars, worker, redis, closer, BridgeProof!vars, BridgeProof!worker,
                    BridgeProof!redis, BridgeProof!closer
<1>5. Bridge!RecordsStayFindable <=> BridgeProof!RecordsStayFindable
  BY DEF Bridge!RecordsStayFindable, BridgeProof!RecordsStayFindable,
         Bridge!GroupKeys, BridgeProof!GroupKeys, Bridge!BucketKeys, BridgeProof!BucketKeys,
         Bridge!ClosingKeys, BridgeProof!ClosingKeys, Bridge!ClosingKey, BridgeProof!ClosingKey,
         Bridge!WindowKey, BridgeProof!WindowKey, Bridge!SoloKey, BridgeProof!SoloKey,
         Bridge!WindowOf, BridgeProof!WindowOf, Bridge!Shaped, BridgeProof!Shaped,
         Bridge!ExactKey, BridgeProof!ExactKey, Bridge!ExactKeys, BridgeProof!ExactKeys,
         Bridge!NoKey, BridgeProof!NoKey
<1>6. ~Now /\ [MCNext]_<<vars, ofRecords, scenario>> => ~Now'
  BY DEF MCNext
<1> QED
  BY <1>2, <1>3, <1>4, <1>5, <1>6, PTL DEF MCSpec, BridgeProof!Spec, BridgeRecordsStayFindable

-----------------------------------------------------------------------------
(* Records.                                                                *)

RecordHypotheses == SaidDetails \subseteq Record!DetailType

(* A finite set has an element that nothing in it comes after.             *)
LEMMA HasExtreme ==
    ASSUME NEW S, IsFiniteSet(S), S # {}, NEW R,
           \A x \in S : <<x, x>> \notin R,
           \A x, y, z \in S : <<x, y>> \in R /\ <<y, z>> \in R => <<x, z>> \in R
    PROVE  \E x \in S : \A y \in S : <<x, y>> \notin R
<1> DEFINE after(x) == {y \in S : <<x, y>> \in R}
           T == {after(x) : x \in S}
<1>1. IsWellFoundedOn(StrictSubsetOrdering(S), FiniteSubsetsOf(S))
  BY FS_StrictSubsetOrderingWellFounded
<1>2. FiniteSubsetsOf(S) = SUBSET S
  BY FS_FiniteSubsetsOfFinite
<1>0. \A x : after(x) \in SUBSET S
  OBVIOUS
<1>6. \A x, y \in S : y \in after(x) <=> <<x, y>> \in R
  OBVIOUS
<1> HIDE DEF after
<1>3. T \subseteq SUBSET S /\ T # {}
  BY <1>0
<1> HIDE DEF T
<1>4. PICK U \in T : \A W \in T : <<W, U>> \notin StrictSubsetOrdering(S)
  BY <1>1, <1>2, <1>3, WFMin
<1>5. PICK x \in S : U = after(x)
  BY DEF T
<1> SUFFICES ASSUME NEW y \in S, <<x, y>> \in R PROVE FALSE
  OBVIOUS
<1>7. after(y) \in T /\ after(y) \in SUBSET S /\ U \in SUBSET S
  BY <1>0, <1>5 DEF T
<1>8. after(y) \subseteq U /\ after(y) # U
  BY <1>0, <1>5, <1>6
<1>9. <<after(y), U>> \in StrictSubsetOrdering(S)
  BY <1>7, <1>8 DEF StrictSubsetOrdering
<1> QED
  BY <1>4, <1>7, <1>9

LEMMA PlacesAreFinite ==
    ASSUME NEW s \in Seq(FiledEvents), NEW places \in SUBSET DOMAIN s
    PROVE  IsFiniteSet(places) /\ places \subseteq Nat
<1>1. DOMAIN s = 1..Len(s) /\ Len(s) \in Nat
  OBVIOUS
<1>2. IsFiniteSet(1..Len(s))
  BY <1>1, FS_Interval
<1> QED
  BY <1>1, <1>2, FS_Subset

LEMMA TimeAt ==
    ASSUME RecordHypotheses, detail \in [FiledEvents -> SaidDetails], NEW s \in Seq(FiledEvents), NEW i \in DOMAIN s
    PROVE  s[i] \in FiledEvents /\ detail[s[i]] \in Record!DetailType /\ detail[s[i]].time \in Nat
<1>1. s[i] \in FiledEvents
  OBVIOUS
<1>2. detail[s[i]] \in Record!DetailType
  BY <1>1 DEF RecordHypotheses
<1>3. detail[s[i]].time \in Nat
  BY <1>2 DEF Record!DetailType
<1> QED
  BY <1>1, <1>2, <1>3

(* The first and the last of some places are there, and are what they say. *)
LEMMA FirstIsFirst ==
    ASSUME RecordHypotheses, detail \in [FiledEvents -> SaidDetails], NEW s \in Seq(FiledEvents),
           NEW places \in SUBSET DOMAIN s, places # {}
    PROVE  \E i \in places : /\ Record!FirstOf(s, places) = detail[s[i]]
                             /\ \A j \in places : detail[s[i]].time <= detail[s[j]].time
<1> DEFINE R == {p \in places \X places : Record!Earlier(s, p[2], p[1])}
<1>1. \A i \in places : detail[s[i]].time \in Nat /\ i \in Nat
  BY TimeAt, PlacesAreFinite
<1>2. \A i, j \in places : Record!Earlier(s, i, j) <=>
         \/ detail[s[i]].time < detail[s[j]].time
         \/ detail[s[i]].time = detail[s[j]].time /\ i < j
  BY DEF Record!Earlier
<1>3. \A i, j \in places : <<i, j>> \in R <=> Record!Earlier(s, j, i)
  OBVIOUS
<1> HIDE DEF R
<1>4. PICK i \in places : \A j \in places : <<i, j>> \notin R
  <2>1. IsFiniteSet(places)
    BY PlacesAreFinite
  <2>2. \A x \in places : <<x, x>> \notin R
    BY <1>1, <1>2, <1>3
  <2>3. \A x, y, z \in places : <<x, y>> \in R /\ <<y, z>> \in R => <<x, z>> \in R
    BY <1>1, <1>2, <1>3
  <2> QED
    BY <2>1, <2>2, <2>3, HasExtreme
<1>5. ASSUME NEW j \in places \ {i} PROVE Record!Earlier(s, i, j)
  <2>1. ~Record!Earlier(s, j, i)
    BY <1>3, <1>4
  <2> QED
    BY <1>1, <1>2, <2>1
<1>6. PICK k \in places : /\ k = CHOOSE n \in places : \A j \in places \ {n} : Record!Earlier(s, n, j)
                          /\ \A j \in places \ {k} : Record!Earlier(s, k, j)
  BY <1>5
<1>7. Record!FirstOf(s, places) = detail[s[k]]
  BY <1>6 DEF Record!FirstOf
<1>8. ASSUME NEW j \in places PROVE detail[s[k]].time <= detail[s[j]].time
  <2>1. j = k \/ Record!Earlier(s, k, j)
    BY <1>6
  <2> QED
    BY <1>1, <1>2, <2>1
<1> QED
  BY <1>7, <1>8

LEMMA LastIsLast ==
    ASSUME RecordHypotheses, detail \in [FiledEvents -> SaidDetails], NEW s \in Seq(FiledEvents),
           NEW places \in SUBSET DOMAIN s, places # {}
    PROVE  \E i \in places : /\ Record!LastOf(s, places) = detail[s[i]]
                             /\ \A j \in places : detail[s[j]].time <= detail[s[i]].time
<1> DEFINE R == {p \in places \X places : Record!Earlier(s, p[1], p[2])}
<1>1. \A i \in places : detail[s[i]].time \in Nat /\ i \in Nat
  BY TimeAt, PlacesAreFinite
<1>2. \A i, j \in places : Record!Earlier(s, i, j) <=>
         \/ detail[s[i]].time < detail[s[j]].time
         \/ detail[s[i]].time = detail[s[j]].time /\ i < j
  BY DEF Record!Earlier
<1>3. \A i, j \in places : <<i, j>> \in R <=> Record!Earlier(s, i, j)
  OBVIOUS
<1> HIDE DEF R
<1>4. PICK i \in places : \A j \in places : <<i, j>> \notin R
  <2>1. IsFiniteSet(places)
    BY PlacesAreFinite
  <2>2. \A x \in places : <<x, x>> \notin R
    BY <1>1, <1>2, <1>3
  <2>3. \A x, y, z \in places : <<x, y>> \in R /\ <<y, z>> \in R => <<x, z>> \in R
    BY <1>1, <1>2, <1>3
  <2> QED
    BY <2>1, <2>2, <2>3, HasExtreme
<1>5. ASSUME NEW j \in places \ {i} PROVE Record!Earlier(s, j, i)
  <2>1. ~Record!Earlier(s, i, j)
    BY <1>3, <1>4
  <2> QED
    BY <1>1, <1>2, <2>1
<1>6. PICK k \in places : /\ k = CHOOSE n \in places : \A j \in places \ {n} : Record!Earlier(s, j, n)
                          /\ \A j \in places \ {k} : Record!Earlier(s, j, k)
  BY <1>5
<1>7. Record!LastOf(s, places) = detail[s[k]]
  BY <1>6 DEF Record!LastOf
<1>8. ASSUME NEW j \in places PROVE detail[s[j]].time <= detail[s[k]].time
  <2>1. j = k \/ Record!Earlier(s, j, k)
    BY <1>6
  <2> QED
    BY <1>1, <1>2, <2>1
<1> QED
  BY <1>7, <1>8

VerdictsIn(E) == {detail[e].verdict : e \in E}

(* A merge counts a score of either kind as a bot's.                       *)
Automated(r) ==
    \/ Record!ScoredHigh(r.events, "bot")
    \/ r.version > 1 /\ Record!ScoredHigh(r.events, "threat")

(* What a row tells of its events.                                         *)
Span(r) ==
    /\ r.events \in SUBSET FiledEvents /\ r.events # {} /\ IsFiniteSet(r.events)
    /\ \E e \in r.events : r.first = detail[e].time
    /\ \A e \in r.events : r.first <= detail[e].time
    /\ \E e \in r.events : r.last = detail[e].time
    /\ \A e \in r.events : r.last >= detail[e].time

Columns(r) ==
    /\ DOMAIN r.verdicts = Record!VendorsOf(r.events)
    /\ \A v \in Record!VendorsOf(r.events) :
          \E e \in r.events : detail[e].vendor = v /\ detail[e].verdict = r.verdicts[v]
    /\ r.shared = \E e \in r.events : detail[e].shared
    /\ r.host = "" <=> \A e \in r.events : detail[e].host = ""

ScoreColumn(r) ==
    /\ \A v \in DOMAIN r.scores :
          \E e \in r.events : detail[e].vendor = v /\ detail[e].score = r.scores[v] /\ r.scores[v] # "none"
    /\ \A e \in r.events : detail[e].score # "none" => detail[e].vendor \in DOMAIN r.scores

(* The kind of disagreement is that of all its events.                     *)
Weighed(r) ==
    Record!DistinctVendors(r.events) =>
        LET V == VerdictsIn(r.events)
        IN  /\ r.outcome = Record!MostRestrictive(V)
            /\ r.kind = Record!Kind(V, Record!Cardinality(r.events), Automated(r))

Numbered(r) == r.version \in Nat /\ r.version > 0

Tells(r) == Span(r) /\ Columns(r) /\ ScoreColumn(r) /\ Numbered(r) /\ Weighed(r)

RecordInv ==
    /\ detail \in [FiledEvents -> SaidDetails]
    /\ members \in Seq(FiledEvents)
    /\ \A r \in Record!Rows : Tells(r)

LEMMA BuildFields ==
    ASSUME NEW s, NEW r, r = Record!BuildRecord(s)
    PROVE  LET E == Record!Range(s) IN
           /\ r.events = E
           /\ r.first = Record!FirstOf(s, DOMAIN s).time
           /\ r.last = Record!LastOf(s, DOMAIN s).time
           /\ r.verdicts = [v \in Record!VendorsOf(E) |-> Record!LastOf(s, Record!OfVendor(s, v)).verdict]
           /\ r.scores = [v \in {detail[s[i]].vendor : i \in Record!Scored(s)} |->
                             Record!LastOf(s, Record!OfVendor(s, v) \cap Record!Scored(s)).score]
           /\ r.host = IF Record!Hosted(s) = {} THEN "" ELSE Record!FirstOf(s, Record!Hosted(s)).host
           /\ r.shared = \E e \in E : detail[e].shared
           /\ r.outcome = Record!MostRestrictive(VerdictsIn(E))
           /\ r.kind = Record!Kind(VerdictsIn(E), Record!Cardinality(E), Record!ScoredHigh(E, "bot"))
           /\ r.version = 1
BY DEF Record!BuildRecord, Record!VendorsOf, VerdictsIn, Record!ScoredHigh

LEMMA Built ==
    ASSUME RecordHypotheses, detail \in [FiledEvents -> SaidDetails], NEW s \in Seq(FiledEvents), s # <<>>,
           NEW r, r = Record!BuildRecord(s)
    PROVE  Tells(r)
<1> DEFINE E == Record!Range(s)
<1>1. E \in SUBSET FiledEvents /\ E # {} /\ IsFiniteSet(E) /\ DOMAIN s # {} /\ DOMAIN s \in SUBSET DOMAIN s
  <2>1. DOMAIN s = 1..Len(s) /\ Len(s) \in Nat /\ Len(s) > 0
    OBVIOUS
  <2>2. IsFiniteSet(DOMAIN s)
    BY <2>1, FS_Interval
  <2>3. s \in Surjection(DOMAIN s, E)
    BY DEF Surjection, Record!Range
  <2>4. IsFiniteSet(E)
    BY <2>2, <2>3, FS_Surjection
  <2> QED
    BY <2>1, <2>4 DEF Record!Range
<1>2. /\ \A i \in DOMAIN s : s[i] \in E
      /\ \A e \in E : \E i \in DOMAIN s : e = s[i]
  BY DEF Record!Range
<1>3. r.events = E
  BY BuildFields
<1> HIDE DEF E
<1>4. Span(r)
  <2>1. r.first = Record!FirstOf(s, DOMAIN s).time /\ r.last = Record!LastOf(s, DOMAIN s).time
    BY BuildFields
  <2>2. PICK i \in DOMAIN s : /\ Record!FirstOf(s, DOMAIN s) = detail[s[i]]
                              /\ \A j \in DOMAIN s : detail[s[i]].time <= detail[s[j]].time
    BY <1>1, FirstIsFirst
  <2>3. PICK k \in DOMAIN s : /\ Record!LastOf(s, DOMAIN s) = detail[s[k]]
                              /\ \A j \in DOMAIN s : detail[s[j]].time <= detail[s[k]].time
    BY <1>1, LastIsLast
  <2>4. \A j \in DOMAIN s : detail[s[j]].time \in Nat
    BY TimeAt
  <2> QED
    BY <1>1, <1>2, <1>3, <2>1, <2>2, <2>3, <2>4 DEF Span
<1>5. Columns(r)
  <2>1. r.verdicts = [v \in Record!VendorsOf(E) |-> Record!LastOf(s, Record!OfVendor(s, v)).verdict]
    BY BuildFields DEF E
  <2>2. ASSUME NEW v \in Record!VendorsOf(E)
        PROVE  \E e \in E : detail[e].vendor = v /\ detail[e].verdict = r.verdicts[v]
    <3>1. Record!OfVendor(s, v) \in SUBSET DOMAIN s /\ Record!OfVendor(s, v) # {}
      BY <1>2 DEF Record!VendorsOf, Record!OfVendor
    <3>2. PICK i \in Record!OfVendor(s, v) : Record!LastOf(s, Record!OfVendor(s, v)) = detail[s[i]]
      BY <3>1, LastIsLast
    <3>3. s[i] \in E /\ detail[s[i]].vendor = v
      BY <1>2 DEF Record!OfVendor
    <3> QED
      BY <2>1, <3>2, <3>3
  <2>3. r.shared = \E e \in E : detail[e].shared
    BY BuildFields DEF E
  <2>4. r.host = "" <=> \A e \in E : detail[e].host = ""
    <3>1. r.host = IF Record!Hosted(s) = {} THEN "" ELSE Record!FirstOf(s, Record!Hosted(s)).host
      BY BuildFields
    <3>2. CASE Record!Hosted(s) = {}
      BY <1>2, <3>1, <3>2 DEF Record!Hosted
    <3>3. CASE Record!Hosted(s) # {}
      <4>1. Record!Hosted(s) \in SUBSET DOMAIN s
        BY DEF Record!Hosted
      <4>2. PICK i \in Record!Hosted(s) : Record!FirstOf(s, Record!Hosted(s)) = detail[s[i]]
        BY <3>3, <4>1, FirstIsFirst
      <4> QED
        BY <1>2, <3>1, <3>3, <4>2 DEF Record!Hosted
    <3> QED
      BY <3>2, <3>3
  <2> QED
    BY <1>3, <2>1, <2>2, <2>3, <2>4 DEF Columns
<1>6. ScoreColumn(r)
  <2>1. r.scores = [v \in {detail[s[i]].vendor : i \in Record!Scored(s)} |->
                       Record!LastOf(s, Record!OfVendor(s, v) \cap Record!Scored(s)).score]
    BY BuildFields
  <2>2. ASSUME NEW v \in DOMAIN r.scores
       
        PROVE  \E e \in E : detail[e].vendor = v /\ detail[e].score = r.scores[v] /\ r.scores[v] # "none"
    <3>1. Record!OfVendor(s, v) \cap Record!Scored(s) \in SUBSET DOMAIN s /\ Record!OfVendor(s, v) \cap Record!Scored(s) # {}
      BY <2>1 DEF Record!Scored, Record!OfVendor
    <3>2. PICK i \in Record!OfVendor(s, v) \cap Record!Scored(s) :
              Record!LastOf(s, Record!OfVendor(s, v) \cap Record!Scored(s)) = detail[s[i]]
      BY <3>1, LastIsLast
    <3>3. s[i] \in E /\ detail[s[i]].vendor = v /\ detail[s[i]].score # "none"
      BY <1>2 DEF Record!OfVendor, Record!Scored
    <3> QED
      BY <2>1, <3>2, <3>3
  <2>3. \A e \in E : detail[e].score # "none" => detail[e].vendor \in DOMAIN r.scores
    BY <1>2, <2>1 DEF Record!Scored
  <2> QED
    BY <1>3, <2>2, <2>3 DEF ScoreColumn
<1>7. Numbered(r)
  <2>1. r.version = 1
    BY BuildFields
  <2> QED
    BY <2>1 DEF Numbered
<1>8. Weighed(r)
  <2>1. /\ r.outcome = Record!MostRestrictive(VerdictsIn(E)) /\ r.version = 1
        /\ r.kind = Record!Kind(VerdictsIn(E), Record!Cardinality(E), Record!ScoredHigh(E, "bot"))
    BY BuildFields DEF E
  <2>2. Automated(r) <=> Record!ScoredHigh(E, "bot")
    BY <1>3, <2>1 DEF Automated
  <2> QED
    BY <1>3, <2>1, <2>2 DEF Weighed, Record!Kind
<1> QED
  BY <1>4, <1>5, <1>6, <1>7, <1>8 DEF Tells

LEMMA SameCount == \A S : Record!Cardinality(S) = Cardinality(S)
BY DEF Record!Cardinality, Record!IsFiniteSet, Cardinality, IsFiniteSet

LEMMA OneEach ==
    ASSUME NEW E, IsFiniteSet(E), Record!DistinctVendors(E), NEW e \in E, NEW f \in E, detail[e].vendor = detail[f].vendor
    PROVE  e = f
<1> DEFINE g == [x \in E |-> detail[x].vendor]
<1>1. g \in Surjection(E, Record!VendorsOf(E))
  BY DEF Surjection, Record!VendorsOf
<1>2. g \in Injection(E, Record!VendorsOf(E))
  BY <1>1, SameCount, FS_Surjection DEF Record!DistinctVendors
<1> QED
  BY <1>2 DEF Injection, IsInjective

(* Where every vendor has one event, its columns weigh what its events do. *)
LEMMA ReclassifiedWeighs ==
    ASSUME RecordHypotheses, detail \in [FiledEvents -> SaidDetails],
           NEW r, Span(r), Columns(r), ScoreColumn(r), r.version > 1,
           r.outcome = Record!MostRestrictive(Record!Range(r.verdicts)),
           r.kind = Record!Kind(Record!Range(r.verdicts), Record!Cardinality(DOMAIN r.verdicts), "high" \in Record!Range(r.scores))
    PROVE  Weighed(r)
<1> SUFFICES ASSUME Record!DistinctVendors(r.events)
             PROVE  /\ r.outcome = Record!MostRestrictive(VerdictsIn(r.events))
                    /\ r.kind = Record!Kind(VerdictsIn(r.events), Record!Cardinality(r.events), Automated(r))
  BY DEF Weighed
<1>1. \A e, f \in r.events : detail[e].vendor = detail[f].vendor => e = f
  BY OneEach DEF Span
<1>2. ASSUME NEW e \in r.events
     
      PROVE  detail[e].vendor \in DOMAIN r.verdicts /\ r.verdicts[detail[e].vendor] = detail[e].verdict
  <2>1. detail[e].vendor \in Record!VendorsOf(r.events)
    BY DEF Record!VendorsOf
  <2>2. PICK f \in r.events :
            detail[f].vendor = detail[e].vendor /\ detail[f].verdict = r.verdicts[detail[e].vendor]
    BY <2>1 DEF Columns
  <2> QED
    BY <1>1, <2>1, <2>2 DEF Columns
<1>3. Record!Range(r.verdicts) = VerdictsIn(r.events)
  <2>1. Record!Range(r.verdicts) \subseteq VerdictsIn(r.events)
    <3> SUFFICES ASSUME NEW v \in DOMAIN r.verdicts PROVE r.verdicts[v] \in VerdictsIn(r.events)
      BY DEF Record!Range
    <3>1. PICK e \in r.events : detail[e].verdict = r.verdicts[v]
      BY DEF Columns
    <3> QED
      BY <3>1 DEF VerdictsIn
  <2>2. VerdictsIn(r.events) \subseteq Record!Range(r.verdicts)
    BY <1>2 DEF Record!Range, VerdictsIn
  <2> QED
    BY <2>1, <2>2
<1>4. Record!Cardinality(DOMAIN r.verdicts) = Record!Cardinality(r.events)
  BY DEF Columns, Record!DistinctVendors
<1>5. Automated(r) => "high" \in Record!Range(r.scores)
  <2> SUFFICES ASSUME NEW e \in r.events, detail[e].score = "high"
               PROVE "high" \in Record!Range(r.scores)
    BY DEF Automated, Record!ScoredHigh
  <2>1. detail[e].vendor \in DOMAIN r.scores
    BY DEF ScoreColumn
  <2>2. r.scores[detail[e].vendor] = "high"
    BY <1>1, <2>1 DEF ScoreColumn
  <2> QED
    BY <2>1, <2>2 DEF Record!Range
<1>6. "high" \in Record!Range(r.scores) => Automated(r)
  <2> SUFFICES ASSUME NEW v \in DOMAIN r.scores, r.scores[v] = "high" PROVE Automated(r)
    BY DEF Record!Range
  <2>1. PICK e \in r.events : detail[e].score = "high"
    BY DEF ScoreColumn
  <2>2. detail[e] \in Record!DetailType
    BY DEF RecordHypotheses, Span
  <2>3. detail[e].kind \in {"bot", "threat"}
    BY <2>2 DEF Record!DetailType, Record!Kinds
  <2> QED
    BY <2>1, <2>3 DEF Automated, Record!ScoredHigh
<1> QED
  BY <1>3, <1>4, <1>5, <1>6 DEF Record!Kind

(* What an amendment makes of a stored row and a fresh record.             *)
Amended(r, stored, fresh) ==
    /\ r.events = stored.events \cup fresh.events
    /\ r.first = Record!Smaller(stored.first, fresh.first) /\ r.last = Record!Larger(stored.last, fresh.last)
    /\ r.verdicts = Record!Overlay(fresh.verdicts, stored.verdicts)
    /\ r.scores = Record!Overlay(fresh.scores, stored.scores)
    /\ r.host = IF fresh.host = "" THEN stored.host ELSE fresh.host
    /\ r.shared = (fresh.shared \/ stored.shared)
    /\ r.outcome = Record!MostRestrictive(Record!Range(r.verdicts))
    /\ r.kind = Record!Kind(Record!Range(r.verdicts), Record!Cardinality(DOMAIN r.verdicts), "high" \in Record!Range(r.scores))

LEMMA AmendedFields ==
    ASSUME NEW s, NEW fresh, fresh = Record!BuildRecord(s), NEW stored, stored # Record!NoRow,
           NEW r, r = Record!Versioned(stored, fresh)
    PROVE  Amended(r, stored, fresh) /\ r.version = stored.version + 1
<1>1. PICK events, first, last, verdicts, matched, scores, host, asn, shared, outcome, kind :
         fresh = [events |-> events, first |-> first, last |-> last, verdicts |-> verdicts,
                  matched |-> matched, scores |-> scores, host |-> host, asn |-> asn,
                  shared |-> shared, outcome |-> outcome, kind |-> kind, version |-> 1]
  BY DEF Record!BuildRecord
<1>2. r = [Record!MergeRecords(stored, fresh) EXCEPT !.version = stored.version + 1]
  BY DEF Record!Versioned
<1> QED
  BY ONLY <1>1, <1>2 DEF Record!MergeRecords, Record!Reclassified, Amended

LEMMA TimesAreNatural ==
    ASSUME RecordHypotheses, detail \in [FiledEvents -> SaidDetails], NEW e \in FiledEvents
    PROVE detail[e].time \in Nat
<1>1. detail[e] \in Record!DetailType
  BY DEF RecordHypotheses
<1> QED
  BY <1>1 DEF Record!DetailType

LEMMA Merged ==
    ASSUME RecordHypotheses, detail \in [FiledEvents -> SaidDetails],
           NEW s, NEW fresh, fresh = Record!BuildRecord(s), Tells(fresh),
           NEW stored, Tells(stored), stored # Record!NoRow,
           NEW r, r = Record!Versioned(stored, fresh)
    PROVE  Tells(r)
<1>0. Amended(r, stored, fresh) /\ r.version = stored.version + 1
  BY AmendedFields
<1>1. r.events = stored.events \cup fresh.events
  BY <1>0 DEF Amended
<1>2. \A e \in r.events : detail[e].time \in Nat
  BY <1>1, TimesAreNatural DEF Tells, Span
<1>3. Span(r)
  <2>1. r.first = Record!Smaller(stored.first, fresh.first) /\ r.last = Record!Larger(stored.last, fresh.last)
    BY <1>0 DEF Amended
  <2>2. IsFiniteSet(r.events)
    <3>1. IsFiniteSet(stored.events) /\ IsFiniteSet(fresh.events)
      BY DEF Tells, Span
    <3> QED
      BY <1>1, <3>1, FS_Union
  <2>3. r.events \in SUBSET FiledEvents /\ r.events # {}
    BY <1>1 DEF Tells, Span
  <2>4. /\ stored.first \in Nat /\ fresh.first \in Nat /\ stored.last \in Nat /\ fresh.last \in Nat
    BY <1>1, <1>2 DEF Tells, Span
  <2>5. /\ \E e \in r.events : r.first = detail[e].time
        /\ \A e \in r.events : r.first <= detail[e].time
    BY <1>1, <1>2, <2>1, <2>4 DEF Tells, Span, Record!Smaller
  <2>6. /\ \E e \in r.events : r.last = detail[e].time
        /\ \A e \in r.events : r.last >= detail[e].time
    BY <1>1, <1>2, <2>1, <2>4 DEF Tells, Span, Record!Larger
  <2> QED
    BY <2>2, <2>3, <2>5, <2>6 DEF Span
<1>4. Columns(r)
  <2>1. r.verdicts = Record!Overlay(fresh.verdicts, stored.verdicts)
    BY <1>0 DEF Amended
  <2>2. Record!VendorsOf(r.events) = Record!VendorsOf(fresh.events) \cup Record!VendorsOf(stored.events)
    BY <1>1 DEF Record!VendorsOf
  <2>3. DOMAIN r.verdicts = Record!VendorsOf(r.events)
    BY <2>1, <2>2 DEF Record!Overlay, Tells, Columns
  <2>4. ASSUME NEW v \in Record!VendorsOf(r.events)
        PROVE  \E e \in r.events : detail[e].vendor = v /\ detail[e].verdict = r.verdicts[v]
    <3>1. CASE v \in DOMAIN fresh.verdicts
      <4>1. r.verdicts[v] = fresh.verdicts[v]
        BY <2>1, <3>1 DEF Record!Overlay
      <4> QED
        <5>1. v \in Record!VendorsOf(fresh.events)
          BY <3>1 DEF Tells, Columns
        <5>2. PICK e \in fresh.events : detail[e].vendor = v /\ detail[e].verdict = fresh.verdicts[v]
          BY <5>1 DEF Tells, Columns
        <5> QED
          BY <1>1, <4>1, <5>2
    <3>2. CASE v \notin DOMAIN fresh.verdicts
      <4>1. v \in DOMAIN stored.verdicts
        BY <2>2, <3>2 DEF Tells, Columns
      <4>2. r.verdicts[v] = stored.verdicts[v]
        BY <2>1, <3>2, <4>1 DEF Record!Overlay
      <4> QED
        <5>1. v \in Record!VendorsOf(stored.events)
          BY <4>1 DEF Tells, Columns
        <5>2. PICK e \in stored.events : detail[e].vendor = v /\ detail[e].verdict = stored.verdicts[v]
          BY <5>1 DEF Tells, Columns
        <5> QED
          BY <1>1, <4>2, <5>2
    <3> QED
      BY <3>1, <3>2
  <2>5. r.shared = \E e \in r.events : detail[e].shared
    <3>1. r.shared = (fresh.shared \/ stored.shared)
      BY <1>0 DEF Amended
    <3> QED
      BY <1>1, <3>1 DEF Tells, Columns
  <2>6. r.host = "" <=> \A e \in r.events : detail[e].host = ""
    <3>1. r.host = IF fresh.host = "" THEN stored.host ELSE fresh.host
      BY <1>0 DEF Amended
    <3> QED
      BY <1>1, <3>1 DEF Tells, Columns
  <2> QED
    BY <2>3, <2>4, <2>5, <2>6 DEF Columns
<1>5. ScoreColumn(r)
  <2>1. r.scores = Record!Overlay(fresh.scores, stored.scores)
    BY <1>0 DEF Amended
  <2>2. DOMAIN r.scores = DOMAIN fresh.scores \cup DOMAIN stored.scores
    BY <2>1 DEF Record!Overlay
  <2>3. ASSUME NEW v \in DOMAIN r.scores
       
        PROVE  \E e \in r.events : detail[e].vendor = v /\ detail[e].score = r.scores[v] /\ r.scores[v] # "none"
    <3>1. CASE v \in DOMAIN fresh.scores
      <4>1. r.scores[v] = fresh.scores[v]
        BY <2>1, <3>1 DEF Record!Overlay
      <4> QED
        BY <1>1, <3>1, <4>1 DEF Tells, ScoreColumn
    <3>2. CASE v \notin DOMAIN fresh.scores
      <4>1. v \in DOMAIN stored.scores /\ r.scores[v] = stored.scores[v]
        BY <2>1, <2>2, <3>2 DEF Record!Overlay
      <4> QED
        BY <1>1, <4>1 DEF Tells, ScoreColumn
    <3> QED
      BY <3>1, <3>2
  <2>4. \A e \in r.events : detail[e].score # "none" => detail[e].vendor \in DOMAIN r.scores
    BY <1>1, <2>2 DEF Tells, ScoreColumn
  <2> QED
    BY <2>3, <2>4 DEF ScoreColumn
<1>6. Numbered(r) /\ r.version > 1
  BY <1>0 DEF Tells, Numbered
<1>7. Weighed(r)
  BY <1>0, <1>3, <1>4, <1>5, <1>6, ReclassifiedWeighs DEF Amended
<1> QED
  BY <1>3, <1>4, <1>5, <1>6, <1>7 DEF Tells

LEMMA SameRow == ASSUME detail' = detail, NEW r PROVE Tells(r)' <=> Tells(r)
<1>1. Span(r)' <=> Span(r)
  BY DEF Span
<1>2. Columns(r)' <=> Columns(r)
  BY DEF Columns, Record!VendorsOf
<1>3. ScoreColumn(r)' <=> ScoreColumn(r)
  BY DEF ScoreColumn
<1>4. Weighed(r)' <=> Weighed(r)
  BY DEF Weighed, Record!DistinctVendors, Record!VendorsOf, VerdictsIn, Automated, Record!ScoredHigh
<1> QED
  BY <1>1, <1>2, <1>3, <1>4 DEF Tells, Numbered

LEMMA RecordInit == ASSUME Record!Init PROVE RecordInv
<1>1. Record!Rows = {}
  BY DEF Record!Init, Record!Rows
<1> QED
  BY <1>1 DEF Record!Init, RecordInv

LEMMA RecordSteps == ASSUME RecordHypotheses, RecordInv, Record!Next PROVE RecordInv'
<1> USE DEF RecordInv
<1>1. detail' = detail
  BY DEF Record!Next, Record!Arrive, Record!Expire, Record!Close, Record!CloseExpired
<1>2. members' \in Seq(FiledEvents)
  <2>1. CASE Record!Arrive
    BY <2>1 DEF Record!Arrive
  <2>2. CASE Record!Expire
    BY <2>2 DEF Record!Expire
  <2>3. CASE Record!Close
    BY <2>3 DEF Record!Close
  <2>4. CASE Record!CloseExpired
    BY <2>4 DEF Record!CloseExpired
  <2> QED
    BY <2>1, <2>2, <2>3, <2>4 DEF Record!Next
<1>3. ASSUME NEW r PROVE Tells(r)' <=> Tells(r)
  BY <1>1, SameRow
<1>4. ASSUME NEW r \in Record!Rows' PROVE Tells(r)
  <2>1. CASE r \in Record!Rows
    BY <2>1
  <2>2. CASE r \notin Record!Rows
    <3>1. PICK fresh : fresh = Record!BuildRecord(members)
      OBVIOUS
    <3>2. Record!Close /\ rows' = Record!Written(Record!Versioned(Record!Stored(Record!Bound(fresh)), fresh))
      <4>1. rows' # rows
        BY <2>2 DEF Record!Rows
      <4> QED
        BY <3>1, <4>1 DEF Record!Next, Record!Arrive, Record!Expire, Record!Close, Record!CloseExpired
    <3>3. r = Record!Versioned(Record!Stored(Record!Bound(fresh)), fresh)
      BY <2>2, <3>2 DEF Record!Written, Record!Rows
    <3>4. Tells(fresh)
      BY <3>1, <3>2, Built DEF Record!Close
    <3>5. CASE Record!Stored(Record!Bound(fresh)) = Record!NoRow
      BY <3>3, <3>4, <3>5 DEF Record!Versioned
    <3>6. CASE Record!Stored(Record!Bound(fresh)) # Record!NoRow
      <4>1. Record!Stored(Record!Bound(fresh)) \in Record!Rows
        BY <3>6 DEF Record!Stored, Record!Bound, Record!Rows
      <4> HIDE DEF RecordInv
      <4>3. Tells(Record!Stored(Record!Bound(fresh))) /\ detail \in [FiledEvents -> SaidDetails]
        BY <4>1 DEF RecordInv
      <4> QED
        BY <3>1, <3>3, <3>4, <3>6, <4>3, Merged
    <3> QED
      BY <3>5, <3>6
  <2> QED
    BY <2>1, <2>2
<1>5. (\A r \in Record!Rows : Tells(r))'
  BY <1>3, <1>4
<1> QED
  BY <1>1, <1>2, <1>5

LEMMA RecordTells ==
    ASSUME RecordHypotheses, RecordInv
    PROVE  Record!RecordTellsOfItsEvents /\ Record!DisagreementFound
<1> SUFFICES ASSUME NEW r \in Record!Rows
             PROVE  /\ r.first = Record!Min({detail[e].time : e \in r.events})
                    /\ r.last = Record!Max({detail[e].time : e \in r.events})
                    /\ Columns(r)
                    /\ Record!DistinctVendors(r.events) =>
                         /\ r.outcome = Record!MostRestrictive(VerdictsIn(r.events))
                         /\ r.kind = Record!Kind(VerdictsIn(r.events), Record!Cardinality(r.events), Automated(r))
  BY DEF Record!RecordTellsOfItsEvents, Record!DisagreementFound, Columns, VerdictsIn, Automated
<1>1. Tells(r)
  BY DEF RecordInv
<1>2. \A e \in r.events : detail[e].time \in Nat
  BY <1>1, TimesAreNatural DEF Tells, Span, RecordInv
<1> DEFINE times == {detail[e].time : e \in r.events}
<1>3. r.first \in times /\ (\A t \in times : r.first <= t) /\ times \subseteq Nat
  BY <1>1, <1>2 DEF Tells, Span
<1>4. r.last \in times /\ \A t \in times : r.last >= t
  BY <1>1, <1>2 DEF Tells, Span
<1> HIDE DEF times
<1>5. r.first = Record!Min(times)
  <2>1. ASSUME NEW x \in times, \A y \in times : x =< y PROVE x = r.first
    <3>1. x \in Nat /\ r.first \in Nat
      BY <1>3, <1>4
    <3>2. x =< r.first /\ r.first =< x
      BY <1>3, <1>4, <2>1
    <3> QED
      BY <3>1, <3>2
  <2> QED
    BY <1>3, <2>1 DEF Record!Min
<1>6. r.last = Record!Max(times)
  <2>1. ASSUME NEW x \in times, \A y \in times : x >= y PROVE x = r.last
    <3>1. x \in Nat /\ r.last \in Nat
      BY <1>3, <1>4
    <3>2. x >= r.last /\ r.last >= x
      BY <1>3, <1>4, <2>1
    <3> QED
      BY <3>1, <3>2
  <2> QED
    BY <1>3, <1>4, <2>1 DEF Record!Max
<1> QED
  BY <1>1, <1>5, <1>6 DEF Tells, Weighed, times

LEMMA RecordStutters == ASSUME RecordInv, UNCHANGED ofRecords PROVE RecordInv'
<1>1. UNCHANGED <<detail, members, rows>>
  BY DEF ofRecords
<1>2. Record!Rows' = Record!Rows
  BY <1>1 DEF Record!Rows
<1>3. ASSUME NEW r PROVE Tells(r)' <=> Tells(r)
  BY <1>1, SameRow
<1> QED
  BY <1>1, <1>2, <1>3 DEF RecordInv

LEMMA RecordOfClosers ==
    ASSUME RecordHypotheses
    PROVE  LET Inv == scenario = "record" => RecordInv
           IN  /\ MCInit => Inv
               /\ Inv /\ [MCNext]_<<vars, ofRecords, scenario>> => Inv'
<1> DEFINE Inv == scenario = "record" => RecordInv
<1>1. MCInit => Inv
  BY RecordInit DEF MCInit
<1>2. Inv /\ [MCNext]_<<vars, ofRecords, scenario>> => Inv'
  <2> SUFFICES ASSUME Inv, [MCNext]_<<vars, ofRecords, scenario>>, scenario' = "record"
               PROVE RecordInv'
    OBVIOUS
  <2>1. scenario = "record" /\ RecordInv
    BY DEF MCNext
  <2>2. CASE UNCHANGED <<vars, ofRecords, scenario>>
    BY <2>1, <2>2, RecordStutters
  <2>3. CASE MCNext
    <3>1. Record!Next
      BY <2>1, <2>3 DEF MCNext
    <3> QED
      BY <2>1, <3>1, RecordSteps
  <2> QED
    BY <2>2, <2>3
<1> QED
  BY <1>1, <1>2

(* What a record tells is what its events tell, however its closings found *)
(* and amended it, for any events, details and partitions.                 *)
THEOREM RecordsTellOfTheirEvents == ASSUME RecordHypotheses PROVE MCSpec => []RecordTellsOfItsEvents
<1> DEFINE Inv == scenario = "record" => RecordInv
<1>1. MCInit => Inv
  BY RecordOfClosers
<1>2. Inv /\ [MCNext]_<<vars, ofRecords, scenario>> => Inv'
  BY RecordOfClosers
<1>3. Inv => RecordTellsOfItsEvents
  BY RecordTells DEF RecordTellsOfItsEvents
<1> QED
  BY <1>1, <1>2, <1>3, PTL DEF MCSpec

(* A disagreement of its vendors is found however late each of them        *)
(* reports, and none is made up but by the one mistake a merge makes of    *)
(* scores, for any events, details and partitions.                         *)
THEOREM DisagreementsAreFound == ASSUME RecordHypotheses PROVE MCSpec => []DisagreementFound
<1> DEFINE Inv == scenario = "record" => RecordInv
<1>1. MCInit => Inv
  BY RecordOfClosers
<1>2. Inv /\ [MCNext]_<<vars, ofRecords, scenario>> => Inv'
  BY RecordOfClosers
<1>3. Inv => DisagreementFound
  BY RecordTells DEF DisagreementFound
<1> QED
  BY <1>1, <1>2, <1>3, PTL DEF MCSpec
=============================================================================
