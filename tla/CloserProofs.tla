---------------------------- MODULE CloserProofs ----------------------------
(***************************************************************************)
(* Proofs about the correlator, for any events, identifiers and shapes,    *)
(* any number of closers, and however many calls fail.                     *)
(*                                                                         *)
(* The argument: what is claimed under an identifier names a group that    *)
(* identifier is connected to (Same).  So an id that is found through any  *)
(* identifier of a group, or claimed under the group's own key, fits all   *)
(* of the group's members (Fits), and what is merged under an id fits it   *)
(* too.                                                                    *)
(***************************************************************************)
EXTENDS Closer, TLAPS, FiniteSetTheorems, WellFoundedInduction

(* Identifier i is one of the request of e.                                *)
Linked(i, e) == \E f \in Component(Events, e) : i \in IdsOf[f]

(* An id and what may be recorded under it.                                *)
Fits(k, r) ==
    IF r.events = {} THEN r.tier = "none"
    ELSE \/ r.tier = "none" /\ k = NoKey
         \/ r.tier = "exact" /\ \E i \in Nat : k = ExactKey(i) /\ \A e \in r.events : Linked(i, e)
         \/ r.tier = "heuristic" /\ \E s \in {ShapeOf[e] : e \in Events}, w \in Nat :
               /\ k = WindowKey(s, w)
               /\ \A e \in r.events : Shaped(e) /\ ShapeOf[e] = s /\ WindowOf(e) \in {w, w + 1}

(* Key k names the same request as id.                                     *)
Same(k, id) ==
    \/ k = id
    \/ \E i, j \in Nat : /\ k = ExactKey(i) /\ id = ExactKey(j)
                         /\ \E e \in Events : i \in IdsOf[e] /\ Linked(j, e)

RowOf(g) == [events |-> g.members, tier |-> g.tier]

GroupFits(g) ==
    /\ g.members # {} /\ Fits(g.key, RowOf(g))
    /\ \A i \in GroupIds(g), e \in g.members : Linked(i, e)

-----------------------------------------------------------------------------
(* Connection.                                                             *)

LEMMA IdTypes == \A e \in Events : IdsOf[e] \subseteq Nat /\ TimeOf[e] \in Nat
BY GroupingAssumption

LEMMA ComponentIn == \A E, e : Component(E, e) \subseteq E
BY DEF Component

LEMMA ComponentSelf ==
    ASSUME NEW E, NEW e \in E
    PROVE  e \in Component(E, e)
BY DEF Component

LEMMA ComponentSymmetric ==
    ASSUME NEW E, NEW e \in E, NEW f \in Component(E, e)
    PROVE  e \in Component(E, f)
<1>1. f \in E
  BY DEF Component
<1>2. SUFFICES ASSUME NEW S \in SUBSET E, f \in S, ClosedUnderIds(E, S), e \notin S
               PROVE  FALSE
  BY DEF Component
<1>3. ClosedUnderIds(E, E \ S)
  BY <1>2 DEF ClosedUnderIds, Connected
<1>4. f \in E \ S
  BY <1>2, <1>3 DEF Component
<1> QED
  BY <1>2, <1>4

LEMMA ComponentTransitive ==
    ASSUME NEW E, NEW e \in E, NEW f \in Component(E, e), NEW g \in Component(E, f)
    PROVE  g \in Component(E, e)
BY DEF Component

LEMMA ComponentConnected ==
    ASSUME NEW E, NEW e \in E, NEW f \in E, Connected(e, f)
    PROVE  f \in Component(E, e)
BY DEF Component, ClosedUnderIds

LEMMA ComponentGrows ==
    ASSUME NEW E \in SUBSET Events, NEW e \in E, NEW f \in Component(E, e)
    PROVE  f \in Component(Events, e)
<1>1. f \in E
  BY DEF Component
<1>2. SUFFICES ASSUME NEW S \in SUBSET Events, e \in S, ClosedUnderIds(Events, S)
               PROVE  f \in S
  BY <1>1 DEF Component
<1>3. ClosedUnderIds(E, S \cap E)
  BY <1>2 DEF ClosedUnderIds
<1> QED
  BY <1>2, <1>3 DEF Component

(* Two events that share an identifier are linked to the same ones.        *)
LEMMA LinkedOver ==
    ASSUME NEW m \in Events, NEW i, NEW j, Linked(i, m), NEW e \in Events, i \in IdsOf[e], Linked(j, e)
    PROVE  Linked(j, m)
<1>1. PICK x \in Component(Events, m) : i \in IdsOf[x]
  BY DEF Linked
<1>2. PICK y \in Component(Events, e) : j \in IdsOf[y]
  BY DEF Linked
<1>3. x \in Events /\ Connected(x, e)
  BY <1>1, ComponentIn DEF Connected
<1>4. e \in Component(Events, x)
  BY <1>3, ComponentConnected
<1>5. e \in Component(Events, m)
  BY <1>1, <1>4, ComponentTransitive
<1>6. y \in Component(Events, m)
  BY <1>2, <1>5, ComponentTransitive
<1> QED
  BY <1>2, <1>6 DEF Linked

LEMMA LinkedJoin ==
    ASSUME NEW e \in Events, NEW f \in Events, NEW i, Linked(i, e), Linked(i, f)
    PROVE  f \in Component(Events, e)
<1>1. PICK x \in Component(Events, e) : i \in IdsOf[x]
  BY DEF Linked
<1>2. PICK y \in Component(Events, f) : i \in IdsOf[y]
  BY DEF Linked
<1>3. x \in Events /\ y \in Events /\ Connected(x, y)
  BY <1>1, <1>2, ComponentIn DEF Connected
<1>4. y \in Component(Events, e)
  BY <1>1, <1>3, ComponentConnected, ComponentTransitive
<1>5. f \in Component(Events, y)
  BY <1>2, ComponentSymmetric
<1> QED
  BY <1>4, <1>5, ComponentTransitive

-----------------------------------------------------------------------------
(* Keys.                                                                   *)

LEMMA Keys ==
    /\ \A i, j : ExactKey(i) = ExactKey(j) => i = j
    /\ \A s, t, v, w : WindowKey(s, v) = WindowKey(t, w) => s = t /\ v = w
    /\ \A i, s, w, e : /\ ExactKey(i) # WindowKey(s, w) /\ ExactKey(i) # SoloKey(e)
                       /\ ExactKey(i) # NoKey /\ WindowKey(s, w) # NoKey
                       /\ ExactKey(i) # Unclaimed /\ WindowKey(s, w) # Unclaimed
                       /\ SoloKey(e) # Unclaimed
    /\ NoKey # Unclaimed
<1>1. \A i, j : ExactKey(i) = ExactKey(j) => i = j
  BY DEF ExactKey
<1>2. \A s, t, v, w : WindowKey(s, v) = WindowKey(t, w) => s = t /\ v = w
  BY DEF WindowKey
<1>3. \A i, s, w, e : /\ ExactKey(i) # WindowKey(s, w) /\ ExactKey(i) # SoloKey(e)
                      /\ ExactKey(i) # NoKey /\ WindowKey(s, w) # NoKey
                      /\ ExactKey(i) # Unclaimed /\ WindowKey(s, w) # Unclaimed
                      /\ SoloKey(e) # Unclaimed
  BY DEF ExactKey, WindowKey, SoloKey, NoKey, Unclaimed
<1>4. NoKey # Unclaimed
  BY DEF NoKey, Unclaimed
<1> QED
  BY <1>1, <1>2, <1>3, <1>4

LEMMA WindowType == \A e \in Events : WindowOf(e) \in Nat
<1>1. \A n \in Nat, m \in Nat \ {0} : n \div m \in Nat
  OBVIOUS
<1> QED
  BY <1>1, IdTypes, GroupingAssumption DEF WindowOf

LEMMA KeyTypes ==
    /\ \A e \in Events : ClosingKey(e) \in ClosingKeys
    /\ \A E \in SUBSET Events : ExactKeys(E) \subseteq BucketKeys
    /\ BucketKeys \subseteq GroupKeys /\ NoKey \in GroupKeys
    /\ Unclaimed \notin GroupKeys
<1>1. \A e \in Events : ClosingKey(e) \in ClosingKeys
  BY DEF ClosingKeys
<1>2. \A E \in SUBSET Events : ExactKeys(E) \subseteq BucketKeys
  BY DEF BucketKeys, ExactKeys
<1>3. BucketKeys \subseteq GroupKeys /\ NoKey \in GroupKeys
  BY DEF GroupKeys
<1>4. Unclaimed \notin GroupKeys
  BY Keys DEF GroupKeys, BucketKeys, ClosingKeys, ClosingKey, ExactKeys
<1> QED
  BY <1>1, <1>2, <1>3, <1>4

LEMMA SmallestIn ==
    ASSUME NEW I \in SUBSET Nat, I # {}
    PROVE  Smallest(I) \in I
<1> DEFINE R == OpToRel(<, Nat)
<1>1. IsWellFoundedOn(R, Nat)
  BY NatLessThanWellFounded
<1>2. \A x, y \in Nat : ~(<<y, x>> \in R) => x <= y
  BY DEF OpToRel
<1> HIDE DEF R
<1>3. PICK x \in I : \A y \in I : ~(<<y, x>> \in R)
  BY <1>1, WFMin
<1>4. \A y \in I : x <= y
  BY <1>2, <1>3
<1> QED
  BY <1>4 DEF Smallest

-----------------------------------------------------------------------------
(* Groups.                                                                 *)

LEMMA TierNames == Tiers = {"exact", "heuristic", "none"}
BY DEF Tiers, TierRank

(* A confirmed event shares identifiers.                                   *)
LEMMA ConfirmedHasIds ==
    ASSUME NEW E \in SUBSET Events, NEW e \in E, Confirmed(E, e)
    PROVE  UNION {IdsOf[f] : f \in Component(E, e)} # {}
<1> DEFINE C == Component(E, e)
<1>1. SUFFICES ASSUME UNION {IdsOf[f] : f \in C} = {} PROVE FALSE
  OBVIOUS
<1>2. C \subseteq E /\ e \in C
  BY ComponentIn, ComponentSelf
<1>3. IdsOf[e] = {}
  BY <1>1, <1>2
<1>4. ClosedUnderIds(E, {e})
  BY <1>3 DEF ClosedUnderIds, Connected
<1>5. C = {e}
  BY <1>2, <1>4 DEF Component
<1>6. {VendorOf[f] : f \in C} = {VendorOf[e]}
  BY <1>5
<1>7. Cardinality({VendorOf[f] : f \in C}) = 1
  BY <1>6, FS_Singleton
<1> QED
  BY <1>7 DEF Confirmed

LEMMA ExactFits ==
    ASSUME NEW E \in SUBSET Events, NEW g \in ExactGroups(E)
    PROVE  g \in Group /\ GroupFits(g)
<1>1. PICK e \in E :
          /\ Confirmed(E, e)
          /\ g = [key |-> ExactKey(Smallest(UNION {IdsOf[f] : f \in Component(E, e)})),
                  tier |-> "exact", members |-> Component(E, e)]
  BY DEF ExactGroups
<1> DEFINE C == Component(E, e)
           I == UNION {IdsOf[f] : f \in C}
<1>2. C \subseteq E /\ e \in C /\ I \subseteq Nat
  BY IdTypes, ComponentIn, ComponentSelf
<1>3. I # {}
  BY <1>1, ConfirmedHasIds
<1>4. \A i \in I, m \in C : Linked(i, m)
  <2>1. SUFFICES ASSUME NEW f \in C, NEW i \in IdsOf[f], NEW m \in C PROVE Linked(i, m)
    OBVIOUS
  <2>2. /\ f \in Component(Events, e) /\ m \in Component(Events, e)
        /\ e \in Events /\ m \in Events
    BY <1>2, <2>1, ComponentGrows
  <2>3. e \in Component(Events, m)
    BY <2>2, ComponentSymmetric
  <2>4. f \in Component(Events, m)
    BY <2>2, <2>3, ComponentTransitive
  <2> QED
    BY <2>1, <2>4 DEF Linked
<1>5. Smallest(I) \in I
  BY <1>2, <1>3, SmallestIn
<1>6. ExactKey(Smallest(I)) \in GroupKeys
  <2>1. ExactKey(Smallest(I)) \in ExactKeys(C)
    BY <1>5 DEF ExactKeys
  <2> QED
    BY <1>2, <2>1, KeyTypes
<1>7. g.key = ExactKey(Smallest(I)) /\ g.tier = "exact" /\ g.members = C /\ GroupIds(g) = I
  BY <1>1 DEF GroupIds
<1>8. Fits(g.key, RowOf(g))
  <2>1. Smallest(I) \in Nat /\ \A m \in C : Linked(Smallest(I), m)
    BY <1>2, <1>4, <1>5
  <2>2. RowOf(g).events = C /\ RowOf(g).tier = "exact" /\ C # {}
    BY <1>2, <1>7 DEF RowOf
  <2> HIDE DEF I, C
  <2> QED
    BY <1>7, <2>1, <2>2 DEF Fits
<1>9. g \in Group
  BY <1>1, <1>2, <1>6, TierNames DEF Group
<1> QED
  BY <1>2, <1>4, <1>7, <1>8, <1>9 DEF GroupFits

(* An event that opens no window joins the window before its own, which is *)
(* occupied.                                                               *)
LEMMA JoinsPrevious ==
    ASSUME NEW E, NEW e \in E, WindowOf(e) \in Nat, ~Opens(E, ShapeOf[e], WindowOf(e))
    PROVE  /\ WindowOf(e) - 1 \in Nat
           /\ \E f \in E : ShapeOf[f] = ShapeOf[e] /\ WindowOf(f) = WindowOf(e) - 1
<1> DEFINE w == WindowOf(e)
           occupied(v) == \E f \in E : ShapeOf[f] = ShapeOf[e] /\ WindowOf(f) = v
<1>1. /\ w \in 0..w /\ (w - w) % 2 = 0
  OBVIOUS
<1>2. \A v \in w..w : occupied(v)
  OBVIOUS
<1>3. ~(w = 0 \/ ~occupied(w - 1))
  BY <1>1, <1>2 DEF Opens
<1> QED
  BY <1>3

LEMMA HeuristicFits ==
    ASSUME NEW E \in SUBSET Events, \A e \in E : Shaped(e), NEW g \in HeuristicGroups(E)
    PROVE  g \in Group /\ GroupFits(g)
<1>1. PICK e \in E : g = [key |-> HeuristicKeyIn(E, e), tier |-> "heuristic",
                          members |-> {f \in E : HeuristicKeyIn(E, f) = HeuristicKeyIn(E, e)}]
  BY DEF HeuristicGroups
<1>2. ASSUME NEW f \in E
      PROVE  \E w \in Nat : /\ HeuristicKeyIn(E, f) = WindowKey(ShapeOf[f], w)
                            /\ WindowOf(f) \in {w, w + 1}
                            /\ WindowKey(ShapeOf[f], w) \in ClosingKeys
  <2>1. WindowOf(f) \in Nat /\ f \in Events /\ Shaped(f)
    BY WindowType
  <2>2. CASE Opens(E, ShapeOf[f], WindowOf(f))
    <3>1. WindowKey(ShapeOf[f], WindowOf(f)) = ClosingKey(f)
      BY <2>1 DEF ClosingKey
    <3> QED
      BY <2>1, <2>2, <3>1, KeyTypes DEF HeuristicKeyIn
  <2>3. CASE ~Opens(E, ShapeOf[f], WindowOf(f))
    <3>1. PICK d \in E : ShapeOf[d] = ShapeOf[f] /\ WindowOf(d) = WindowOf(f) - 1
      BY <2>1, <2>3, JoinsPrevious
    <3>2. WindowOf(f) - 1 \in Nat
      BY <2>1, <2>3, JoinsPrevious
    <3>3. WindowKey(ShapeOf[f], WindowOf(f) - 1) = ClosingKey(d) /\ d \in Events
      BY <3>1 DEF ClosingKey
    <3>4. HeuristicKeyIn(E, f) = WindowKey(ShapeOf[f], WindowOf(f) - 1)
      BY <2>3 DEF HeuristicKeyIn
    <3>5. WindowOf(f) = (WindowOf(f) - 1) + 1
      BY <2>1
    <3> QED
      BY <3>2, <3>3, <3>4, <3>5, KeyTypes
  <2> QED
    BY <2>2, <2>3
<1>3. PICK w \in Nat : g.key = WindowKey(ShapeOf[e], w) /\ g.key \in ClosingKeys
  BY <1>1, <1>2
<1>4. /\ g.tier = "heuristic" /\ e \in g.members /\ g.members \subseteq E
      /\ \A f \in g.members : HeuristicKeyIn(E, f) = g.key
  BY <1>1
<1>5. \A f \in g.members : Shaped(f) /\ ShapeOf[f] = ShapeOf[e] /\ WindowOf(f) \in {w, w + 1}
  <2>1. SUFFICES ASSUME NEW f \in g.members PROVE ShapeOf[f] = ShapeOf[e] /\ WindowOf(f) \in {w, w + 1}
    BY <1>4
  <2>2. PICK v \in Nat : g.key = WindowKey(ShapeOf[f], v) /\ WindowOf(f) \in {v, v + 1}
    BY <1>2, <1>4
  <2>3. ShapeOf[e] = ShapeOf[f] /\ w = v
    BY <1>3, <2>2 DEF WindowKey
  <2> QED
    BY <2>2, <2>3
<1>6. Fits(g.key, RowOf(g))
  BY <1>3, <1>4, <1>5 DEF Fits, RowOf
<1>7. g \in Group
  BY <1>1, <1>3, <1>4, TierNames DEF Group, GroupKeys, BucketKeys
<1> QED
  BY <1>4, <1>6, <1>7 DEF GroupFits, GroupIds

LEMMA GroupsFit ==
    ASSUME NEW E \in SUBSET Events, NEW g \in Groups(E)
    PROVE  g \in Group /\ GroupFits(g)
<1> DEFINE rest == {e \in E : ~Confirmed(E, e)}
<1>1. CASE g \in ExactGroups(E)
  BY <1>1, ExactFits
<1>2. CASE g \in HeuristicGroups({e \in rest : Shaped(e)})
  <2>1. {e \in rest : Shaped(e)} \in SUBSET Events
    OBVIOUS
  <2> QED
    BY <1>2, <2>1, HeuristicFits
<1>3. CASE g \in SoloGroups({e \in rest : ~Shaped(e)})
  <2>1. PICK e \in E : g = [key |-> NoKey, tier |-> "none", members |-> {e}]
    BY <1>3 DEF SoloGroups
  <2>2. g \in Group
    BY <2>1, KeyTypes, TierNames DEF Group
  <2> QED
    BY <2>1, <2>2 DEF GroupFits, Fits, RowOf, GroupIds
<1> QED
  BY <1>1, <1>2, <1>3 DEF Groups

-----------------------------------------------------------------------------
(* The inductive invariant.                                                *)

(* The group in hand is there, and the id it is given fits it.             *)
Sound(c) ==
    /\ \A g \in groups[c] : GroupFits(g)
    /\ pc[c] \in {"claiming", "publishing"} =>
          /\ groups[c] # {}
          /\ known[c] # Unclaimed => Fits(known[c], RowOf(Current(c)))
    /\ pc[c] = "publishing" => known[c] # Unclaimed /\ left[c] \subseteq GroupIds(Current(c))
    /\ \A id \in GroupKeys :
          Fits(id, draft[c][id]) /\ Fits(id, out[c][id]) /\ Fits(id, old[c][id])

ClaimsFit == \A k \in GroupKeys : identity[k] # Unclaimed => Same(k, identity[k])
TableFits == \A id \in GroupKeys : Fits(id, table[id])

IInv ==
    /\ TypeOK /\ ClaimsFit /\ TableFits
    /\ \A c \in Closers : Sound(c)

(* Only c moves.                                                           *)
OnlyMoves(c) ==
    \A d \in Closers \ {c} :
        /\ pc'[d] = pc[d] /\ groups'[d] = groups[d] /\ known'[d] = known[d] /\ left'[d] = left[d]
        /\ draft'[d] = draft[d] /\ out'[d] = out[d] /\ old'[d] = old[d]

LEMMA Moves ==
    ASSUME IInv, TypeOK', ClaimsFit', TableFits', NEW c \in Closers, OnlyMoves(c), Sound(c)'
    PROVE  IInv'
<1>1. ASSUME NEW d \in Closers PROVE Sound(d)'
  <2>1. CASE d = c
    BY <2>1
  <2>2. CASE d # c
    <3>1. /\ pc'[d] = pc[d] /\ groups'[d] = groups[d] /\ known'[d] = known[d] /\ left'[d] = left[d]
          /\ draft'[d] = draft[d] /\ out'[d] = out[d] /\ old'[d] = old[d]
      BY <2>2 DEF OnlyMoves
    <3>2. Current(d)' = Current(d) /\ Sound(d)
      BY <3>1 DEF Current, IInv
    <3> QED
      BY <3>1, <3>2 DEF Sound
  <2> QED
    BY <2>1, <2>2
<1> QED
  BY <1>1 DEF IInv

LEMMA Blank == \A id : Fits(id, NoEmission) /\ Fits(id, NoRow)
BY DEF Fits, NoEmission, NoRow

(* A step that touches neither claims, records nor the group in hand.      *)
LEMMA Quiet ==
    ASSUME IInv, TypeOK', NEW c \in Closers, UNCHANGED <<identity, table, groups, known, left, draft, out, old>>,
           \A d \in Closers \ {c} : pc'[d] = pc[d], pc'[c] \notin {"claiming", "publishing"}
    PROVE  IInv'
<1>1. ClaimsFit' /\ TableFits'
  BY DEF IInv, ClaimsFit, TableFits
<1>2. OnlyMoves(c)
  BY DEF OnlyMoves
<1>3. Sound(c)'
  BY DEF IInv, Sound
<1> QED
  BY <1>1, <1>2, <1>3, Moves

(* A step of the worker, or of the clock.                                  *)
LEMMA Aside ==
    ASSUME IInv, TypeOK', UNCHANGED <<table, closer>>, ClaimsFit'
    PROVE  IInv'
<1>1. TableFits' /\ \A c \in Closers : Current(c)' = Current(c)
  BY DEF IInv, TableFits, Current, closer
<1>2. \A c \in Closers : Sound(c)'
  BY <1>1 DEF IInv, Sound, closer
<1> QED
  BY <1>1, <1>2 DEF IInv

-----------------------------------------------------------------------------
(* The worker.                                                             *)

LEMMA PushedType ==
    ASSUME TypeOK, NEW E \in SUBSET Events, NEW writes \in SUBSET (BucketKeys \X E)
    PROVE  Pushed(writes) \in [BucketKeys -> SUBSET Events]
<1>1. \A w \in writes : w[2] \in Events
  OBVIOUS
<1> QED
  BY <1>1 DEF TypeOK, Pushed

LEMMA WorkerSteps ==
    ASSUME IInv, Worker \/ WorkerFailure
    PROVE  IInv'
<1>1. TypeOK /\ MaxFailures \in Nat /\ failures \in 0..MaxFailures
  BY CloserAssumption DEF IInv, TypeOK
<1>2. Fail => failures' \in 0..MaxFailures
  BY <1>1 DEF Fail
<1>3. \A E \in SUBSET Events : Writes(E) \in SUBSET (BucketKeys \X E)
  BY DEF Writes
<1>4. TypeOK' /\ UNCHANGED <<identity, table, closer>>
  <2>1. CASE PushMembers
    <3>1. PICK E \in SUBSET (Events \ filed) : batch' = E /\ bucket' = Pushed(Writes(E))
      BY <2>1 DEF PushMembers
    <3>2. bucket' \in [BucketKeys -> SUBSET Events] /\ batch' \subseteq Events
      BY <1>1, <1>3, <3>1, PushedType
    <3> QED
      BY <1>1, <2>1, <3>2 DEF PushMembers, TypeOK, closer
  <2>2. CASE PushFails
    <3>1. PICK E \in SUBSET (Events \ filed) : \E part \in SUBSET Writes(E) : bucket' = Pushed(part)
      BY <2>2 DEF PushFails
    <3>2. bucket' \in [BucketKeys -> SUBSET Events]
      BY <1>1, <1>3, <3>1, PushedType
    <3> QED
      BY <1>1, <1>2, <2>2, <3>2 DEF PushFails, TypeOK, worker, closer
  <2>3. CASE ScheduleWindows
    <3>1. {ClosingKey(e) : e \in batch} \subseteq ClosingKeys
      BY <1>1, KeyTypes DEF TypeOK
    <3> QED
      BY <1>1, <2>3, <3>1 DEF ScheduleWindows, TypeOK, closer
  <2>4. CASE ScheduleFails
    <3>1. {ClosingKey(e) : e \in batch} \subseteq ClosingKeys
      BY <1>1, KeyTypes DEF TypeOK
    <3>2. schedule' \subseteq ClosingKeys
      BY <1>1, <2>4, <3>1 DEF ScheduleFails, TypeOK
    <3> QED
      BY <1>1, <1>2, <2>4, <3>2 DEF ScheduleFails, TypeOK, closer
  <2>5. CASE CommitOffsets
    BY <1>1, <2>5 DEF CommitOffsets, TypeOK, redis, closer
  <2>6. CASE WorkerCrash
    BY <1>1, <1>2, <2>6 DEF WorkerCrash, TypeOK, redis, closer
  <2> QED
    BY <2>1, <2>2, <2>3, <2>4, <2>5, <2>6 DEF Worker, WorkerFailure
<1>5. ClaimsFit'
  BY <1>4 DEF IInv, ClaimsFit
<1> QED
  BY <1>4, <1>5, Aside

LEMMA Expirations ==
    ASSUME IInv, Expiry
    PROVE  IInv'
<1>1. CASE \E k \in BucketKeys : ExpireMembers(k)
  <2>1. TypeOK' /\ UNCHANGED <<identity, table, closer>>
    BY <1>1 DEF ExpireMembers, IInv, TypeOK, worker, closer
  <2>2. ClaimsFit'
    BY <2>1 DEF IInv, ClaimsFit
  <2> QED
    BY <2>1, <2>2, Aside
<1>2. CASE \E k \in GroupKeys : ExpireIdentity(k)
  <2>1. TypeOK' /\ UNCHANGED <<table, closer>>
    BY <1>2 DEF ExpireIdentity, IInv, TypeOK, worker, closer
  <2>2. ClaimsFit'
    BY <1>2 DEF ExpireIdentity, IInv, TypeOK, ClaimsFit
  <2> QED
    BY <2>1, <2>2, Aside
<1> QED
  BY <1>1, <1>2 DEF Expiry

-----------------------------------------------------------------------------
(* A closer that claims and reads windows.                                 *)

LEMMA FoundType ==
    ASSUME TypeOK, NEW c \in Closers, NEW k \in ClosingKeys
    PROVE  found[c][k] \subseteq Events /\ Wanted(c, k) \subseteq BucketKeys
<1>1. found[c][k] \subseteq Events
  BY DEF TypeOK
<1> QED
  BY <1>1, KeyTypes DEF Wanted

LEMMA ReadingSteps ==
    ASSUME IInv, NEW c \in Closers,
           Claim(c) \/ ReadMembers(c) \/ Walk(c) \/ WalkDone(c) \/ EndTick(c) \/ ReadFails(c)
    PROVE  IInv'
<1>1. TypeOK /\ MaxFailures \in Nat /\ failures \in 0..MaxFailures /\ pc \in [Closers -> Steps]
  BY CloserAssumption DEF IInv, TypeOK
<1>2. Fail => failures' \in 0..MaxFailures
  BY <1>1 DEF Fail
<1>3. AfterPasses(c) \in {"idle", "versioning"}
  BY DEF AfterPasses
<1>4. Nothing \in [ClosingKeys -> SUBSET Events]
  BY DEF Nothing
<1>5. ASSUME NEW step \in Steps, Goto(c, step)
      PROVE  pc' \in [Closers -> Steps] /\ pc'[c] = step /\ \A d \in Closers \ {c} : pc'[d] = pc[d]
  BY <1>1, <1>5 DEF Goto
<1>6. CASE Claim(c)
  <2>1. PICK D \in SUBSET schedule :
            schedule' = schedule \ D /\ todo' = [todo EXCEPT ![c] = D]
    BY <1>6 DEF Claim
  <2>2. D \subseteq ClosingKeys
    BY <1>1, <2>1 DEF TypeOK
  <2>3. schedule' \subseteq ClosingKeys /\ todo' \in [Closers -> SUBSET ClosingKeys]
    BY <1>1, <2>1, <2>2 DEF TypeOK
  <2>4. Goto(c, "reading") /\ "reading" \in Steps
    BY <1>6 DEF Claim, Steps
  <2>5. TypeOK' /\ UNCHANGED <<identity, table, groups, known, left, draft, out, old>>
    BY <1>1, <1>5, <1>6, <2>3, <2>4 DEF Claim, TypeOK, worker
  <2> QED
    BY <1>5, <2>4, <2>5, Quiet
<1>7. CASE ReadMembers(c)
  <2>1. \A k \in ClosingKeys : bucket[k] \subseteq Events
    BY <1>1 DEF TypeOK, BucketKeys
  <2>2. found' \in [Closers -> [ClosingKeys -> SUBSET Events]]
    BY <1>1, <1>7, <2>1 DEF ReadMembers, TypeOK
  <2>3. Goto(c, "walking") /\ "walking" \in Steps
    BY <1>7 DEF ReadMembers, Steps
  <2>4. TypeOK' /\ UNCHANGED <<identity, table, groups, known, left, draft, out, old>>
    BY <1>1, <1>5, <1>7, <2>2, <2>3 DEF ReadMembers, TypeOK, worker, redis
  <2> QED
    BY <1>5, <2>3, <2>4, Quiet
<1>8. CASE Walk(c)
  <2>1. \A k \in ClosingKeys : found[c][k] \cup UNION {bucket[i] : i \in Wanted(c, k)} \subseteq Events
    BY <1>1, FoundType DEF TypeOK
  <2>2. found' \in [Closers -> [ClosingKeys -> SUBSET Events]]
    BY <1>1, <1>8, <2>1 DEF Walk, TypeOK
  <2>3. walked' \in [Closers -> [ClosingKeys -> SUBSET Events]]
    BY <1>1, <1>8 DEF Walk, TypeOK
  <2>4. TypeOK' /\ UNCHANGED <<pc, identity, table, groups, known, left, draft, out, old>>
    BY <1>1, <1>8, <2>2, <2>3 DEF Walk, TypeOK, worker, redis
  <2>5. pc'[c] = "walking" /\ \A d \in Closers \ {c} : pc'[d] = pc[d]
    BY <1>8 DEF Walk
  <2> QED
    BY <2>4, <2>5, Quiet
<1>9. CASE WalkDone(c)
  <2>1. Goto(c, "building") /\ "building" \in Steps
    BY <1>9 DEF WalkDone, Steps
  <2>2. TypeOK' /\ UNCHANGED <<identity, table, groups, known, left, draft, out, old>>
    BY <1>1, <1>4, <1>5, <1>9, <2>1 DEF WalkDone, TypeOK, worker, redis
  <2> QED
    BY <1>5, <2>1, <2>2, Quiet
<1>10. CASE EndTick(c)
  <2>1. Goto(c, AfterPasses(c)) /\ AfterPasses(c) \in Steps
    BY <1>3, <1>10 DEF EndTick, Steps
  <2>2. TypeOK' /\ UNCHANGED <<identity, table, groups, known, left, draft, out, old>>
    BY <1>1, <1>5, <1>10, <2>1 DEF EndTick, TypeOK, worker, redis
  <2>3. pc'[c] \notin {"claiming", "publishing"}
    BY <1>3, <1>5, <2>1
  <2> QED
    BY <1>5, <2>1, <2>2, <2>3, Quiet
<1>11. CASE ReadFails(c)
  <2>1. Goto(c, AfterPasses(c)) /\ AfterPasses(c) \in Steps
    BY <1>3, <1>11 DEF ReadFails, Steps
  <2>2. TypeOK' /\ UNCHANGED <<identity, table, groups, known, left, draft, out, old>>
    BY <1>1, <1>2, <1>4, <1>5, <1>11, <2>1 DEF ReadFails, TypeOK, worker, redis
  <2>3. pc'[c] \notin {"claiming", "publishing"}
    BY <1>3, <1>5, <2>1
  <2> QED
    BY <1>5, <2>1, <2>2, <2>3, Quiet
<1> QED
  BY <1>6, <1>7, <1>8, <1>9, <1>10, <1>11

-----------------------------------------------------------------------------
(* A closer that resolves groups.                                          *)

(* Where no claim and no record is written.                                *)
LEMMA HandMoves ==
    ASSUME IInv, TypeOK', NEW c \in Closers, OnlyMoves(c), UNCHANGED <<identity, table>>, Sound(c)'
    PROVE  IInv'
<1>1. ClaimsFit' /\ TableFits'
  BY DEF IInv, ClaimsFit, TableFits
<1> QED
  BY <1>1, Moves

LEMMA Going ==
    ASSUME TypeOK, NEW c \in Closers, NEW step \in Steps, Goto(c, step)
    PROVE  pc' \in [Closers -> Steps] /\ pc'[c] = step /\ \A d \in Closers \ {c} : pc'[d] = pc[d]
BY DEF Goto, TypeOK

LEMMA InHandGroup ==
    ASSUME IInv, NEW c \in Closers, groups[c] # {}
    PROVE  /\ Current(c) \in groups[c] /\ Current(c) \in Group /\ GroupFits(Current(c))
           /\ GroupIds(Current(c)) \subseteq Nat
           /\ GroupIds(Current(c)) \subseteq UNION {IdsOf[e] : e \in Events}
           /\ \A i \in GroupIds(Current(c)) : ExactKey(i) \in GroupKeys
<1>1. Current(c) \in groups[c]
  BY DEF Current
<1>2. Current(c) \in Group /\ GroupFits(Current(c))
  BY <1>1 DEF IInv, TypeOK, Sound
<1>3. Current(c).members \subseteq Events
  BY <1>2 DEF Group
<1>4. GroupIds(Current(c)) \subseteq UNION {IdsOf[e] : e \in Current(c).members}
  BY DEF GroupIds
<1>5. /\ GroupIds(Current(c)) \subseteq Nat
      /\ GroupIds(Current(c)) \subseteq UNION {IdsOf[e] : e \in Events}
  BY <1>3, <1>4, IdTypes
<1>6. \A i \in GroupIds(Current(c)) : ExactKey(i) \in ExactKeys(Events)
  BY <1>5 DEF ExactKeys
<1> QED
  BY <1>1, <1>2, <1>5, <1>6, KeyTypes

LEMMA Builds ==
    ASSUME IInv, NEW c \in Closers, Build(c)
    PROVE  IInv'
<1>1. TypeOK /\ pc[c] = "building"
  BY DEF IInv, Build
<1>2. PICK k \in todo[c] :
          /\ todo' = [todo EXCEPT ![c] = @ \ {k}]
          /\ groups' = [groups EXCEPT ![c] = Groups(found[c][k])]
          /\ found' = [found EXCEPT ![c][k] = {}]
  BY DEF Build
<1>3. k \in ClosingKeys /\ found[c][k] \subseteq Events
  BY <1>1, FoundType DEF TypeOK
<1>4. \A g \in Groups(found[c][k]) : g \in Group /\ GroupFits(g)
  BY <1>3, GroupsFit
<1>5. pc' \in [Closers -> Steps] /\ pc'[c] = "resolving" /\ \A d \in Closers \ {c} : pc'[d] = pc[d]
  BY <1>1, Going DEF Build, Steps
<1>6. /\ groups' \in [Closers -> SUBSET Group] /\ groups'[c] = Groups(found[c][k])
      /\ \A d \in Closers \ {c} : groups'[d] = groups[d]
  BY <1>1, <1>2, <1>4 DEF TypeOK
<1>7. todo' \in [Closers -> SUBSET ClosingKeys] /\ found' \in [Closers -> [ClosingKeys -> SUBSET Events]]
  BY <1>1, <1>2 DEF TypeOK
<1>8. UNCHANGED <<worker, redis, table, walked, known, left, draft, out, old, failures>>
  BY DEF Build
<1>9. TypeOK'
  BY <1>1, <1>5, <1>6, <1>7, <1>8 DEF TypeOK, worker, redis
<1>10. OnlyMoves(c) /\ UNCHANGED <<identity, table>>
  BY <1>5, <1>6, <1>8 DEF OnlyMoves, redis
<1>11. Sound(c)'
  BY <1>4, <1>5, <1>6, <1>8 DEF Sound, IInv
<1> QED
  BY <1>9, <1>10, <1>11, HandMoves

(* An id claimed under an identifier of a group fits the group.            *)
LEMMA ClaimFits ==
    ASSUME IInv, NEW g \in Group, GroupFits(g), NEW k \in GroupKeys, identity[k] # Unclaimed,
           k = g.key \/ \E i \in GroupIds(g) : k = ExactKey(i)
    PROVE  Fits(identity[k], RowOf(g))
<1>1. Same(k, identity[k])
  BY DEF IInv, ClaimsFit
<1>2. g.members \subseteq Events /\ g.members # {}
  BY DEF Group, GroupFits
<1>3. CASE k = identity[k] /\ k = g.key
  BY <1>3 DEF GroupFits
<1>4. ASSUME NEW i \in Nat, k = ExactKey(i), g.tier = "exact", \A e \in g.members : Linked(i, e)
      PROVE  Fits(identity[k], RowOf(g))
  <2>1. PICK j \in Nat : identity[k] = ExactKey(j) /\ \A e \in g.members : Linked(j, e)
    <3>1. CASE k = identity[k]
      BY <1>4, <3>1
    <3>2. CASE k # identity[k]
      <4>1. PICK a \in Nat, j \in Nat, e \in Events :
                k = ExactKey(a) /\ identity[k] = ExactKey(j) /\ a \in IdsOf[e] /\ Linked(j, e)
        BY <1>1, <3>2 DEF Same
      <4>2. a = i
        BY <1>4, <4>1, Keys
      <4>3. \A m \in g.members : Linked(j, m)
        BY <1>2, <1>4, <4>1, <4>2, LinkedOver
      <4> QED
        BY <4>1, <4>3
    <3> QED
      BY <3>1, <3>2
  <2> QED
    BY <1>2, <1>4, <2>1 DEF Fits, RowOf
<1>5. CASE k # g.key \/ k # identity[k]
  <2>1. CASE \E i \in GroupIds(g) : k = ExactKey(i)
    <3>1. PICK i \in GroupIds(g) : k = ExactKey(i)
      BY <2>1
    <3>2. g.tier = "exact" /\ i \in Nat
      BY <1>2, <3>1, IdTypes DEF GroupIds
    <3>3. \A e \in g.members : Linked(i, e)
      BY <3>1 DEF GroupFits
    <3> QED
      BY <1>4, <3>1, <3>2, <3>3
  <2>2. CASE k = g.key /\ k # identity[k]
    <3>1. \E a \in Nat : k = ExactKey(a)
      BY <1>1, <2>2 DEF Same
    <3>2. g.tier = "exact" /\ \E i \in Nat : k = ExactKey(i) /\ \A e \in g.members : Linked(i, e)
      BY <1>2, <2>2, <3>1, Keys DEF GroupFits, Fits, RowOf
    <3> QED
      BY <1>4, <3>2
  <2> QED
    BY <1>5, <2>1, <2>2
<1> QED
  BY <1>3, <1>5

LEMMA LooksUp ==
    ASSUME IInv, NEW c \in Closers, LookUp(c)
    PROVE  IInv'
<1>1. /\ TypeOK /\ groups[c] # {} /\ known' = [known EXCEPT ![c] = FirstClaim(Current(c))]
      /\ UNCHANGED <<worker, redis, table, todo, found, walked, groups, left, draft, out, old, failures>>
  BY DEF IInv, LookUp
<1>2. pc' \in [Closers -> Steps] /\ pc'[c] = "claiming" /\ \A d \in Closers \ {c} : pc'[d] = pc[d]
  BY <1>1, Going DEF LookUp, Steps
<1> DEFINE g == Current(c)
           claimed == {i \in GroupIds(g) : identity[ExactKey(i)] # Unclaimed}
<1>3. /\ FirstClaim(g) \in GroupKeys \cup {Unclaimed}
      /\ FirstClaim(g) # Unclaimed => Fits(FirstClaim(g), RowOf(g))
  <2>1. CASE claimed = {}
    BY <2>1 DEF FirstClaim
  <2>2. CASE claimed # {}
    <3>1. Smallest(claimed) \in claimed
      BY <1>1, <2>2, InHandGroup, SmallestIn
    <3>2. FirstClaim(g) = identity[ExactKey(Smallest(claimed))]
      BY <2>2 DEF FirstClaim
    <3>3. /\ Smallest(claimed) \in GroupIds(g) /\ ExactKey(Smallest(claimed)) \in GroupKeys
          /\ identity[ExactKey(Smallest(claimed))] # Unclaimed
      BY <1>1, <3>1, InHandGroup
    <3>4. identity[ExactKey(Smallest(claimed))] \in GroupKeys \cup {Unclaimed}
      BY <1>1, <3>3 DEF TypeOK
    <3> HIDE DEF claimed
    <3> QED
      BY <1>1, <3>2, <3>3, <3>4, InHandGroup, ClaimFits
  <2> QED
    BY <2>1, <2>2
<1>4. /\ known' \in [Closers -> GroupKeys \cup {Unclaimed}] /\ known'[c] = FirstClaim(g)
      /\ \A d \in Closers \ {c} : known'[d] = known[d]
  BY <1>1, <1>3 DEF TypeOK
<1>5. TypeOK'
  BY <1>1, <1>2, <1>4 DEF TypeOK, worker, redis
<1>6. OnlyMoves(c) /\ UNCHANGED <<identity, table>>
  BY <1>1, <1>2, <1>4 DEF OnlyMoves, redis
<1>7. Sound(c)'
  <2>1. Current(c)' = Current(c)
    BY <1>1 DEF Current
  <2> QED
    BY <1>1, <1>2, <1>3, <1>4, <2>1 DEF Sound, IInv
<1> QED
  BY <1>5, <1>6, <1>7, HandMoves

LEMMA Settles ==
    ASSUME IInv, NEW c \in Closers, Settle(c)
    PROVE  IInv'
<1> DEFINE g == Current(c)
<1>1. /\ TypeOK /\ pc[c] = "claiming" /\ groups[c] # {} /\ ClaimsFit
      /\ known[c] # Unclaimed => Fits(known[c], RowOf(g))
  BY DEF IInv, Sound, Settle
<1>2. /\ left' = [left EXCEPT ![c] = GroupIds(g)]
      /\ UNCHANGED <<worker, bucket, schedule, table, todo, found, walked, groups, draft, out, old,
                     failures>>
  BY DEF Settle
<1>3. pc' \in [Closers -> Steps] /\ pc'[c] = "publishing" /\ \A d \in Closers \ {c} : pc'[d] = pc[d]
  BY <1>1, Going DEF Settle, Steps
<1>4. /\ g \in Group /\ GroupFits(g) /\ g.key \in GroupKeys
      /\ GroupIds(g) \subseteq UNION {IdsOf[e] : e \in Events}
  BY <1>1, InHandGroup DEF Group
<1>5. /\ identity' \in [GroupKeys -> GroupKeys \cup {Unclaimed}] /\ ClaimsFit'
      /\ known' \in [Closers -> GroupKeys \cup {Unclaimed}]
      /\ \A d \in Closers \ {c} : known'[d] = known[d]
      /\ known'[c] # Unclaimed /\ Fits(known'[c], RowOf(g))
  <2>1. CASE known[c] = Unclaimed
    <3> DEFINE id == IF identity[g.key] = Unclaimed THEN g.key ELSE identity[g.key]
    <3>1. /\ identity' = [identity EXCEPT ![g.key] = id]
          /\ known' = [known EXCEPT ![c] = identity'[g.key]]
      BY <2>1 DEF Settle
    <3>2. id \in GroupKeys /\ id # Unclaimed /\ Fits(id, RowOf(g)) /\ Same(g.key, id)
      <4>1. CASE identity[g.key] = Unclaimed
        BY <1>4, <4>1, KeyTypes DEF GroupFits, Same
      <4>2. CASE identity[g.key] # Unclaimed
        <5>1. identity[g.key] \in GroupKeys /\ Same(g.key, identity[g.key])
          BY <1>1, <1>4, <4>2 DEF TypeOK, ClaimsFit
        <5>2. Fits(identity[g.key], RowOf(g))
          BY <1>4, <4>2, ClaimFits
        <5> QED
          BY <4>2, <5>1, <5>2
      <4> QED
        BY <4>1, <4>2
    <3> HIDE DEF id
    <3>3. /\ identity' \in [GroupKeys -> GroupKeys \cup {Unclaimed}] /\ identity'[g.key] = id
          /\ \A k \in GroupKeys \ {g.key} : identity'[k] = identity[k]
      BY <1>1, <1>4, <3>1, <3>2 DEF TypeOK
    <3>4. ClaimsFit'
      BY <1>1, <3>2, <3>3 DEF ClaimsFit
    <3> QED
      BY <1>1, <3>1, <3>2, <3>3, <3>4 DEF TypeOK
  <2>2. CASE known[c] # Unclaimed
    <3>1. UNCHANGED <<identity, known>>
      BY <2>2 DEF Settle
    <3> QED
      BY <1>1, <2>2, <3>1 DEF TypeOK, ClaimsFit
  <2> QED
    BY <2>1, <2>2
<1>6. /\ left' \in [Closers -> SUBSET UNION {IdsOf[e] : e \in Events}] /\ left'[c] = GroupIds(g)
      /\ \A d \in Closers \ {c} : left'[d] = left[d]
  BY <1>1, <1>2, <1>4 DEF TypeOK
<1>7. TypeOK'
  BY <1>1, <1>2, <1>3, <1>5, <1>6 DEF TypeOK, worker
<1>8. OnlyMoves(c) /\ TableFits'
  BY <1>2, <1>3, <1>5, <1>6 DEF OnlyMoves, IInv, TableFits
<1>9. Sound(c)'
  <2>1. Current(c)' = Current(c)
    BY <1>2 DEF Current
  <2> QED
    BY <1>1, <1>2, <1>3, <1>5, <1>6, <2>1 DEF Sound, IInv
<1> QED
  BY <1>5, <1>7, <1>8, <1>9, Moves

LEMMA Publishes ==
    ASSUME IInv, NEW c \in Closers, Publish(c)
    PROVE  IInv'
<1> DEFINE g == Current(c)
           i == Smallest(left[c])
<1>1. /\ TypeOK /\ pc[c] = "publishing" /\ groups[c] # {} /\ ClaimsFit /\ left[c] # {}
      /\ known[c] # Unclaimed /\ Fits(known[c], RowOf(g)) /\ left[c] \subseteq GroupIds(g)
  BY DEF IInv, Sound, Publish
<1>2. /\ left' = [left EXCEPT ![c] = @ \ {i}]
      /\ identity' = [identity EXCEPT ![ExactKey(i)] = IF @ = Unclaimed THEN known[c] ELSE @]
      /\ UNCHANGED <<worker, bucket, schedule, table, pc, todo, found, walked, groups, known, draft,
                     out, old, failures>>
  BY DEF Publish
<1>3. /\ g \in Group /\ GroupFits(g) /\ GroupIds(g) \subseteq Nat
      /\ \A j \in GroupIds(g) : ExactKey(j) \in GroupKeys
  BY <1>1, InHandGroup
<1>4. i \in left[c] /\ i \in GroupIds(g) /\ i \in Nat /\ ExactKey(i) \in GroupKeys
  BY <1>1, <1>3, SmallestIn
<1>5. known[c] \in GroupKeys
  BY <1>1 DEF TypeOK
<1>6. Same(ExactKey(i), known[c])
  <2>1. g.tier = "exact" /\ g.members # {} /\ g.members \subseteq Events
    BY <1>3, <1>4 DEF GroupIds, GroupFits, Group
  <2>2. PICK e \in g.members : i \in IdsOf[e]
    BY <1>4, <2>1 DEF GroupIds
  <2>3. PICK j \in Nat : known[c] = ExactKey(j) /\ \A m \in g.members : Linked(j, m)
    BY <1>1, <2>1 DEF Fits, RowOf
  <2> QED
    BY <1>4, <2>1, <2>2, <2>3 DEF Same
<1> HIDE DEF i
<1>7. /\ identity' \in [GroupKeys -> GroupKeys \cup {Unclaimed}]
      /\ identity'[ExactKey(i)] \in {known[c], identity[ExactKey(i)]}
      /\ \A k \in GroupKeys \ {ExactKey(i)} : identity'[k] = identity[k]
  BY <1>1, <1>2, <1>4, <1>5 DEF TypeOK
<1>8. ClaimsFit'
  BY <1>1, <1>4, <1>6, <1>7 DEF ClaimsFit
<1>9. /\ left' \in [Closers -> SUBSET UNION {IdsOf[e] : e \in Events}] /\ left'[c] \subseteq left[c]
      /\ \A d \in Closers \ {c} : left'[d] = left[d]
  BY <1>1, <1>2 DEF TypeOK
<1>10. TypeOK'
  BY <1>1, <1>2, <1>7, <1>9 DEF TypeOK, worker
<1>11. OnlyMoves(c) /\ TableFits'
  BY <1>2, <1>9 DEF OnlyMoves, IInv, TableFits
<1>12. Sound(c)'
  <2>1. Current(c)' = Current(c)
    BY <1>2 DEF Current
  <2> QED
    BY <1>1, <1>2, <1>9, <2>1 DEF Sound, IInv
<1> QED
  BY <1>8, <1>10, <1>11, <1>12, Moves

LEMMA Materializes ==
    ASSUME IInv, NEW c \in Closers, Materialize(c)
    PROVE  IInv'
<1> DEFINE g == Current(c)
<1>1. /\ TypeOK /\ pc[c] = "publishing" /\ groups[c] # {}
      /\ known[c] # Unclaimed /\ Fits(known[c], RowOf(g))
  BY DEF IInv, Sound, Materialize
<1>2. /\ draft' = [draft EXCEPT ![c][known[c]] = RowOf(g)]
      /\ groups' = [groups EXCEPT ![c] = @ \ {g}]
      /\ known' = [known EXCEPT ![c] = Unclaimed]
      /\ UNCHANGED <<worker, redis, table, todo, found, walked, left, out, old, failures>>
  BY DEF Materialize, RowOf
<1>3. pc' \in [Closers -> Steps] /\ pc'[c] = "resolving" /\ \A d \in Closers \ {c} : pc'[d] = pc[d]
  BY <1>1, Going DEF Materialize, Steps
<1>4. RowOf(g) \in Emissions /\ known[c] \in GroupKeys
  BY <1>1, InHandGroup DEF Group, RowOf, Emissions, TypeOK
<1>5. /\ draft' \in [Closers -> [GroupKeys -> Emissions]]
      /\ \A id \in GroupKeys : draft'[c][id] = IF id = known[c] THEN RowOf(g) ELSE draft[c][id]
      /\ \A d \in Closers \ {c} : draft'[d] = draft[d]
  BY <1>1, <1>2, <1>4 DEF TypeOK
<1>6. /\ groups' \in [Closers -> SUBSET Group] /\ groups'[c] \subseteq groups[c]
      /\ known' \in [Closers -> GroupKeys \cup {Unclaimed}]
      /\ \A d \in Closers \ {c} : groups'[d] = groups[d] /\ known'[d] = known[d]
  BY <1>1, <1>2 DEF TypeOK
<1>7. TypeOK'
  BY <1>1, <1>2, <1>3, <1>5, <1>6 DEF TypeOK, worker, redis
<1>8. OnlyMoves(c) /\ UNCHANGED <<identity, table>>
  BY <1>2, <1>3, <1>5, <1>6 DEF OnlyMoves, redis
<1>9. Sound(c)'
  BY <1>1, <1>2, <1>3, <1>5, <1>6 DEF Sound, IInv
<1> QED
  BY <1>7, <1>8, <1>9, HandMoves

-----------------------------------------------------------------------------
(* A closer that writes what it built.                                     *)

LEMMA NoEmissionsFit ==
    /\ NoEmissions \in [GroupKeys -> Emissions]
    /\ [id \in GroupKeys |-> NoRow] \in [GroupKeys -> Rows]
    /\ \A id \in GroupKeys : Fits(id, NoEmissions[id])
<1>1. NoEmission \in Emissions /\ NoRow \in Rows
  BY TierNames DEF NoEmission, Emissions, NoRow, Rows
<1> QED
  BY <1>1, Blank DEF NoEmissions

(* What two closers, or one at different times, record under one id may be *)
(* merged.                                                                 *)
LEMMA MergeFits ==
    ASSUME NEW id, NEW stored \in Rows, NEW fresh \in Emissions, Fits(id, stored), Fits(id, fresh)
    PROVE  Versioned(stored, fresh) \in Rows /\ Fits(id, Versioned(stored, fresh))
<1> DEFINE record == Versioned(stored, fresh)
<1>1. /\ stored.events \subseteq Events /\ fresh.events \subseteq Events
      /\ stored.tier \in {"exact", "heuristic", "none"} /\ fresh.tier \in {"exact", "heuristic", "none"}
      /\ stored.version \in Nat
  BY TierNames DEF Rows, Emissions
<1>2. /\ record.events = stored.events \cup fresh.events /\ record.version = stored.version + 1
      /\ record.tier \in {stored.tier, fresh.tier}
      /\ stored.tier = "none" => record.tier = fresh.tier
      /\ fresh.tier = "none" => record.tier = stored.tier
      /\ record = [events |-> record.events, tier |-> record.tier, version |-> record.version]
  BY <1>1 DEF Versioned, Merge, TierRank
<1> HIDE DEF record
<1>3. record \in Rows
  BY <1>1, <1>2, TierNames DEF Rows
<1>4. ASSUME stored.events = {} \/ fresh.events = {} PROVE Fits(id, record)
  BY <1>2, <1>4 DEF Fits
<1>5. ASSUME stored.events # {}, fresh.events # {} PROVE Fits(id, record)
  <2>1. CASE stored.tier = "exact"
    <3>1. PICK i \in Nat : id = ExactKey(i) /\ \A e \in stored.events : Linked(i, e)
      BY <1>5, <2>1 DEF Fits
    <3>2. fresh.tier = "exact" /\ \A e \in fresh.events : Linked(i, e)
      BY <1>5, <3>1, Keys DEF Fits
    <3>3. record.tier = "exact" /\ \A e \in record.events : Linked(i, e)
      BY <1>2, <2>1, <3>1, <3>2
    <3> QED
      BY <1>2, <1>5, <3>1, <3>3 DEF Fits
  <2>2. CASE stored.tier = "heuristic"
    <3>1. PICK s \in {ShapeOf[e] : e \in Events}, w \in Nat :
              /\ id = WindowKey(s, w)
              /\ \A e \in stored.events : Shaped(e) /\ ShapeOf[e] = s /\ WindowOf(e) \in {w, w + 1}
      BY <1>5, <2>2 DEF Fits
    <3>2. /\ fresh.tier = "heuristic"
          /\ \A e \in fresh.events : Shaped(e) /\ ShapeOf[e] = s /\ WindowOf(e) \in {w, w + 1}
      <4>1. fresh.tier = "heuristic"
        BY <1>5, <3>1, Keys DEF Fits
      <4>2. PICK t \in {ShapeOf[e] : e \in Events}, v \in Nat :
                /\ id = WindowKey(t, v)
                /\ \A e \in fresh.events : Shaped(e) /\ ShapeOf[e] = t /\ WindowOf(e) \in {v, v + 1}
        BY <1>5, <4>1 DEF Fits
      <4>3. s = t /\ w = v
        BY <3>1, <4>2 DEF WindowKey
      <4> QED
        BY <4>1, <4>2, <4>3
    <3>3. /\ record.tier = "heuristic"
          /\ \A e \in record.events : Shaped(e) /\ ShapeOf[e] = s /\ WindowOf(e) \in {w, w + 1}
      BY <1>2, <2>2, <3>1, <3>2
    <3> QED
      BY <1>2, <1>5, <3>1, <3>3 DEF Fits
  <2>3. CASE stored.tier = "none"
    <3>1. id = NoKey
      BY <1>5, <2>3 DEF Fits
    <3>2. fresh.tier = "none"
      BY <1>5, <3>1, Keys DEF Fits
    <3> QED
      BY <1>2, <1>5, <2>3, <3>1, <3>2 DEF Fits
  <2> QED
    BY <1>1, <2>1, <2>2, <2>3
<1> QED
  BY <1>3, <1>4, <1>5 DEF record

LEMMA WritingSteps ==
    ASSUME IInv, NEW c \in Closers, WindowDone(c) \/ ReadStored(c) \/ Insert(c)
    PROVE  IInv'
<1>1. TypeOK /\ TableFits /\ Sound(c)
  BY DEF IInv
<1>2. CASE WindowDone(c)
  <2>1. pc' \in [Closers -> Steps] /\ pc'[c] = "building" /\ \A d \in Closers \ {c} : pc'[d] = pc[d]
    BY <1>1, <1>2, Going DEF WindowDone, Steps
  <2>2. /\ out' \in [Closers -> [GroupKeys -> Emissions]]
        /\ \A id \in GroupKeys : out'[c][id] \in {out[c][id], draft[c][id]}
        /\ \A d \in Closers \ {c} : out'[d] = out[d]
    BY <1>1, <1>2 DEF WindowDone, TypeOK
  <2>3. /\ draft' \in [Closers -> [GroupKeys -> Emissions]] /\ draft'[c] = NoEmissions
        /\ \A d \in Closers \ {c} : draft'[d] = draft[d]
    BY <1>1, <1>2, NoEmissionsFit DEF WindowDone, TypeOK
  <2>4. UNCHANGED <<worker, redis, table, todo, found, walked, groups, known, left, old, failures>>
    BY <1>2 DEF WindowDone
  <2>5. TypeOK'
    BY <1>1, <2>1, <2>2, <2>3, <2>4 DEF TypeOK, worker, redis
  <2>6. OnlyMoves(c) /\ UNCHANGED <<identity, table>>
    BY <2>1, <2>2, <2>3, <2>4 DEF OnlyMoves, redis
  <2>7. Sound(c)'
    BY <1>1, <2>1, <2>2, <2>3, <2>4, NoEmissionsFit DEF Sound
  <2> QED
    BY <2>5, <2>6, <2>7, HandMoves
<1>3. CASE ReadStored(c)
  <2>1. pc' \in [Closers -> Steps] /\ pc'[c] = "inserting" /\ \A d \in Closers \ {c} : pc'[d] = pc[d]
    BY <1>1, <1>3, Going DEF ReadStored, Steps
  <2>2. NoRow \in Rows
    BY TierNames DEF NoRow, Rows
  <2>3. /\ old' \in [Closers -> [GroupKeys -> Rows]]
        /\ \A id \in GroupKeys : old'[c][id] \in {table[id], NoRow}
        /\ \A d \in Closers \ {c} : old'[d] = old[d]
    BY <1>1, <1>3, <2>2 DEF ReadStored, TypeOK
  <2>4. UNCHANGED <<worker, redis, table, todo, found, walked, groups, known, left, draft, out, failures>>
    BY <1>3 DEF ReadStored
  <2>5. TypeOK'
    BY <1>1, <2>1, <2>3, <2>4 DEF TypeOK, worker, redis
  <2>6. OnlyMoves(c) /\ UNCHANGED <<identity, table>>
    BY <2>1, <2>3, <2>4 DEF OnlyMoves, redis
  <2>7. Sound(c)'
    BY <1>1, <2>1, <2>3, <2>4, Blank DEF Sound, TableFits
  <2> QED
    BY <2>5, <2>6, <2>7, HandMoves
<1>4. CASE Insert(c)
  <2>1. pc' \in [Closers -> Steps] /\ pc'[c] = "idle" /\ \A d \in Closers \ {c} : pc'[d] = pc[d]
    BY <1>1, <1>4, Going DEF Insert, Steps
  <2>2. ASSUME NEW id \in GroupKeys
        PROVE  table'[id] \in Rows /\ Fits(id, table'[id])
    <3>1. table'[id] \in {table[id], Versioned(old[c][id], out[c][id])}
      BY <1>4 DEF Insert
    <3>2. /\ table[id] \in Rows /\ old[c][id] \in Rows /\ out[c][id] \in Emissions
          /\ Fits(id, table[id]) /\ Fits(id, old[c][id]) /\ Fits(id, out[c][id])
      BY <1>1 DEF TypeOK, TableFits, Sound
    <3>3. /\ Versioned(old[c][id], out[c][id]) \in Rows
          /\ Fits(id, Versioned(old[c][id], out[c][id]))
      BY <3>2, MergeFits
    <3> QED
      BY <3>1, <3>2, <3>3
  <2>3. table' \in [GroupKeys -> Rows] /\ TableFits'
    BY <1>4, <2>2 DEF Insert, TableFits
  <2>4. /\ out' = [out EXCEPT ![c] = NoEmissions]
        /\ old' = [old EXCEPT ![c] = [id \in GroupKeys |-> NoRow]]
        /\ UNCHANGED <<worker, redis, todo, found, walked, groups, known, left, draft, failures>>
    BY <1>4 DEF Insert
  <2>5. /\ out' \in [Closers -> [GroupKeys -> Emissions]] /\ out'[c] = NoEmissions
        /\ old' \in [Closers -> [GroupKeys -> Rows]] /\ old'[c] = [id \in GroupKeys |-> NoRow]
        /\ \A d \in Closers \ {c} : out'[d] = out[d] /\ old'[d] = old[d]
    BY <1>1, <2>4, NoEmissionsFit DEF TypeOK
  <2>6. TypeOK'
    BY <1>1, <2>1, <2>3, <2>4, <2>5 DEF TypeOK, worker, redis
  <2>7. OnlyMoves(c) /\ ClaimsFit'
    BY <2>1, <2>4, <2>5 DEF OnlyMoves, IInv, ClaimsFit, redis
  <2>8. Sound(c)'
    BY <1>1, <2>1, <2>4, <2>5, NoEmissionsFit, Blank DEF Sound
  <2> QED
    BY <2>3, <2>6, <2>7, <2>8, Moves
<1> QED
  BY <1>2, <1>3, <1>4

(* Whatever a failure takes from a closer, it adds nothing.                *)
LEMMA FailingSteps ==
    ASSUME IInv, NEW c \in Closers, ResolveFails(c) \/ InsertFails(c) \/ CloserCrash(c)
    PROVE  IInv'
<1>1. TypeOK /\ Sound(c) /\ MaxFailures \in Nat /\ failures \in 0..MaxFailures
  BY CloserAssumption DEF IInv, TypeOK
<1>2. Fail => failures' \in 0..MaxFailures
  BY <1>1 DEF Fail
<1>3. Nothing \in [ClosingKeys -> SUBSET Events]
  BY DEF Nothing
<1>4. CASE ResolveFails(c)
  <2>1. pc' \in [Closers -> Steps] /\ pc'[c] = "building" /\ \A d \in Closers \ {c} : pc'[d] = pc[d]
    BY <1>1, <1>4, Going DEF ResolveFails, Steps
  <2>2. /\ groups' = [groups EXCEPT ![c] = {}] /\ draft' = [draft EXCEPT ![c] = NoEmissions]
        /\ known' = [known EXCEPT ![c] = Unclaimed] /\ left' = [left EXCEPT ![c] = {}] /\ Fail
        /\ UNCHANGED <<worker, redis, table, todo, found, walked, out, old>>
    BY <1>4 DEF ResolveFails
  <2>3. TypeOK'
    BY <1>1, <1>2, <2>1, <2>2, NoEmissionsFit DEF TypeOK, worker, redis
  <2>4. OnlyMoves(c) /\ UNCHANGED <<identity, table>>
    BY <1>1, <2>1, <2>2 DEF OnlyMoves, redis, TypeOK
  <2>5. groups'[c] = {} /\ draft'[c] = NoEmissions
    BY <1>1, <2>2 DEF TypeOK
  <2>6. Sound(c)'
    BY <1>1, <2>1, <2>2, <2>5, NoEmissionsFit DEF Sound
  <2> QED
    BY <2>3, <2>4, <2>6, HandMoves
<1>5. CASE InsertFails(c)
  <2>1. pc' \in [Closers -> Steps] /\ pc'[c] = "idle" /\ \A d \in Closers \ {c} : pc'[d] = pc[d]
    BY <1>1, <1>5, Going DEF InsertFails, Steps
  <2>2. /\ out' = [out EXCEPT ![c] = NoEmissions] /\ Fail
        /\ old' = [old EXCEPT ![c] = [id \in GroupKeys |-> NoRow]]
        /\ UNCHANGED <<worker, redis, table, todo, found, walked, groups, known, left, draft>>
    BY <1>5 DEF InsertFails
  <2>3. TypeOK'
    BY <1>1, <1>2, <2>1, <2>2, NoEmissionsFit DEF TypeOK, worker, redis
  <2>4. OnlyMoves(c) /\ UNCHANGED <<identity, table>>
    BY <1>1, <2>1, <2>2 DEF OnlyMoves, redis, TypeOK
  <2>5. out'[c] = NoEmissions /\ old'[c] = [id \in GroupKeys |-> NoRow]
    BY <1>1, <2>2 DEF TypeOK
  <2>6. Sound(c)'
    BY <1>1, <2>1, <2>2, <2>5, NoEmissionsFit, Blank DEF Sound
  <2> QED
    BY <2>3, <2>4, <2>6, HandMoves
<1>6. CASE CloserCrash(c)
  <2>1. pc' \in [Closers -> Steps] /\ pc'[c] = "idle" /\ \A d \in Closers \ {c} : pc'[d] = pc[d]
    BY <1>1, <1>6, Going DEF CloserCrash, Steps
  <2>2. /\ todo' = [todo EXCEPT ![c] = {}] /\ found' = [found EXCEPT ![c] = Nothing]
        /\ walked' = [walked EXCEPT ![c] = Nothing]
        /\ groups' = [groups EXCEPT ![c] = {}] /\ draft' = [draft EXCEPT ![c] = NoEmissions]
        /\ known' = [known EXCEPT ![c] = Unclaimed] /\ left' = [left EXCEPT ![c] = {}]
        /\ out' = [out EXCEPT ![c] = NoEmissions] /\ Fail
        /\ old' = [old EXCEPT ![c] = [id \in GroupKeys |-> NoRow]]
        /\ UNCHANGED <<worker, redis, table>>
    BY <1>6 DEF CloserCrash
  <2>3. TypeOK'
    BY <1>1, <1>2, <1>3, <2>1, <2>2, NoEmissionsFit DEF TypeOK, worker, redis
  <2>4. OnlyMoves(c) /\ UNCHANGED <<identity, table>>
    BY <1>1, <2>1, <2>2 DEF OnlyMoves, redis, TypeOK
  <2>5. /\ groups'[c] = {} /\ draft'[c] = NoEmissions /\ out'[c] = NoEmissions
        /\ old'[c] = [id \in GroupKeys |-> NoRow]
    BY <1>1, <2>2 DEF TypeOK
  <2>6. Sound(c)'
    BY <2>1, <2>5, NoEmissionsFit, Blank DEF Sound
  <2> QED
    BY <2>3, <2>4, <2>6, HandMoves
<1> QED
  BY <1>4, <1>5, <1>6

-----------------------------------------------------------------------------
LEMMA Initially == Init => IInv
<1>1. NoRow \in Rows /\ "idle" \in Steps
  BY TierNames DEF NoRow, Rows, Steps
<1>2. Init => TypeOK
  <2>1. Init => /\ todo \in [Closers -> SUBSET ClosingKeys] /\ pc \in [Closers -> Steps]
                /\ found \in [Closers -> [ClosingKeys -> SUBSET Events]]
                /\ walked \in [Closers -> [ClosingKeys -> SUBSET Events]]
                /\ groups \in [Closers -> SUBSET Group]
                /\ known \in [Closers -> GroupKeys \cup {Unclaimed}]
                /\ left \in [Closers -> SUBSET UNION {IdsOf[e] : e \in Events}]
    BY <1>1 DEF Init, Nothing
  <2>2. Init => /\ draft \in [Closers -> [GroupKeys -> Emissions]]
                /\ out \in [Closers -> [GroupKeys -> Emissions]]
                /\ old \in [Closers -> [GroupKeys -> Rows]] /\ table \in [GroupKeys -> Rows]
    BY <1>1, NoEmissionsFit DEF Init
  <2>3. Init => /\ filed \subseteq Events /\ batch \subseteq Events
                /\ stage \in {"idle", "pushed", "scheduled"} /\ schedule \subseteq ClosingKeys
                /\ bucket \in [BucketKeys -> SUBSET Events]
                /\ identity \in [GroupKeys -> GroupKeys \cup {Unclaimed}]
    BY DEF Init
  <2>4. Init => failures \in 0..MaxFailures
    <3>1. MaxFailures \in Nat
      BY CloserAssumption
    <3> QED
      BY <3>1 DEF Init
  <2> QED
    BY <2>1, <2>2, <2>3, <2>4 DEF TypeOK
<1>3. Init => ClaimsFit /\ TableFits
  BY Blank DEF Init, ClaimsFit, TableFits
<1>4. Init => \A c \in Closers : Sound(c)
  BY Blank, NoEmissionsFit DEF Init, Sound
<1> QED
  BY <1>2, <1>3, <1>4 DEF IInv

LEMMA Stepping == IInv /\ [Next]_vars => IInv'
<1> SUFFICES ASSUME IInv, [Next]_vars PROVE IInv'
  OBVIOUS
<1>1. CASE Worker \/ WorkerFailure
  BY <1>1, WorkerSteps
<1>2. ASSUME NEW c \in Closers, Tick(c) PROVE IInv'
  BY <1>2, ReadingSteps, Builds, LooksUp, Settles, Publishes, Materializes, WritingSteps DEF Tick
<1>3. ASSUME NEW c \in Closers, TickFailure(c) PROVE IInv'
  BY <1>3, ReadingSteps, FailingSteps DEF TickFailure
<1>4. CASE Expiry
  BY <1>4, Expirations
<1>5. CASE UNCHANGED vars
  <2>1. TypeOK' /\ ClaimsFit' /\ UNCHANGED <<table, closer>>
    BY <1>5 DEF vars, worker, redis, closer, IInv, TypeOK, ClaimsFit
  <2> QED
    BY <2>1, Aside
<1> QED
  BY <1>1, <1>2, <1>3, <1>4, <1>5 DEF Next

(* The invariant above holds in every state: what is claimed under a key   *)
(* names the key's own request, through every failure, expiry and order of *)
(* concurrent closers.                                                     *)
THEOREM Invariance == Spec => []IInv
BY Initially, Stepping, PTL DEF Spec

(* The types of the correlator's state.                                    *)
THEOREM TypeCorrect == Spec => []TypeOK
<1>1. IInv => TypeOK
  BY DEF IInv
<1> QED
  BY <1>1, Invariance, PTL

LEMMA FitsAreJoined ==
    ASSUME NEW id, id # NoKey, NEW r \in Rows, Fits(id, r), NEW e \in r.events, NEW f \in r.events
    PROVE  Joined(r.tier, e, f)
<1>1. e \in Events /\ f \in Events /\ r.events # {}
  BY DEF Rows
<1>2. CASE r.tier = "exact"
  <2>1. PICK i \in Nat : Linked(i, e) /\ Linked(i, f)
    BY <1>1, <1>2 DEF Fits
  <2> QED
    BY <1>1, <2>1, LinkedJoin DEF Joined
<1>3. CASE r.tier = "heuristic"
  <2>1. PICK s \in {ShapeOf[d] : d \in Events}, w \in Nat :
            \A d \in r.events : Shaped(d) /\ ShapeOf[d] = s /\ WindowOf(d) \in {w, w + 1}
    BY <1>1, <1>3 DEF Fits
  <2>2. WindowOf(e) <= WindowOf(f) + 1 /\ WindowOf(f) <= WindowOf(e) + 1
    BY <2>1
  <2> QED
    BY <1>3, <2>1, <2>2 DEF Joined
<1> QED
  BY <1>1, <1>2, <1>3 DEF Fits

(* No record mixes requests: whatever is claimed, expires, fails or is     *)
(* merged, and however many closers work at once, the events of a record   *)
(* are connected through identifiers, or share a shape within two          *)
(* neighbouring windows.                                                   *)
THEOREM RecordsAreOneRequest == Spec => []NoFalseJoin
<1>1. IInv => NoFalseJoin
  BY FitsAreJoined DEF IInv, TypeOK, TableFits, NoFalseJoin
<1> QED
  BY <1>1, Invariance, PTL

-----------------------------------------------------------------------------
(* What is never taken out of a record, when one closer works at a time.   *)

(* What was read is still what the table holds.                            *)
HeldStill ==
    \A c \in Closers : pc[c] = "inserting" =>
        \A id \in Emitted(c) : id \in GroupKeys /\ old[c][id] = table[id]

LEMMA StillHeld ==
    ASSUME \A c, d \in Closers : c = d, TypeOK, TypeOK', HeldStill, [Next]_vars
    PROVE  HeldStill'
<1>1. ASSUME NEW c \in Closers, pc'[c] = "inserting", pc[c] = "inserting", UNCHANGED <<table, out, old>>
      PROVE  \A id \in Emitted(c)' : id \in GroupKeys /\ old'[c][id] = table'[id]
  BY <1>1 DEF HeldStill, Emitted
<1>2. CASE Worker \/ WorkerFailure \/ Expiry \/ UNCHANGED vars
  <2>1. UNCHANGED <<table, pc, out, old>>
    BY <1>2 DEF Worker, WorkerFailure, Expiry, PushMembers, PushFails, ScheduleWindows, ScheduleFails,
                CommitOffsets, WorkerCrash, ExpireMembers, ExpireIdentity, vars, closer
  <2> QED
    BY <1>1, <2>1 DEF HeldStill
<1>3. ASSUME NEW c \in Closers, ReadStored(c)
      PROVE  HeldStill'
  <2>1. old'[c] = [id \in GroupKeys |-> IF id \in Emitted(c) THEN table[id] ELSE NoRow]
    BY <1>3 DEF ReadStored, TypeOK
  <2>2. Emitted(c)' = Emitted(c) /\ Emitted(c) \subseteq GroupKeys /\ table' = table
    BY <1>3 DEF ReadStored, Emitted
  <2>3. \A id \in Emitted(c)' : id \in GroupKeys /\ old'[c][id] = table'[id]
    BY <2>1, <2>2
  <2>4. \A d \in Closers : d = c
    OBVIOUS
  <2> HIDE DEF Emitted
  <2> QED
    BY <2>3, <2>4 DEF HeldStill
<1>4. ASSUME NEW c \in Closers, Tick(c) \/ TickFailure(c), ~ReadStored(c)
      PROVE  HeldStill'
  <2>1. pc'[c] # "inserting"
    BY <1>4 DEF Tick, TickFailure, Claim, ReadMembers, Walk, WalkDone, Build, LookUp, Settle, Publish,
                Materialize, WindowDone, EndTick, Insert, ReadFails, ResolveFails, InsertFails,
                CloserCrash, Goto, TypeOK, AfterPasses
  <2>2. \A d \in Closers : d = c
    OBVIOUS
  <2> QED
    BY <2>1, <2>2 DEF HeldStill
<1> QED
  BY <1>2, <1>3, <1>4 DEF Next

LEMMA TableGrows ==
    ASSUME TypeOK, HeldStill, [Next]_vars, NEW id \in GroupKeys
    PROVE  table[id].events \subseteq table'[id].events
<1>1. CASE UNCHANGED table
  BY <1>1
<1>2. ASSUME NEW c \in Closers, Insert(c)
      PROVE  table[id].events \subseteq table'[id].events
  <2>1. table'[id] = table[id] \/ (id \in Emitted(c) /\ table'[id] = Versioned(old[c][id], out[c][id]))
    BY <1>2 DEF Insert
  <2>2. Versioned(old[c][id], out[c][id]).events = old[c][id].events \cup out[c][id].events
    BY DEF Versioned, Merge
  <2>3. id \in Emitted(c) => old[c][id] = table[id]
    BY <1>2 DEF Insert, HeldStill
  <2> QED
    BY <2>1, <2>2, <2>3
<1>3. CASE Worker \/ WorkerFailure \/ Expiry \/ UNCHANGED vars
  <2>1. UNCHANGED table
    BY <1>3 DEF Worker, WorkerFailure, Expiry, PushMembers, PushFails, ScheduleWindows, ScheduleFails,
                CommitOffsets, WorkerCrash, ExpireMembers, ExpireIdentity, vars
  <2> QED
    BY <1>1, <2>1
<1>4. ASSUME NEW c \in Closers, Tick(c) \/ TickFailure(c), ~Insert(c)
      PROVE  UNCHANGED table
  BY <1>4 DEF Tick, TickFailure, Claim, ReadMembers, Walk, WalkDone, Build, LookUp, Settle, Publish,
              Materialize, WindowDone, EndTick, ReadStored, ReadFails, ResolveFails, InsertFails,
              CloserCrash
<1> QED
  BY <1>1, <1>2, <1>3, <1>4 DEF Next

(* With one closer, whatever fails or expires, an amendment adds to a      *)
(* record and takes no event out of it: between the read of the stored     *)
(* rows and the insert nobody writes.                                      *)
THEOREM OneCloserAdds ==
    ASSUME \A c, d \in Closers : c = d
    PROVE  Spec => AmendmentsAdd
<1>1. Init => HeldStill
  BY DEF Init, HeldStill
<1>2. TypeOK /\ TypeOK' /\ HeldStill /\ [Next]_vars => HeldStill'
  BY StillHeld
<1>3. TypeOK /\ HeldStill /\ [Next]_vars
      => [\A id \in GroupKeys : table[id].events \subseteq table'[id].events]_table
  BY TableGrows
<1> QED
  BY <1>1, <1>2, <1>3, TypeCorrect, PTL DEF Spec, AmendmentsAdd

-----------------------------------------------------------------------------
(* Every record can be found, while no claim expires.                      *)

(* An id is claimed under a key of the events that are recorded under it.  *)
Findable(claims, id, E) == claims[id] = id \/ \E k \in ExactKeys(E) : claims[k] = id

(* An exact group has its key from its own identifiers.                    *)
OwnKey(g) == \/ \E i \in GroupIds(g) : g.key = ExactKey(i)
             \/ \A i \in Nat : g.key # ExactKey(i)

Traceable(c) ==
    /\ \A g \in groups[c] : OwnKey(g)
    /\ pc[c] \in {"claiming", "publishing"} /\ known[c] # Unclaimed =>
          Findable(identity, known[c], Current(c).members)
    /\ \A id \in GroupKeys :
          /\ draft[c][id] # NoEmission => Findable(identity, id, draft[c][id].events)
          /\ out[c][id] # NoEmission => Findable(identity, id, out[c][id].events)

FInv ==
    /\ RecordsStayFindable
    /\ \A c \in Closers : Traceable(c)

(* No claim is taken back or given to another id.                          *)
ClaimsHold == \A k \in GroupKeys : identity[k] # Unclaimed => identity'[k] = identity[k]

LEMMA ExactGroupKeys == \A E \in SUBSET Events : ExactKeys(E) \subseteq GroupKeys
BY KeyTypes

LEMMA FindableStays ==
    ASSUME TypeOK, ClaimsHold, NEW id \in GroupKeys, NEW E \in SUBSET Events, NEW F \in SUBSET Events,
           E \subseteq F, Findable(identity, id, E)
    PROVE  Findable(identity', id, F)
<1>1. id # Unclaimed
  BY KeyTypes
<1>2. ExactKeys(E) \subseteq ExactKeys(F)
  BY DEF ExactKeys
<1>3. CASE identity[id] = id
  BY <1>1, <1>3 DEF ClaimsHold, Findable
<1>4. ASSUME NEW k \in ExactKeys(E), identity[k] = id
      PROVE  Findable(identity', id, F)
  <2>1. k \in GroupKeys
    BY ExactGroupKeys
  <2>2. identity'[k] = id
    BY <1>1, <1>4, <2>1 DEF ClaimsHold
  <2> QED
    BY <1>2, <2>2 DEF Findable
<1> QED
  BY <1>3, <1>4 DEF Findable

(* Groups are keyed by what they contain.                                  *)
LEMMA GroupsOwnKeys ==
    ASSUME NEW E \in SUBSET Events, NEW g \in Groups(E)
    PROVE  OwnKey(g)
<1> DEFINE rest == {e \in E : ~Confirmed(E, e)}
<1>1. g \in Group /\ GroupFits(g)
  BY GroupsFit
<1>2. CASE g \in ExactGroups(E)
  <2>1. PICK e \in E :
            /\ Confirmed(E, e)
            /\ g = [key |-> ExactKey(Smallest(UNION {IdsOf[f] : f \in Component(E, e)})),
                    tier |-> "exact", members |-> Component(E, e)]
    BY <1>2 DEF ExactGroups
  <2> DEFINE I == UNION {IdsOf[f] : f \in Component(E, e)}
  <2>2. GroupIds(g) = I /\ g.key = ExactKey(Smallest(I)) /\ g.tier = "exact"
    BY <2>1 DEF GroupIds
  <2>3. Component(E, e) \subseteq E /\ I \subseteq Nat
    BY ComponentIn, IdTypes
  <2>4. I # {}
    BY <2>1, ConfirmedHasIds
  <2>5. Smallest(I) \in I
    BY <2>3, <2>4, SmallestIn
  <2> QED
    BY <2>2, <2>5 DEF OwnKey
<1>3. CASE g \in HeuristicGroups({e \in rest : Shaped(e)})
  <2>1. g.key \in {WindowKey(s, w) : s \in {ShapeOf[e] : e \in Events}, w \in Nat}
    <3>1. g.tier = "heuristic"
      BY <1>3 DEF HeuristicGroups
    <3> QED
      BY <1>1, <3>1 DEF GroupFits, Fits, RowOf
  <2> QED
    BY <2>1, Keys DEF OwnKey
<1>4. CASE g \in SoloGroups({e \in rest : ~Shaped(e)})
  <2>1. g.key = NoKey
    BY <1>4 DEF SoloGroups
  <2> QED
    BY <2>1, Keys DEF OwnKey
<1> QED
  BY <1>2, <1>3, <1>4 DEF Groups

LEMMA ClosersMoveAlone ==
    ASSUME TypeOK, NEW c \in Closers, Tick(c) \/ TickFailure(c)
    PROVE  OnlyMoves(c)
BY DEF Tick, TickFailure, Claim, ReadMembers, Walk, WalkDone, Build, LookUp, Settle, Publish,
       Materialize, WindowDone, EndTick, ReadStored, Insert, ReadFails, ResolveFails, InsertFails,
       CloserCrash, Goto, OnlyMoves, TypeOK

LEMMA ClaimsAreKept ==
    ASSUME "identities" \notin Expires, IInv, [Next]_vars
    PROVE  ClaimsHold
<1>1. TypeOK
  BY DEF IInv
<1>2. CASE UNCHANGED identity
  BY <1>2 DEF ClaimsHold
<1>3. CASE Worker \/ WorkerFailure \/ Expiry \/ UNCHANGED vars
  <2>1. UNCHANGED identity
    BY <1>3 DEF Worker, WorkerFailure, Expiry, PushMembers, PushFails, ScheduleWindows, ScheduleFails,
                CommitOffsets, WorkerCrash, ExpireMembers, ExpireIdentity, vars, redis
  <2> QED
    BY <1>2, <2>1
<1>4. ASSUME NEW c \in Closers, Settle(c)
      PROVE  ClaimsHold
  <2>1. \A k \in GroupKeys : identity'[k] = identity[k] \/ identity[k] = Unclaimed
    BY <1>1, <1>4 DEF Settle, TypeOK
  <2> QED
    BY <2>1 DEF ClaimsHold
<1>5. ASSUME NEW c \in Closers, Publish(c)
      PROVE  ClaimsHold
  <2>1. \A k \in GroupKeys : identity'[k] = identity[k] \/ identity[k] = Unclaimed
    BY <1>1, <1>5 DEF Publish, TypeOK
  <2> QED
    BY <2>1 DEF ClaimsHold
<1>6. ASSUME NEW c \in Closers, Tick(c) \/ TickFailure(c), ~Settle(c), ~Publish(c)
      PROVE  UNCHANGED identity
  BY <1>6 DEF Tick, TickFailure, Claim, ReadMembers, Walk, WalkDone, Build, LookUp,
              Materialize, WindowDone, EndTick, ReadStored, Insert, ReadFails, ResolveFails, InsertFails,
              CloserCrash, redis
<1> QED
  BY <1>2, <1>3, <1>4, <1>5, <1>6 DEF Next

(* What a closer has in hand stays traceable while the claims hold.        *)
LEMMA HandStays ==
    ASSUME IInv, TypeOK', ClaimsHold, NEW c \in Closers, Traceable(c)
    PROVE  /\ \A id \in GroupKeys :
                 /\ draft[c][id] # NoEmission => Findable(identity', id, draft[c][id].events)
                 /\ out[c][id] # NoEmission => Findable(identity', id, out[c][id].events)
           /\ pc[c] \in {"claiming", "publishing"} /\ known[c] # Unclaimed =>
                 Findable(identity', known[c], Current(c).members)
<1>1. TypeOK
  BY DEF IInv
<1>2. ASSUME NEW id \in GroupKeys
      PROVE  /\ draft[c][id] # NoEmission => Findable(identity', id, draft[c][id].events)
             /\ out[c][id] # NoEmission => Findable(identity', id, out[c][id].events)
  <2>1. draft[c][id].events \in SUBSET Events /\ out[c][id].events \in SUBSET Events
    BY <1>1 DEF TypeOK, Emissions
  <2> QED
    BY <1>1, <2>1, FindableStays DEF Traceable
<1>3. ASSUME pc[c] \in {"claiming", "publishing"}, known[c] # Unclaimed
      PROVE  Findable(identity', known[c], Current(c).members)
  <2>1. known[c] \in GroupKeys /\ groups[c] # {}
    BY <1>1, <1>3 DEF TypeOK, IInv, Sound
  <2>2. Current(c).members \in SUBSET Events
    BY <2>1, InHandGroup DEF Group
  <2> QED
    BY <1>1, <1>3, <2>1, <2>2, FindableStays DEF Traceable
<1> QED
  BY <1>2, <1>3

LEMMA TraceMoves ==
    ASSUME IInv, TypeOK', FInv, ClaimsHold, RecordsStayFindable', NEW c \in Closers, OnlyMoves(c), Traceable(c)'
    PROVE  FInv'
<1>1. ASSUME NEW d \in Closers, d # c PROVE Traceable(d)'
  <2>1. /\ pc'[d] = pc[d] /\ groups'[d] = groups[d] /\ known'[d] = known[d]
        /\ draft'[d] = draft[d] /\ out'[d] = out[d]
    BY <1>1 DEF OnlyMoves
  <2>2. Current(d)' = Current(d) /\ Traceable(d)
    BY <2>1 DEF Current, FInv
  <2> QED
    BY <2>1, <2>2, HandStays DEF Traceable
<1> QED
  BY <1>1 DEF FInv

LEMMA RecordsStay ==
    ASSUME TypeOK, FInv, ClaimsHold, UNCHANGED table
    PROVE  RecordsStayFindable'
<1>1. ASSUME NEW id \in GroupKeys, table[id].events # {}
      PROVE  Findable(identity', id, table[id].events)
  <2>1. table[id].events \in SUBSET Events
    BY DEF TypeOK, Rows
  <2>2. Findable(identity, id, table[id].events)
    BY <1>1 DEF FInv, RecordsStayFindable, Findable
  <2> QED
    BY <2>1, <2>2, FindableStays
<1> QED
  BY <1>1 DEF RecordsStayFindable, Findable

LEMMA Beside ==
    ASSUME IInv, TypeOK', FInv, ClaimsHold, UNCHANGED <<table, closer>>
    PROVE  FInv'
<1>1. ASSUME NEW c \in Closers PROVE Traceable(c)'
  <2>1. Current(c)' = Current(c) /\ Traceable(c)
    BY DEF Current, FInv, closer
  <2> QED
    BY <2>1, HandStays DEF Traceable, closer
<1>2. RecordsStayFindable'
  BY RecordsStay DEF IInv
<1> QED
  BY <1>1, <1>2 DEF FInv

(* A step that leaves the closer with what it had, or with less.           *)
LEMMA TraceKept ==
    ASSUME IInv, TypeOK', FInv, ClaimsHold, NEW c \in Closers,
           groups'[c] \subseteq groups[c], pc'[c] \notin {"claiming", "publishing"},
           \A id \in GroupKeys : draft'[c][id] \in {draft[c][id], NoEmission},
           \A id \in GroupKeys : out'[c][id] \in {draft[c][id], out[c][id], NoEmission}
    PROVE  Traceable(c)'
<1>1. Traceable(c)
  BY DEF FInv
<1>2. \A g \in groups'[c] : OwnKey(g)
  BY <1>1 DEF Traceable
<1>3. ASSUME NEW id \in GroupKeys
      PROVE  /\ draft'[c][id] # NoEmission => Findable(identity', id, draft'[c][id].events)
             /\ out'[c][id] # NoEmission => Findable(identity', id, out'[c][id].events)
  BY <1>1, HandStays
<1> QED
  BY <1>2, <1>3 DEF Traceable

LEMMA TickTraces ==
    ASSUME IInv, IInv', FInv, ClaimsHold, NEW c \in Closers, Tick(c) \/ TickFailure(c)
    PROVE  Traceable(c)'
<1>1. TypeOK /\ TypeOK' /\ Traceable(c) /\ Sound(c)
  BY DEF IInv, FInv
<1>2. CASE Claim(c) \/ ReadMembers(c) \/ Walk(c) \/ WalkDone(c) \/ EndTick(c) \/ ReadFails(c)
           \/ ReadStored(c)
  <2>1. UNCHANGED <<groups, draft, out>>
    BY <1>2 DEF Claim, ReadMembers, Walk, WalkDone, EndTick, ReadFails, ReadStored
  <2>2. pc'[c] \notin {"claiming", "publishing"}
    BY <1>1, <1>2 DEF Claim, ReadMembers, Walk, WalkDone, EndTick, ReadFails, ReadStored, Goto,
                      AfterPasses, TypeOK
  <2> QED
    BY <1>1, <2>1, <2>2, TraceKept
<1>3. CASE ResolveFails(c) \/ InsertFails(c) \/ CloserCrash(c) \/ Insert(c) \/ WindowDone(c)
  <2>1. /\ pc'[c] \notin {"claiming", "publishing"} /\ groups'[c] \subseteq groups[c]
        /\ draft'[c] \in {draft[c], NoEmissions}
    BY <1>1, <1>3 DEF ResolveFails, InsertFails, CloserCrash, Insert, WindowDone, Goto, TypeOK
  <2>2. \A id \in GroupKeys : out'[c][id] \in {draft[c][id], out[c][id], NoEmission}
    BY <1>1, <1>3 DEF ResolveFails, InsertFails, CloserCrash, Insert, WindowDone, TypeOK, NoEmissions
  <2>3. \A id \in GroupKeys : draft'[c][id] \in {draft[c][id], NoEmission}
    BY <2>1 DEF NoEmissions
  <2> QED
    BY <1>1, <2>1, <2>2, <2>3, TraceKept
<1>4. CASE Build(c)
  <2>1. PICK k \in todo[c] : groups' = [groups EXCEPT ![c] = Groups(found[c][k])]
    BY <1>4 DEF Build
  <2>2. k \in ClosingKeys /\ found[c][k] \in SUBSET Events
    BY <1>1, FoundType DEF TypeOK
  <2>3. \A g \in groups'[c] : OwnKey(g)
    BY <1>1, <2>1, <2>2, GroupsOwnKeys DEF TypeOK
  <2>4. pc'[c] = "resolving" /\ UNCHANGED <<draft, out>>
    BY <1>1, <1>4 DEF Build, Goto, TypeOK
  <2> QED
    BY <1>1, <2>3, <2>4, HandStays DEF Traceable
<1>5. CASE LookUp(c)
  <2> DEFINE g == Current(c)
             claimed == {i \in GroupIds(g) : identity[ExactKey(i)] # Unclaimed}
  <2>1. /\ groups[c] # {} /\ known'[c] = FirstClaim(g)
        /\ UNCHANGED <<identity, groups, draft, out>> /\ Current(c)' = g
    BY <1>1, <1>5 DEF LookUp, TypeOK, redis, Current
  <2>2. FirstClaim(g) # Unclaimed => Findable(identity', FirstClaim(g), g.members)
    <3>1. SUFFICES ASSUME claimed # {} PROVE Findable(identity', FirstClaim(g), g.members)
      BY DEF FirstClaim
    <3>2. Smallest(claimed) \in claimed
      BY <2>1, <3>1, InHandGroup, SmallestIn
    <3>3. FirstClaim(g) = identity[ExactKey(Smallest(claimed))]
      BY <3>1 DEF FirstClaim
    <3>4. ExactKey(Smallest(claimed)) \in ExactKeys(g.members)
      BY <3>2 DEF GroupIds, ExactKeys
    <3> HIDE DEF claimed
    <3> QED
      BY <2>1, <3>3, <3>4 DEF Findable
  <2> HIDE DEF g
  <2> QED
    BY <1>1, <2>1, <2>2, HandStays DEF Traceable
<1>6. CASE Settle(c)
  <2> DEFINE g == Current(c)
  <2>1. /\ groups[c] # {} /\ pc[c] = "claiming" /\ pc'[c] = "publishing" /\ UNCHANGED <<groups, draft, out>>
        /\ Current(c)' = g
    BY <1>1, <1>6 DEF Settle, TypeOK, Sound, Goto, Current
  <2>2. known'[c] # Unclaimed => Findable(identity', known'[c], g.members)
    <3>1. CASE known[c] # Unclaimed
      BY <1>1, <1>6, <2>1, <3>1, HandStays DEF Settle
    <3>2. CASE known[c] = Unclaimed
      <4>1. known'[c] = identity'[g.key] /\ g.key \in GroupKeys /\ g \in Group /\ OwnKey(g)
        BY <1>1, <1>6, <2>1, <3>2, InHandGroup DEF Settle, TypeOK, Traceable, Group
      <4>2. identity'[g.key] # Unclaimed => Same(g.key, identity'[g.key])
        BY <4>1 DEF IInv, ClaimsFit
      <4>3. CASE \E i \in GroupIds(g) : g.key = ExactKey(i)
        <5>1. g.key \in ExactKeys(g.members)
          BY <4>3 DEF GroupIds, ExactKeys
        <5> QED
          BY <4>1, <5>1 DEF Findable
      <4>4. CASE \A i \in Nat : g.key # ExactKey(i)
        BY <4>1, <4>2, <4>4 DEF Findable, Same
      <4> QED
        BY <4>1, <4>3, <4>4 DEF OwnKey
    <3> QED
      BY <3>1, <3>2
  <2> HIDE DEF g
  <2> QED
    BY <1>1, <2>1, <2>2, HandStays DEF Traceable
<1>7. CASE Publish(c)
  <2>1. pc[c] = "publishing" /\ UNCHANGED <<pc, groups, known, draft, out>> /\ Current(c)' = Current(c)
    BY <1>7 DEF Publish, Current
  <2> QED
    BY <1>1, <2>1, HandStays DEF Traceable
<1>8. CASE Materialize(c)
  <2> DEFINE g == Current(c)
  <2>1. /\ pc[c] = "publishing" /\ pc'[c] = "resolving" /\ known[c] # Unclaimed
        /\ groups'[c] \subseteq groups[c] /\ UNCHANGED out
        /\ draft' = [draft EXCEPT ![c][known[c]] = RowOf(g)]
    BY <1>1, <1>8 DEF Materialize, TypeOK, Sound, Goto, RowOf
  <2>2. \A id \in GroupKeys : draft'[c][id] = IF id = known[c] THEN RowOf(g) ELSE draft[c][id]
    BY <1>1, <2>1 DEF TypeOK
  <2>3. Findable(identity', known[c], RowOf(g).events)
    BY <1>1, <2>1, HandStays DEF RowOf
  <2>4. \A id \in GroupKeys : draft'[c][id] # NoEmission => Findable(identity', id, draft'[c][id].events)
    BY <1>1, <2>2, <2>3, HandStays
  <2> HIDE DEF g
  <2> QED
    BY <1>1, <2>1, <2>4, HandStays DEF Traceable
<1> QED
  BY <1>2, <1>3, <1>4, <1>5, <1>6, <1>7, <1>8 DEF Tick, TickFailure

(* What an insert writes is what the tick emitted, and perhaps more.       *)
LEMMA InsertTraces ==
    ASSUME IInv, FInv, ClaimsHold, NEW c \in Closers, Insert(c)
    PROVE  RecordsStayFindable'
<1>1. TypeOK /\ Traceable(c)
  BY DEF IInv, FInv
<1>2. ASSUME NEW id \in GroupKeys, table'[id].events # {}
      PROVE  Findable(identity', id, table'[id].events)
  <2>1. CASE table'[id] = table[id]
    <3>1. table[id].events \in SUBSET Events
      BY <1>1 DEF TypeOK, Rows
    <3>2. Findable(identity, id, table[id].events)
      BY <1>2, <2>1 DEF FInv, RecordsStayFindable, Findable
    <3> QED
      BY <1>1, <2>1, <3>1, <3>2, FindableStays
  <2>2. CASE table'[id] # table[id]
    <3>1. id \in Emitted(c) /\ table'[id] = Versioned(old[c][id], out[c][id])
      BY <2>2 DEF Insert
    <3>2. table'[id].events = old[c][id].events \cup out[c][id].events
      BY <3>1 DEF Versioned, Merge
    <3>3. out[c][id].events \in SUBSET Events /\ old[c][id].events \in SUBSET Events
      BY <1>1 DEF TypeOK, Emissions, Rows
    <3>4. Findable(identity, id, out[c][id].events)
      BY <1>1, <3>1 DEF Traceable, Emitted
    <3> QED
      BY <1>1, <3>2, <3>3, <3>4, FindableStays
  <2> QED
    BY <2>1, <2>2
<1> QED
  BY <1>2 DEF RecordsStayFindable, Findable

LEMMA TracesStay ==
    ASSUME "identities" \notin Expires, IInv, IInv', FInv, [Next]_vars
    PROVE  FInv'
<1>1. ClaimsHold /\ TypeOK /\ TypeOK'
  BY ClaimsAreKept DEF IInv
<1>2. CASE Worker \/ WorkerFailure \/ Expiry \/ UNCHANGED vars
  <2>1. UNCHANGED <<table, closer>>
    BY <1>2 DEF Worker, WorkerFailure, Expiry, PushMembers, PushFails, ScheduleWindows, ScheduleFails,
                CommitOffsets, WorkerCrash, ExpireMembers, ExpireIdentity, vars
  <2> QED
    BY <1>1, <2>1, Beside
<1>3. ASSUME NEW c \in Closers, Tick(c) \/ TickFailure(c)
      PROVE  FInv'
  <2>1. CASE Insert(c)
    BY <1>1, <1>3, <2>1, InsertTraces, TickTraces, ClosersMoveAlone, TraceMoves
  <2>2. CASE ~Insert(c)
    <3>1. UNCHANGED table
      BY <1>3, <2>2 DEF Tick, TickFailure, Claim, ReadMembers, Walk, WalkDone, Build, LookUp, Settle,
                        Publish, Materialize, WindowDone, EndTick, ReadStored, ReadFails, ResolveFails,
                        InsertFails, CloserCrash
    <3> QED
      BY <1>1, <1>3, <3>1, RecordsStay, TickTraces, ClosersMoveAlone, TraceMoves
  <2> QED
    BY <2>1, <2>2
<1> QED
  BY <1>2, <1>3 DEF Next

(* While no claim expires, every record is found by the next group that    *)
(* belongs to it, however many closers wrote it and whatever failed on the *)
(* way: its id is claimed under a key of its own events.                   *)
THEOREM RecordsAreFound ==
    ASSUME "identities" \notin Expires
    PROVE  Spec => []RecordsStayFindable
<1>1. Init => FInv
  BY DEF Init, FInv, RecordsStayFindable, Traceable, NoRow, NoEmissions
<1>2. IInv /\ IInv' /\ FInv /\ [Next]_vars => FInv'
  BY TracesStay
<1>3. FInv => RecordsStayFindable
  BY DEF FInv
<1> QED
  BY <1>1, <1>2, <1>3, Invariance, PTL DEF Spec
=============================================================================
