------------------------------ MODULE Grouping ------------------------------
(***************************************************************************)
(* Which events belong to one request: the keys an event is filed under    *)
(* (backend/internal/correlate/keys) and the groups a closing window is    *)
(* split into (backend/internal/correlate/group), as operators.            *)
(*                                                                         *)
(* An event is known by its vendor, its time, the identifiers it carries   *)
(* (its own request id and the linked one, blank ones left out) and its    *)
(* shape: client address, host, path and method, or NoShape when it has no *)
(* address or no host.  All of one tenant: every key is scoped by tenant.  *)
(***************************************************************************)
EXTENDS Naturals, FiniteSets

CONSTANTS Events, VendorOf, TimeOf, IdsOf, ShapeOf,
          NoShape,       \* the shape of an event that cannot attract a partner
          Window         \* settings.Window, in the unit of TimeOf

ASSUME GroupingAssumption ==
    /\ Window \in Nat \ {0}
    /\ TimeOf \in [Events -> Nat]
    /\ IdsOf \in [Events -> SUBSET Nat]
    /\ DOMAIN VendorOf = Events
    /\ DOMAIN ShapeOf = Events

-----------------------------------------------------------------------------
(* Join keys.  keys.CorrelationID is a hash of the key's value, so a       *)
(* correlation id is represented by the key it was proposed for.           *)

ExactKey(i) == <<"exact", i>>
WindowKey(s, w) == <<"window", s, w>>
SoloKey(e) == <<"solo", e>>

(* keys.Key{Tier: TierNone}: a key without a value.                        *)
NoKey == <<"none">>

WindowOf(e) == TimeOf[e] \div Window
Shaped(e) == ShapeOf[e] # NoShape

(* The window an event is scheduled to close with.                         *)
ClosingKey(e) == IF Shaped(e) THEN WindowKey(ShapeOf[e], WindowOf(e)) ELSE SoloKey(e)

ExactKeys(E) == {ExactKey(i) : i \in UNION {IdsOf[e] : e \in E}}

-----------------------------------------------------------------------------
(* Tier 1.  Events connected through shared identifiers are one request    *)
(* once a SECOND vendor is among them.                                     *)

Connected(e, f) == IdsOf[e] \cap IdsOf[f] # {}

ClosedUnderIds(E, S) == \A e \in S, f \in E : Connected(e, f) => f \in S

(* The least set of E around e that is closed under shared identifiers.    *)
Component(E, e) == {f \in E : \A S \in SUBSET E : e \in S /\ ClosedUnderIds(E, S) => f \in S}

Confirmed(E, e) == Cardinality({VendorOf[f] : f \in Component(E, e)}) > 1

Smallest(I) == CHOOSE i \in I : \A j \in I : i <= j

ExactGroups(E) ==
    LET Group(C) == [key |-> ExactKey(Smallest(UNION {IdsOf[e] : e \in C})),
                     tier |-> "exact", members |-> C]
    IN  {Group(Component(E, e)) : e \in {f \in E : Confirmed(E, f)}}

-----------------------------------------------------------------------------
(* Tier 2: everything tier 1 did not claim, by shape and time window.      *)

(* Batch visits events by time, and an event whose window is not open      *)
(* joins the previous one if that is: of a run of occupied windows every   *)
(* second one opens.                                                       *)
Opens(E, s, w) ==
    LET occupied(v) == \E e \in E : ShapeOf[e] = s /\ WindowOf(e) = v
    IN  \E u \in 0..w : /\ \A v \in u..w : occupied(v)
                        /\ u = 0 \/ ~occupied(u - 1)
                        /\ (w - u) % 2 = 0

HeuristicKeyIn(E, e) ==
    WindowKey(ShapeOf[e], IF Opens(E, ShapeOf[e], WindowOf(e)) THEN WindowOf(e) ELSE WindowOf(e) - 1)

HeuristicGroups(E) ==
    {[key |-> k, tier |-> "heuristic", members |-> {e \in E : HeuristicKeyIn(E, e) = k}] :
        k \in {HeuristicKeyIn(E, e) : e \in E}}

(* An event without a shape is a record of its own, under the empty key.   *)
SoloGroups(E) == {[key |-> NoKey, tier |-> "none", members |-> {e}] : e \in E}

-----------------------------------------------------------------------------
(* group.Batch                                                             *)
Groups(E) ==
    LET rest == {e \in E : ~Confirmed(E, e)}
    IN  ExactGroups(E) \cup HeuristicGroups({e \in rest : Shaped(e)})
                       \cup SoloGroups({e \in rest : ~Shaped(e)})

(* A mistake to detect: a heuristic group answers for its members' ids.    *)
IdsOfAnyGroup(g) == UNION {IdsOf[e] : e \in g.members}

(* Group.Identifiers: every identifier of an exact group; none for another.*)
GroupIds(g) == IF g.tier = "exact" THEN UNION {IdsOf[e] : e \in g.members} ELSE {}

(* strongerTier: a shared identifier beats shape and time, which beat none.*)
TierRank == [exact |-> 2, heuristic |-> 1, none |-> 0]
Tiers == DOMAIN TierRank
=============================================================================
