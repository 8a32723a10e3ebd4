-------------------------- MODULE FeedSecretsProofs --------------------------
(***************************************************************************)
(* Proofs about the credential of a feed, for any console requests and     *)
(* ingest processes at once, any number of changes, failed calls, crashes  *)
(* and restarts of Redis.                                                  *)
(*                                                                         *)
(* The argument: a process believes only in what has been sealed.  What a  *)
(* rotation is about to write it has sealed, and until it writes nobody    *)
(* else has heard of it (Private), so nobody revokes it; a removal marks   *)
(* the row before it revokes, and a rotation that comes in between gives   *)
(* the row another reference (Gone).                                       *)
(***************************************************************************)
EXTENDS FeedSecrets, TLAPS

(* The bounds are numbers; a reference can be minted.                      *)
FeedAssumption ==
    /\ MaxRefs \in Nat \ {0}
    /\ MaxChanges \in Nat /\ MaxRestarts \in Nat /\ MaxFaults \in Nat

(* What a process takes to be durable has been sealed, unless it is still  *)
(* finding out.                                                            *)
Honest ==
    \A i \in Receivers : \A r \in backfilled[i] :
        \/ step[i] \in {"check", "backfill"} /\ ref[i] = r
        \/ sealed[r] # "absent"

(* A delivery under way has a reference.                                   *)
Referred == \A i \in Receivers : step[i] # "idle" => ref[i] \in Refs

(* What a request knows at each of its steps.                              *)
Rotating(o) ==
    /\ job[o] = "rotate" /\ at[o] \in {"put", "cache", "tombstone", "uncache", "write"}
    /\ current[o] \in Refs /\ fresh[o] \in Refs
    /\ at[o] # "put" => sealed[fresh[o]] = "live"

Editing(o) == job[o] \in {"edit", "enable"} /\ at[o] = "write" /\ fresh[o] \in Refs /\ current[o] \in Refs

Deleting(o) == job[o] = "delete" /\ at[o] \in {"write", "tombstone", "uncache"} /\ current[o] \in Refs

Known == \A o \in Operators : at[o] = "idle" \/ Rotating(o) \/ Editing(o) \/ Deleting(o)

(* A reference is minted before it is heard of, and a rotation's own is in *)
(* no other request and not in the row.                                    *)
Minted == row.ref <= minted /\ \A o \in Operators : current[o] <= minted /\ fresh[o] <= minted

Private ==
    \A o \in Operators : at[o] # "idle" /\ job[o] = "rotate" =>
        /\ row.ref # fresh[o]
        /\ \A p \in Operators : current[p] # fresh[o] /\ (p # o => fresh[p] # fresh[o])

(* What a removal revokes is not the row's, unless the row is marked.      *)
Gone ==
    \A o \in Operators : job[o] = "delete" /\ at[o] \in {"tombstone", "uncache"} =>
        current[o] # row.ref \/ revoked \/ astray

(* The reference of the row stands, but while a rotation that has revoked  *)
(* it is about to write another.                                           *)
Stands ==
    \/ revoked \/ astray
    \/ \E o \in Operators : Replacing(o)
    \/ sealed[row.ref] = "live"
    \/ sealed[row.ref] = "absent" /\ row.ref = 1

IInv == TypeOK /\ Honest /\ Referred /\ Known /\ Minted /\ Private /\ Gone /\ Stands

LEMMA Kept == IInv => CredentialSurvives
BY DEF IInv, Honest, Stands, CredentialSurvives, Believed, TypeOK, Row

LEMMA Initially == ASSUME FeedAssumption PROVE Init => IInv
<1> SUFFICES ASSUME Init PROVE IInv
  OBVIOUS
<1>1. PICK first \in {"absent", "live"} : sealed = [r \in Refs |-> IF r = 1 THEN first ELSE "absent"]
  BY DEF Init
<1>2. 1 \in Refs /\ row \in Row /\ row.ref = 1
  BY DEF Init, Refs, Row, FeedAssumption
<1>3. TypeOK
  <2>1. sealed \in [Refs -> {"absent", "live", "deleted"}]
    BY <1>1
  <2>2. backfilled \in [Receivers -> SUBSET Refs] /\ cache \subseteq Refs
    BY <1>2 DEF Init
  <2>3. 0 \in 0..MaxRefs /\ 0 \in 0..MaxChanges /\ 0 \in 0..MaxRestarts /\ 0 \in 0..MaxFaults
    BY DEF FeedAssumption
  <2> QED
    BY <1>2, <2>1, <2>2, <2>3 DEF Init, TypeOK
<1>4. Honest /\ Referred /\ Known /\ Minted /\ Private /\ Gone
  BY <1>2 DEF Init, Honest, Referred, Known, Minted, Private, Gone
<1>5. Stands
  <2>1. sealed[row.ref] = first
    BY <1>1, <1>2
  <2> QED
    BY <1>2, <2>1 DEF Stands
<1> QED
  BY <1>2, <1>3, <1>4, <1>5 DEF IInv, Init

(* The types of what a delivery changes.                                   *)
LEMMA DeliveryTypes ==
    ASSUME FeedAssumption, TypeOK, Referred, NEW i \in Receivers, Delivery(i)
    PROVE  TypeOK'
<1>1. UNCHANGED <<row, revoked, astray, minted, changes, console, restarts>>
  BY DEF Delivery, Deliver, ReadCache, Check, CheckFails, Backfill, BackfillFails, ReadDurable,
         Refill, ReceiverCrash
<1>2. faults' \in 0..MaxFaults
  BY DEF Delivery, Deliver, ReadCache, Check, CheckFails, Backfill, BackfillFails, ReadDurable,
         Refill, ReceiverCrash, Fault, TypeOK, FeedAssumption
<1>3. sealed' \in [Refs -> {"absent", "live", "deleted"}]
  BY DEF Delivery, Deliver, ReadCache, Check, CheckFails, Backfill, BackfillFails, ReadDurable,
         Refill, ReceiverCrash, TypeOK
<1>4. step[i] # "idle" => ref[i] \in Refs
  BY DEF Referred
<1>5. cache' \subseteq Refs
  BY <1>4 DEF Delivery, Deliver, ReadCache, Check, CheckFails, Backfill, BackfillFails, ReadDurable,
         Refill, ReceiverCrash, TypeOK
<1>6. step' \in [Receivers -> {"idle", "cache", "check", "backfill", "durable", "refill"}]
  BY DEF Delivery, Deliver, ReadCache, Check, CheckFails, Backfill, BackfillFails, ReadDurable,
         Refill, ReceiverCrash, TypeOK, Move, Done
<1>7. ref' \in [Receivers -> 0..MaxRefs]
  BY DEF Delivery, Deliver, ReadCache, Check, CheckFails, Backfill, BackfillFails, ReadDurable,
         Refill, ReceiverCrash, TypeOK, Done, Row, Refs, FeedAssumption
<1>8. backfilled' \in [Receivers -> SUBSET Refs]
  BY <1>4 DEF Delivery, Deliver, ReadCache, Check, CheckFails, Backfill, BackfillFails, ReadDurable,
         Refill, ReceiverCrash, TypeOK, Trust, Forget
<1> QED
  BY <1>1, <1>2, <1>3, <1>5, <1>6, <1>7, <1>8 DEF TypeOK, console

(* What deliveries do to the invariant: they seal, and revoke nothing.     *)
LEMMA Deliveries ==
    ASSUME FeedAssumption, IInv, NEW i \in Receivers, Delivery(i)
    PROVE  IInv'
<1>0. TypeOK'
  BY DeliveryTypes DEF IInv
<1>1. UNCHANGED <<row, revoked, astray, minted, changes, console, restarts>>
  BY DEF Delivery, Deliver, ReadCache, Check, CheckFails, Backfill, BackfillFails, ReadDurable,
         Refill, ReceiverCrash
<1>2. sealed' = sealed \/ (ref[i] \in Refs /\ sealed' = [sealed EXCEPT ![ref[i]] = "live"])
  BY DEF Delivery, Deliver, ReadCache, Check, CheckFails, Backfill, BackfillFails, ReadDurable,
         Refill, ReceiverCrash, IInv, Referred
<1>3. \A r \in Refs : sealed'[r] = sealed[r] \/ sealed'[r] = "live"
  BY <1>2 DEF IInv, TypeOK
<1>4. row.ref \in Refs
  BY DEF IInv, TypeOK, Row
<1>5. Known' /\ Minted' /\ Private' /\ Gone' /\ Stands'
  <2>1. Known'
    BY <1>1, <1>3 DEF IInv, Known, Rotating, Editing, Deleting, console
  <2>2. Minted' /\ Private' /\ Gone'
    BY <1>1 DEF IInv, Minted, Private, Gone, console
  <2>3. Stands'
    BY <1>1, <1>3, <1>4 DEF IInv, Stands, Replacing, console
  <2> QED
    BY <2>1, <2>2, <2>3
<1>6. CASE Deliver(i)
  <2>1. Honest' /\ Referred'
    BY <1>1, <1>4, <1>6 DEF IInv, TypeOK, Honest, Referred, Deliver, Move
  <2> QED
    BY <1>0, <1>1, <1>5, <2>1 DEF IInv
<1>7. CASE ReadCache(i)
  <2>1. Honest' /\ Referred'
    BY <1>1, <1>7 DEF IInv, TypeOK, Honest, Referred, ReadCache, Move, Done, Trust
  <2> QED
    BY <1>0, <1>1, <1>5, <2>1 DEF IInv
<1>8. CASE Check(i) \/ CheckFails(i)
  <2>1. Honest' /\ Referred'
    BY <1>1, <1>8 DEF IInv, TypeOK, Honest, Referred, Check, CheckFails, Move, Done, Forget
  <2> QED
    BY <1>0, <1>1, <1>5, <2>1 DEF IInv
<1>9. CASE Backfill(i) \/ BackfillFails(i)
  <2>1. Honest' /\ Referred'
    BY <1>1, <1>3, <1>9 DEF IInv, TypeOK, Honest, Referred, Backfill, BackfillFails, Move, Done, Forget
  <2> QED
    BY <1>0, <1>1, <1>5, <2>1 DEF IInv
<1>10. CASE ReadDurable(i) \/ Refill(i) \/ ReceiverCrash(i)
  <2>1. Honest' /\ Referred'
    BY <1>1, <1>3, <1>10 DEF IInv, TypeOK, Honest, Referred, ReadDurable, Refill, ReceiverCrash, Move, Done, Trust
  <2> QED
    BY <1>0, <1>1, <1>5, <2>1 DEF IInv
<1> QED
  BY <1>6, <1>7, <1>8, <1>9, <1>10 DEF Delivery
(* The types of what a request changes.                                    *)
LEMMA ChangeTypes ==
    ASSUME FeedAssumption, IInv, NEW o \in Operators, Change(o)
    PROVE  TypeOK'
<1>1. /\ UNCHANGED <<ingest, restarts>>
      /\ step \in [Receivers -> {"idle", "cache", "check", "backfill", "durable", "refill"}]
      /\ ref \in [Receivers -> 0..MaxRefs] /\ backfilled \in [Receivers -> SUBSET Refs]
      /\ restarts \in 0..MaxRestarts
  BY DEF Change, Request, PutDurable, PutFails, PutCache, Tombstone, TombstoneFails, Uncache,
         WriteRow, WriteRowFails, ConsoleCrash, IInv, TypeOK
<1>2. /\ row \in Row /\ row.ref \in Refs /\ 0 \in 0..MaxRefs /\ Refs \subseteq 0..MaxRefs
      /\ fresh[o] \in 0..MaxRefs /\ current[o] \in 0..MaxRefs
  BY DEF IInv, TypeOK, Row, Refs, FeedAssumption
<1>3. at[o] # "idle" /\ job[o] # "delete" => fresh[o] \in Refs
  BY DEF IInv, Known, Rotating, Editing, Deleting
<1>4. CASE \E j \in {"rotate", "edit", "enable", "delete"} : Request(o, j)
  <2>1. PICK j \in {"rotate", "edit", "enable", "delete"} : Request(o, j)
    BY <1>4
  <2>2. changes' \in 0..MaxChanges
    BY <2>1 DEF Request, IInv, TypeOK, FeedAssumption
  <2>3. minted' \in Refs /\ fresh' \in [Operators -> 0..MaxRefs]
    <3>1. j = "rotate" => minted + 1 \in Refs /\ minted + 1 \in 0..MaxRefs
      BY <2>1 DEF Request, IInv, TypeOK, FeedAssumption, Refs
    <3>2. /\ minted \in Refs /\ row.ref \in 0..MaxRefs
          /\ fresh \in [Operators -> 0..MaxRefs]
      BY <1>2 DEF IInv, TypeOK
    <3> QED
      BY <2>1, <3>1, <3>2 DEF Request
  <2>4. current' \in [Operators -> 0..MaxRefs]
    BY <1>2, <2>1 DEF Request, IInv, TypeOK
  <2>5. /\ at' \in [Operators -> {"idle", "put", "cache", "tombstone", "uncache", "write"}]
        /\ job' \in [Operators -> {"none", "rotate", "edit", "enable", "delete"}]
    BY <2>1 DEF Request, Go, IInv, TypeOK
  <2> QED
    BY <1>1, <2>1, <2>2, <2>3, <2>4, <2>5 DEF Request, IInv, TypeOK, ingest
<1>5. faults \in 0..MaxFaults /\ (Fault => faults' \in 0..MaxFaults)
  BY DEF Fault, IInv, TypeOK, FeedAssumption
<1>6. Answer(o) => /\ at' \in [Operators -> {"idle", "put", "cache", "tombstone", "uncache", "write"}]
                   /\ job' \in [Operators -> {"none", "rotate", "edit", "enable", "delete"}]
                   /\ current' \in [Operators -> 0..MaxRefs] /\ fresh' \in [Operators -> 0..MaxRefs]
  BY <1>2 DEF Answer, Go, IInv, TypeOK
<1>7. ASSUME NEW where \in {"put", "cache", "tombstone", "uncache", "write"}, Go(o, where)
      PROVE  at' \in [Operators -> {"idle", "put", "cache", "tombstone", "uncache", "write"}]
  BY <1>7 DEF Go, IInv, TypeOK
<1>8. CASE PutDurable(o) \/ PutFails(o) \/ PutCache(o)
  <2>1. fresh[o] \in Refs
    BY <1>3, <1>8 DEF PutDurable, PutFails, PutCache, IInv, Known, Rotating, Editing, Deleting
  <2>2. sealed' \in [Refs -> {"absent", "live", "deleted"}] /\ cache' \subseteq Refs
    BY <1>8, <2>1 DEF PutDurable, PutFails, PutCache, IInv, TypeOK
  <2> QED
    BY <1>1, <1>5, <1>6, <1>7, <1>8, <2>2 DEF PutDurable, PutFails, PutCache, IInv, TypeOK, ingest
<1>9. AfterDelete(o) => /\ at' \in [Operators -> {"idle", "put", "cache", "tombstone", "uncache", "write"}]
                        /\ job' \in [Operators -> {"none", "rotate", "edit", "enable", "delete"}]
                        /\ current' \in [Operators -> 0..MaxRefs] /\ fresh' \in [Operators -> 0..MaxRefs]
  BY <1>6, <1>7 DEF AfterDelete, IInv, TypeOK
<1>10. CASE Tombstone(o) \/ TombstoneFails(o) \/ Uncache(o)
  <2>1. sealed' \in [Refs -> {"absent", "live", "deleted"}] /\ cache' \subseteq Refs
    BY <1>10 DEF Tombstone, TombstoneFails, Uncache, Unsealed, IInv, TypeOK
  <2> QED
    BY <1>1, <1>5, <1>7, <1>9, <1>10, <2>1 DEF Tombstone, TombstoneFails, Uncache, IInv, TypeOK, ingest
<1>11. CASE WriteRow(o) \/ WriteRowFails(o)
  <2>1. row' \in Row
    <3>1. Mutated(o) \in Row
      BY <1>2, <1>3, <1>11 DEF Mutated, WriteRow, WriteRowFails, Row
    <3> QED
      BY <1>2, <1>11, <3>1 DEF WriteRow, WriteRowFails
  <2>2. revoked' \in BOOLEAN /\ astray' \in BOOLEAN
    BY <1>11 DEF WriteRow, WriteRowFails, Replacing, Reverting, IInv, TypeOK
  <2> QED
    BY <1>1, <1>5, <1>6, <1>7, <1>11, <2>1, <2>2 DEF WriteRow, WriteRowFails, IInv, TypeOK, ingest
<1>12. CASE ConsoleCrash(o)
  <2>1. astray' \in BOOLEAN
    BY <1>12 DEF ConsoleCrash, Replacing, IInv, TypeOK
  <2> QED
    BY <1>1, <1>5, <1>6, <1>12, <2>1 DEF ConsoleCrash, IInv, TypeOK, ingest
<1> QED
  BY <1>4, <1>8, <1>10, <1>11, <1>12 DEF Change

(* What a request does is its own: the others stay where they are.         *)
OnlyMoves(o) ==
    \A p \in Operators \ {o} :
        at'[p] = at[p] /\ job'[p] = job[p] /\ current'[p] = current[p] /\ fresh'[p] = fresh[p]

LEMMA OthersWait == ASSUME TypeOK, NEW o \in Operators, Change(o) PROVE OnlyMoves(o)
BY DEF Change, Request, PutDurable, PutFails, PutCache, Tombstone, TombstoneFails, Uncache, AfterDelete,
       WriteRow, WriteRowFails, ConsoleCrash, Answer, Go, TypeOK, OnlyMoves

(* A request that ends knows nothing any more.                             *)
LEMMA Ended ==
    ASSUME FeedAssumption, TypeOK, NEW o \in Operators, Answer(o)
    PROVE  at'[o] = "idle" /\ job'[o] = "none" /\ current'[o] = 0 /\ fresh'[o] = 0
BY DEF Answer, Go, TypeOK

(* What stays true of what the requests know when one of them has ended or *)
(* has gone one step on with what it knows, and the row has a reference    *)
(* that is no rotation's own.                                              *)
LEMMA StillPrivate ==
    ASSUME FeedAssumption, IInv, NEW o \in Operators, OnlyMoves(o), row'.ref \in Refs, minted' = minted,
           \/ at'[o] = "idle" /\ job'[o] = "none" /\ current'[o] = 0 /\ fresh'[o] = 0
           \/ at[o] # "idle" /\ job'[o] = job[o] /\ current'[o] = current[o] /\ fresh'[o] = fresh[o],
           row'.ref = row.ref \/ (row'.ref = fresh[o] /\ at'[o] = "idle")
    PROVE  Minted' /\ Private'
<1>1. /\ minted \in Nat /\ 0 <= minted
      /\ \A p \in Operators : current[p] <= minted /\ fresh[p] <= minted
      /\ row.ref <= minted
  BY DEF IInv, TypeOK, Minted, Refs
<1>2. Minted'
  BY <1>1 DEF Minted, OnlyMoves
<1>3. ASSUME NEW p \in Operators, at'[p] # "idle", job'[p] = "rotate"
      PROVE  /\ row'.ref # fresh'[p]
             /\ \A q \in Operators : current'[q] # fresh'[p] /\ (q # p => fresh'[q] # fresh'[p])
  <2>1. at[p] # "idle" /\ job[p] = "rotate" /\ fresh'[p] = fresh[p]
    BY <1>3 DEF OnlyMoves
  <2>2. fresh[p] \in Refs /\ fresh[p] # 0
    BY <2>1 DEF IInv, Known, Rotating, Editing, Deleting, Refs
  <2>3. /\ row.ref # fresh[p]
        /\ \A q \in Operators : current[q] # fresh[p] /\ (q # p => fresh[q] # fresh[p])
    BY <2>1 DEF IInv, Private
  <2>4. row'.ref # fresh[p]
    BY <1>3, <2>3
  <2> QED
    BY <2>1, <2>2, <2>3, <2>4 DEF OnlyMoves
<1> QED
  BY <1>2, <1>3 DEF Private

(* What a request learns at its start; a rotation mints a reference.       *)
LEMMA Requested ==
    ASSUME FeedAssumption, IInv, NEW o \in Operators, NEW j \in {"rotate", "edit", "enable", "delete"},
           Request(o, j)
    PROVE  Known' /\ Minted' /\ Private' /\ Gone' /\ Stands'
<1>1. /\ row' = row /\ revoked' = revoked /\ astray' = astray /\ sealed' = sealed /\ at[o] = "idle"
      /\ job'[o] = j /\ current'[o] = row.ref
  BY DEF Request, IInv, TypeOK
<1>2. OnlyMoves(o)
  BY OthersWait DEF Change, IInv
<1>3. /\ row.ref \in Refs /\ row.ref \in Nat /\ minted \in Nat /\ row.ref <= minted
      /\ \A p \in Operators : current[p] <= minted /\ fresh[p] <= minted /\ current[p] \in Nat /\ fresh[p] \in Nat
  BY DEF IInv, TypeOK, Row, Refs, Minted
<1>4. /\ j = "rotate" => minted' = minted + 1 /\ fresh'[o] = minted + 1 /\ at'[o] = "put" /\ minted < MaxRefs
      /\ j # "rotate" => minted' = minted /\ fresh'[o] = row.ref /\ at'[o] = "write"
  BY DEF Request, Go, IInv, TypeOK
<1>5. Stands'
  BY <1>1, <1>2 DEF IInv, Stands, Replacing, OnlyMoves
<1>6. Gone'
  BY <1>1, <1>2, <1>4 DEF IInv, Gone, OnlyMoves
<1>7. ASSUME NEW p \in Operators \ {o}, at[p] # "idle", job[p] = "rotate"
      PROVE  row.ref # fresh[p] /\ minted + 1 # fresh[p]
  BY <1>3, <1>7 DEF IInv, Private
<1>8. CASE j = "rotate"
  <2>1. minted + 1 \in Refs
    BY <1>3, <1>4, <1>8 DEF Refs, FeedAssumption
  <2>2. Known'
    <3>1. Rotating(o)'
      BY <1>1, <1>3, <1>4, <1>8, <2>1 DEF Rotating
    <3>2. ASSUME NEW p \in Operators \ {o} PROVE (at[p] = "idle" \/ Rotating(p) \/ Editing(p) \/ Deleting(p))'
      BY <1>1, <1>2 DEF IInv, Known, Rotating, Editing, Deleting, OnlyMoves
    <3> QED
      BY <3>1, <3>2 DEF Known
  <2>3. Minted'
    BY <1>1, <1>2, <1>3, <1>4, <1>8 DEF Minted, OnlyMoves
  <2>4. ASSUME NEW p \in Operators, at'[p] # "idle", job'[p] = "rotate"
        PROVE  /\ row'.ref # fresh'[p]
               /\ \A q \in Operators : current'[q] # fresh'[p] /\ (q # p => fresh'[q] # fresh'[p])
    <3>1. CASE p = o
      <4>1. \A q \in Operators \ {o} : current[q] # minted + 1 /\ fresh[q] # minted + 1
        BY <1>3
      <4>2. row.ref # minted + 1
        BY <1>3
      <4> QED
        BY <1>1, <1>2, <1>4, <1>8, <3>1, <4>1, <4>2 DEF OnlyMoves
    <3>2. CASE p # o
      <4>1. at[p] # "idle" /\ job[p] = "rotate" /\ fresh'[p] = fresh[p]
        BY <1>2, <2>4, <3>2 DEF OnlyMoves
      <4>2. \A q \in Operators : current[q] # fresh[p] /\ (q # p => fresh[q] # fresh[p])
        BY <4>1 DEF IInv, Private
      <4>3. row.ref # fresh[p] /\ minted + 1 # fresh[p]
        BY <1>7, <3>2, <4>1
      <4> QED
        BY <1>1, <1>2, <1>4, <1>8, <4>1, <4>2, <4>3 DEF OnlyMoves
    <3> QED
      BY <3>1, <3>2
  <2> QED
    BY <1>5, <1>6, <2>2, <2>3, <2>4 DEF Private
<1>9. CASE j # "rotate"
  <2>1. Known'
    <3>1. (Editing(o) \/ Deleting(o))'
      BY <1>1, <1>3, <1>4, <1>9 DEF Editing, Deleting
    <3>2. ASSUME NEW p \in Operators \ {o} PROVE (at[p] = "idle" \/ Rotating(p) \/ Editing(p) \/ Deleting(p))'
      BY <1>1, <1>2 DEF IInv, Known, Rotating, Editing, Deleting, OnlyMoves
    <3> QED
      BY <3>1, <3>2 DEF Known
  <2>2. Minted'
    BY <1>1, <1>2, <1>3, <1>4, <1>9 DEF Minted, OnlyMoves
  <2>3. ASSUME NEW p \in Operators, at'[p] # "idle", job'[p] = "rotate"
        PROVE  /\ row'.ref # fresh'[p]
               /\ \A q \in Operators : current'[q] # fresh'[p] /\ (q # p => fresh'[q] # fresh'[p])
    <3>1. p # o
      BY <1>1, <1>9, <2>3
    <3>2. at[p] # "idle" /\ job[p] = "rotate" /\ fresh'[p] = fresh[p]
      BY <1>2, <2>3, <3>1 DEF OnlyMoves
    <3>3. \A q \in Operators : current[q] # fresh[p] /\ (q # p => fresh[q] # fresh[p])
      BY <3>2 DEF IInv, Private
    <3>4. row.ref # fresh[p]
      BY <1>7, <3>1, <3>2
    <3> QED
      BY <1>1, <1>2, <1>4, <1>9, <3>2, <3>3, <3>4 DEF OnlyMoves
  <2> QED
    BY <1>5, <1>6, <2>1, <2>2, <2>3 DEF Private
<1> QED
  BY <1>8, <1>9

(* Sealing touches what is the rotation's own.                             *)
LEMMA Puts ==
    ASSUME FeedAssumption, IInv, NEW o \in Operators, PutDurable(o) \/ PutFails(o) \/ PutCache(o)
    PROVE  Known' /\ Minted' /\ Private' /\ Gone' /\ Stands'
<1>1. /\ UNCHANGED <<row, revoked, astray, minted>> /\ Rotating(o) /\ at[o] \in {"put", "cache"}
  BY DEF PutDurable, PutFails, PutCache, IInv, Known, Editing, Deleting
<1>2. OnlyMoves(o)
  BY OthersWait DEF Change, IInv
<1>3. row.ref \in Refs /\ fresh[o] \in Refs /\ row.ref # fresh[o]
  BY <1>1 DEF IInv, TypeOK, Row, Rotating, Private
<1>4. /\ \A r \in Refs : sealed'[r] = sealed[r] \/ sealed'[r] = "live"
      /\ sealed'[row.ref] = sealed[row.ref]
  BY <1>3 DEF PutDurable, PutFails, PutCache, IInv, TypeOK
<1>5. \/ at'[o] = "idle" /\ job'[o] = "none" /\ current'[o] = 0 /\ fresh'[o] = 0
      \/ /\ at'[o] \in {"cache", "tombstone"} /\ job'[o] = job[o] /\ current'[o] = current[o] /\ fresh'[o] = fresh[o]
         /\ sealed'[fresh[o]] = "live"
  <2>1. CASE PutDurable(o)
    BY <1>3, <2>1 DEF PutDurable, Go, IInv, TypeOK
  <2>2. CASE PutFails(o)
    <3>1. Answer(o)
      BY <2>2 DEF PutFails
    <3> QED
      BY <3>1, Ended DEF IInv
  <2>3. CASE PutCache(o)
    <3>1. at[o] = "cache" /\ at'[o] = "tombstone" /\ UNCHANGED <<job, current, fresh, sealed>>
      BY <2>3 DEF PutCache, Go, IInv, TypeOK
    <3> QED
      BY <1>1, <3>1 DEF Rotating
  <2> QED
    BY <2>1, <2>2, <2>3
<1>6. Minted' /\ Private'
  BY <1>1, <1>2, <1>3, <1>5, StillPrivate
<1>7. Known'
  <2>1. (at[o] = "idle" \/ Rotating(o))'
    BY <1>1, <1>5 DEF Rotating
  <2>2. ASSUME NEW p \in Operators \ {o} PROVE (at[p] = "idle" \/ Rotating(p) \/ Editing(p) \/ Deleting(p))'
    BY <1>2, <1>4 DEF IInv, Known, Rotating, Editing, Deleting, OnlyMoves
  <2> QED
    BY <2>1, <2>2 DEF Known
<1>8. Gone'
  BY <1>1, <1>2, <1>5 DEF IInv, Gone, OnlyMoves, Rotating
<1>9. Stands'
  BY <1>1, <1>2, <1>4 DEF IInv, Stands, Replacing, OnlyMoves
<1> QED
  BY <1>6, <1>7, <1>8, <1>9

(* What is revoked is the row's only while the row is marked, or about to  *)
(* be replaced.                                                            *)
LEMMA Revokes ==
    ASSUME FeedAssumption, IInv, NEW o \in Operators, Tombstone(o) \/ TombstoneFails(o) \/ Uncache(o)
    PROVE  Known' /\ Minted' /\ Private' /\ Gone' /\ Stands'
<1>1. /\ UNCHANGED <<row, revoked, astray, minted>> /\ (Rotating(o) \/ Deleting(o))
      /\ at[o] \in {"tombstone", "uncache"} /\ current[o] \in Refs /\ row.ref \in Refs
  BY DEF Tombstone, TombstoneFails, Uncache, IInv, Known, Rotating, Editing, Deleting, TypeOK, Row
<1>2. OnlyMoves(o)
  BY OthersWait DEF Change, IInv
<1>3. \A r \in Refs : r # current[o] => sealed'[r] = sealed[r]
  BY DEF Tombstone, TombstoneFails, Uncache, Unsealed, IInv, TypeOK
<1>4. \/ at'[o] = "idle" /\ job'[o] = "none" /\ current'[o] = 0 /\ fresh'[o] = 0 /\ job[o] = "delete"
      \/ /\ at'[o] \in {"uncache", "write"} /\ job'[o] = job[o] /\ current'[o] = current[o] /\ fresh'[o] = fresh[o]
         /\ job[o] = "delete" => at'[o] = "uncache"
  <2>1. CASE Tombstone(o)
    BY <2>1 DEF Tombstone, Go, IInv, TypeOK
  <2>2. CASE AfterDelete(o) /\ job[o] = "rotate"
    BY <2>2 DEF AfterDelete, Go, IInv, TypeOK
  <2>3. CASE AfterDelete(o) /\ job[o] # "rotate"
    <3>1. Answer(o) /\ job[o] = "delete"
      BY <1>1, <2>3 DEF AfterDelete, Rotating, Deleting
    <3> QED
      BY <3>1, Ended DEF IInv
  <2> QED
    BY <2>1, <2>2, <2>3 DEF TombstoneFails, Uncache
<1>5. Minted' /\ Private'
  BY <1>1, <1>2, <1>4, StillPrivate
<1>6. \A p \in Operators : Rotating(p) => fresh[p] \in Refs /\ fresh[p] # current[o]
  BY DEF IInv, Private, Rotating
<1>7. Known'
  <2>1. (at[o] = "idle" \/ Rotating(o) \/ Deleting(o))'
    BY <1>1, <1>3, <1>4, <1>6 DEF Rotating, Deleting
  <2>2. ASSUME NEW p \in Operators \ {o} PROVE (at[p] = "idle" \/ Rotating(p) \/ Editing(p) \/ Deleting(p))'
    BY <1>2, <1>3, <1>6 DEF IInv, Known, Rotating, Editing, Deleting, OnlyMoves
  <2> QED
    BY <2>1, <2>2 DEF Known
<1>8. Gone'
  BY <1>1, <1>2, <1>4 DEF IInv, Gone, OnlyMoves
<1>9. Stands'
  <2>1. CASE current[o] # row.ref
    <3>1. sealed'[row.ref] = sealed[row.ref]
      BY <1>1, <1>3, <2>1
    <3>2. \A p \in Operators : Replacing(p) => Replacing(p)'
      BY <1>1, <1>2, <2>1 DEF Replacing, OnlyMoves
    <3> QED
      BY <1>1, <3>1, <3>2 DEF IInv, Stands
  <2>2. CASE current[o] = row.ref /\ job[o] = "rotate"
    <3>1. Replacing(o)'
      BY <1>1, <1>4, <2>2 DEF Replacing
    <3> QED
      BY <3>1 DEF Stands
  <2>3. CASE current[o] = row.ref /\ job[o] = "delete"
    BY <1>1, <2>3 DEF IInv, Gone, Stands
  <2> QED
    BY <1>1, <2>1, <2>2, <2>3 DEF Rotating, Deleting
<1> QED
  BY <1>5, <1>7, <1>8, <1>9

(* A rotation gives the row what it has sealed; an edit leaves the row's   *)
(* reference or leads the row astray; a removal marks the row.             *)
LEMMA Writes ==
    ASSUME FeedAssumption, IInv, NEW o \in Operators, WriteRow(o)
    PROVE  Known' /\ Minted' /\ Private' /\ Gone' /\ Stands'
<1>1. /\ sealed' = sealed /\ minted' = minted /\ at[o] = "write" /\ row.ref \in Refs
      /\ Rotating(o) \/ Editing(o) \/ Deleting(o)
  BY DEF WriteRow, IInv, TypeOK, Row, Known
<1>2. OnlyMoves(o)
  BY OthersWait DEF Change, IInv
<1>3. ASSUME NEW p \in Operators \ {o} PROVE (at[p] = "idle" \/ Rotating(p) \/ Editing(p) \/ Deleting(p))'
  BY <1>1, <1>2 DEF IInv, Known, Rotating, Editing, Deleting, OnlyMoves
<1>4. CASE Rotating(o)
  <2>1. /\ row'.ref = fresh[o] /\ fresh[o] \in Refs /\ sealed[fresh[o]] = "live" /\ Answer(o)
    BY <1>1, <1>4 DEF WriteRow, Mutated, Rotating, IInv, TypeOK, Row
  <2>2. at'[o] = "idle" /\ job'[o] = "none" /\ current'[o] = 0 /\ fresh'[o] = 0
    BY <2>1, Ended DEF IInv
  <2>3. Minted' /\ Private'
    BY <1>1, <1>2, <2>1, <2>2, StillPrivate
  <2>4. \A p \in Operators : current[p] # fresh[o]
    BY <1>1, <1>4 DEF IInv, Private, Rotating
  <2> QED
    BY <1>1, <1>2, <1>3, <2>1, <2>2, <2>3, <2>4 DEF Known, Gone, Stands, OnlyMoves
<1>5. CASE Editing(o)
  <2>1. /\ row'.ref = fresh[o] /\ fresh[o] \in Refs /\ Answer(o) /\ revoked' = revoked
        /\ astray' = (astray \/ fresh[o] # row.ref)
    BY <1>1, <1>5 DEF WriteRow, Mutated, Reverting, Editing, IInv, TypeOK, Row
  <2>2. at'[o] = "idle" /\ job'[o] = "none" /\ current'[o] = 0 /\ fresh'[o] = 0
    BY <2>1, Ended DEF IInv
  <2>3. Minted' /\ Private'
    BY <1>1, <1>2, <2>1, <2>2, StillPrivate
  <2>4. Known'
    BY <1>3, <2>2 DEF Known
  <2>5. CASE fresh[o] # row.ref
    BY <2>1, <2>3, <2>4, <2>5 DEF Gone, Stands
  <2>6. CASE fresh[o] = row.ref
    <3>1. Gone'
      BY <1>2, <2>1, <2>2, <2>6 DEF IInv, Gone, OnlyMoves
    <3>2. \A p \in Operators : Replacing(p) => Replacing(p)'
      BY <1>2, <1>5, <2>1, <2>6 DEF Replacing, Editing, OnlyMoves
    <3>3. Stands'
      BY <1>1, <2>1, <2>6, <3>2 DEF IInv, Stands
    <3> QED
      BY <2>3, <2>4, <3>1, <3>3
  <2> QED
    BY <2>5, <2>6
<1>6. CASE Deleting(o)
  <2>1. /\ at'[o] = "tombstone" /\ row'.ref = row.ref /\ revoked' = TRUE /\ UNCHANGED <<job, current, fresh>>
    BY <1>1, <1>6 DEF WriteRow, Mutated, Go, Deleting, IInv, TypeOK, Row
  <2>2. Minted' /\ Private'
    BY <1>1, <1>2, <2>1, StillPrivate
  <2>3. Deleting(o)'
    BY <1>6, <2>1 DEF Deleting
  <2> QED
    BY <1>3, <2>1, <2>2, <2>3 DEF Known, Gone, Stands
<1> QED
  BY <1>1, <1>4, <1>5, <1>6

(* The row may be written all the same.                                    *)
LEMMA WritesFail ==
    ASSUME FeedAssumption, IInv, NEW o \in Operators, WriteRowFails(o)
    PROVE  Known' /\ Minted' /\ Private' /\ Gone' /\ Stands'
<1>1. /\ sealed' = sealed /\ minted' = minted /\ revoked' = revoked /\ at[o] = "write" /\ row.ref \in Refs
      /\ Rotating(o) \/ Editing(o) \/ Deleting(o)
      /\ astray' = (astray \/ Replacing(o) \/ Reverting(o)) /\ Answer(o)
  BY DEF WriteRowFails, IInv, TypeOK, Row, Known
<1>2. OnlyMoves(o)
  BY OthersWait DEF Change, IInv
<1>3. at'[o] = "idle" /\ job'[o] = "none" /\ current'[o] = 0 /\ fresh'[o] = 0
  BY <1>1, Ended DEF IInv
<1>4. Known'
  <2>1. ASSUME NEW p \in Operators \ {o} PROVE (at[p] = "idle" \/ Rotating(p) \/ Editing(p) \/ Deleting(p))'
    BY <1>1, <1>2 DEF IInv, Known, Rotating, Editing, Deleting, OnlyMoves
  <2> QED
    BY <1>3, <2>1 DEF Known
<1>5. row'.ref = row.ref \/ (row'.ref = fresh[o] /\ fresh[o] \in Refs /\ ~Deleting(o))
  BY <1>1 DEF WriteRowFails, Mutated, Rotating, Editing, Deleting, IInv, TypeOK, Row
<1>6. Minted' /\ Private'
  BY <1>1, <1>2, <1>3, <1>5, StillPrivate
<1>7. CASE row'.ref = row.ref
  <2>1. Gone'
    BY <1>1, <1>2, <1>3, <1>7 DEF IInv, Gone, OnlyMoves
  <2>2. \A p \in Operators : Replacing(p) => Replacing(p)' \/ astray'
    BY <1>1, <1>2, <1>7 DEF Replacing, OnlyMoves
  <2>3. Stands'
    BY <1>1, <1>7, <2>2 DEF IInv, Stands
  <2> QED
    BY <1>4, <1>6, <2>1, <2>3
<1>8. CASE row'.ref = fresh[o] /\ fresh[o] # row.ref /\ Editing(o)
  <2>1. astray'
    BY <1>1, <1>8 DEF Reverting, Editing
  <2> QED
    BY <1>4, <1>6, <2>1 DEF Gone, Stands
<1>9. CASE row'.ref = fresh[o] /\ Rotating(o)
  <2>1. \A p \in Operators : current[p] # fresh[o]
    BY <1>1, <1>9 DEF IInv, Private, Rotating
  <2>2. Gone'
    BY <1>2, <1>3, <1>9, <2>1 DEF Gone, OnlyMoves
  <2>3. Stands'
    BY <1>1, <1>9 DEF Stands, Rotating
  <2> QED
    BY <1>4, <1>6, <2>2, <2>3
<1> QED
  BY <1>1, <1>5, <1>7, <1>8, <1>9

LEMMA Crashes ==
    ASSUME FeedAssumption, IInv, NEW o \in Operators, ConsoleCrash(o)
    PROVE  Known' /\ Minted' /\ Private' /\ Gone' /\ Stands'
<1>1. /\ UNCHANGED <<row, sealed, minted, revoked>> /\ row.ref \in Refs
      /\ astray' = (astray \/ Replacing(o)) /\ Answer(o)
  BY DEF ConsoleCrash, IInv, TypeOK, Row
<1>2. OnlyMoves(o)
  BY OthersWait DEF Change, IInv
<1>3. at'[o] = "idle" /\ job'[o] = "none" /\ current'[o] = 0 /\ fresh'[o] = 0
  BY <1>1, Ended DEF IInv
<1>4. Known'
  <2>1. ASSUME NEW p \in Operators \ {o} PROVE (at[p] = "idle" \/ Rotating(p) \/ Editing(p) \/ Deleting(p))'
    BY <1>1, <1>2 DEF IInv, Known, Rotating, Editing, Deleting, OnlyMoves
  <2> QED
    BY <1>3, <2>1 DEF Known
<1>5. Minted' /\ Private'
  BY <1>1, <1>2, <1>3, StillPrivate
<1>6. Gone'
  BY <1>1, <1>2, <1>3 DEF IInv, Gone, OnlyMoves
<1>7. \A p \in Operators : Replacing(p) => Replacing(p)' \/ astray'
  BY <1>1, <1>2 DEF Replacing, OnlyMoves
<1>8. Stands'
  BY <1>1, <1>7 DEF IInv, Stands
<1> QED
  BY <1>4, <1>5, <1>6, <1>8

(* What a change of the feed does to the invariant.                        *)
LEMMA Changes ==
    ASSUME FeedAssumption, IInv, NEW o \in Operators, Change(o)
    PROVE  IInv'
<1>1. TypeOK'
  BY ChangeTypes
<1>2. UNCHANGED <<step, ref, backfilled>>
  BY DEF Change, Request, PutDurable, PutFails, PutCache, Tombstone, TombstoneFails, Uncache,
         WriteRow, WriteRowFails, ConsoleCrash, ingest
<1>3. \A r \in Refs : sealed[r] # "absent" => sealed'[r] # "absent"
  BY DEF Change, Request, PutDurable, PutFails, PutCache, Tombstone, TombstoneFails, Uncache,
         WriteRow, WriteRowFails, ConsoleCrash, Unsealed, IInv, TypeOK
<1>4. Honest' /\ Referred'
  BY <1>2, <1>3 DEF IInv, Honest, Referred, TypeOK
<1>5. Known' /\ Minted' /\ Private' /\ Gone' /\ Stands'
  BY Requested, Puts, Revokes, Writes, WritesFail, Crashes DEF Change
<1> QED
  BY <1>1, <1>4, <1>5 DEF IInv

LEMMA Stepping ==
    ASSUME FeedAssumption, IInv, [Next]_vars
    PROVE  IInv'
<1>1. CASE RedisRestarts
  <2>1. TypeOK'
    BY <1>1 DEF RedisRestarts, IInv, TypeOK, FeedAssumption, console, ingest
  <2>2. Honest' /\ Referred' /\ Known'
    BY <1>1 DEF RedisRestarts, IInv, Honest, Referred, Known, Rotating, Editing, Deleting, console, ingest
  <2>3. Minted' /\ Private' /\ Gone' /\ Stands'
    BY <1>1 DEF RedisRestarts, IInv, Minted, Private, Gone, Stands, Replacing, console, ingest
  <2> QED
    BY <2>1, <2>2, <2>3 DEF IInv
<1>2. CASE UNCHANGED vars
  <2>1. TypeOK' /\ Honest' /\ Referred' /\ Known'
    BY <1>2 DEF vars, console, ingest, IInv, TypeOK, Honest, Referred, Known, Rotating, Editing, Deleting
  <2>2. Minted' /\ Private' /\ Gone' /\ Stands'
    BY <1>2 DEF vars, console, ingest, IInv, Minted, Private, Gone, Stands, Replacing
  <2> QED
    BY <2>1, <2>2 DEF IInv
<1> QED
  BY <1>1, <1>2, Changes, Deliveries DEF Next

(* The state of a feed and its credential keeps its types.                 *)
THEOREM TypeCorrect ==
    ASSUME FeedAssumption
    PROVE  Spec => []TypeOK
<1>1. Init => IInv
  BY Initially
<1>2. IInv /\ [Next]_vars => IInv'
  BY Stepping
<1>3. IInv => TypeOK
  BY DEF IInv
<1> QED
  BY <1>1, <1>2, <1>3, PTL DEF Spec

(* The credential of an enabled feed is sealed, however often Redis loses  *)
(* what it has and however many requests change the feed at once, unless   *)
(* one of them is about to replace it or the row was led astray, by a      *)
(* rotation that ended half-way or an edit that a rotation overtook.       *)
THEOREM CredentialIsSealed ==
    ASSUME FeedAssumption
    PROVE  Spec => []CredentialSurvives
<1>1. Init => IInv
  BY Initially
<1>2. IInv /\ [Next]_vars => IInv'
  BY Stepping
<1> QED
  BY <1>1, <1>2, Kept, PTL DEF Spec
=============================================================================
