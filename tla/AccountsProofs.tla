--------------------------- MODULE AccountsProofs ---------------------------
(***************************************************************************)
(* Proofs about the accounts and their invitations, for any number of      *)
(* handlers, users and addresses, and however many calls fail.             *)
(*                                                                         *)
(* The argument: a handler that is about to write a row holds the lock of  *)
(* what it writes, and what it read under that lock is still so (Rewrites  *)
(* the row, Creates an account).  A user that was once present is present  *)
(* or erased for good, so that no creation under way is of one (Erases).   *)
(* And an invite is worth one password: the passwords chosen, those about  *)
(* to be written and the one its live token is still good for are together *)
(* no more than the invites issued (Worth).                                *)
(***************************************************************************)
EXTENDS Accounts, TLAPS, FiniteSetTheorems

(* Where a request of each kind may be.                                    *)
PlacesOf(op) ==
    CASE op = "none" -> {"idle"}
      [] op = "create" -> {"lock", "insert"}
      [] op = "edit" -> {"lock", "write"}
      [] op = "erase" -> {"count", "record", "erase", "uninvite"}
      [] op = "issue" -> {"invite", "issue", "spend"}
      [] op = "redeem" -> {"resolve", "mark", "spend", "lock", "write"}

Placed(h) == at[h] \in PlacesOf(job[h].op)

(* Whoever is about to write holds the lock of what it writes.             *)
Locked(h) ==
    /\ at[h] = "write" => userLock[U(h)] = h
    /\ at[h] = "spend" => inviteLock[U(h)] = h
    /\ at[h] = "insert" => addressLock[job[h].address] = h

(* A row is as it was read.                                                *)
Reads(h) ==
    /\ at[h] = "idle" => row[h] = NoUser
    /\ at[h] = "write" => users[U(h)] # NoUser /\ row[h] = users[U(h)]

(* A creation is of a user never seen, and of an address nobody has.       *)
Creates(h) ==
    job[h].op = "create" =>
        /\ job[h].edit \in [role : Roles, status : Statuses]
        /\ users[U(h)] = NoUser /\ U(h) \notin erased
        /\ at[h] = "insert" => ~Taken(job[h].address)
        /\ \A g \in Handlers : job[g].op = "create" /\ U(g) = U(h) => g = h

(* An erasure that has read its user is of one that was present, and by    *)
(* the time it deletes the row it is on record.                            *)
Erases(h) ==
    job[h].op = "erase" =>
        /\ row[h] # NoUser \/ at[h] # "count" => users[U(h)] # NoUser \/ U(h) \in erased
        /\ at[h] = "erase" => U(h) \in audited \/ unrecorded

(* The handlers about to choose a password with an invite of u.            *)
Redeeming(u) ==
    {h \in Handlers : job[h].op = "redeem" /\ U(h) = u /\ at[h] \in {"lock", "write"}}

(* The invite of u is good for another.                                    *)
Live(u) ==
    \/ ~invites[u].spent
    \/ \E h \in Handlers : job[h].op = "redeem" /\ U(h) = u /\ at[h] = "spend"

Worth(u) ==
    redeemed[u] + Cardinality(Redeeming(u)) + (IF Live(u) THEN 1 ELSE 0) <= issued[u]

Handling(h) == Placed(h) /\ Locked(h) /\ Reads(h) /\ Creates(h) /\ Erases(h)

IInv ==
    /\ TypeOK
    /\ \A h \in Handlers : Handling(h)
    /\ OneUserPerAddress
    /\ ErasureHolds
    /\ \A u \in Users : Worth(u)

-----------------------------------------------------------------------------
(* Types.                                                                  *)

LEMMA Blanks == NoJob \in Job /\ NoInvite \in Invite
<1>1. (CHOOSE u \in Users : TRUE) \in Users /\ (CHOOSE a \in Addresses : TRUE) \in Addresses
  BY AccountsAssumption
<1>2. NoEdit \in Edit
  BY DEF NoEdit, Edit, Keep
<1> QED
  BY <1>1, <1>2 DEF NoJob, Job, Ops, NoInvite, Invite

LEMMA ReleasedType ==
    ASSUME NEW K, NEW lock \in [K -> Handlers \cup {Nobody}], NEW h
    PROVE  /\ Released(lock, h) \in [K -> Handlers \cup {Nobody}]
           /\ \A k \in K : lock[k] # h => Released(lock, h)[k] = lock[k]
BY DEF Released

LEMMA AnswerType ==
    ASSUME TypeOK, NEW h \in Handlers, Answer(h)
    PROVE  /\ at' \in [Handlers -> Places] /\ job' \in [Handlers -> Job]
           /\ row' \in [Handlers -> User \cup {NoUser}] /\ invite' \in [Handlers -> Invite]
           /\ userLock' \in [Users -> Handlers \cup {Nobody}]
           /\ inviteLock' \in [Users -> Handlers \cup {Nobody}]
           /\ addressLock' \in [Addresses -> Handlers \cup {Nobody}]
<1>1. at' \in [Handlers -> Places]
  BY DEF TypeOK, Answer, Go, Places
<1>2. job' \in [Handlers -> Job] /\ invite' \in [Handlers -> Invite]
  BY Blanks DEF TypeOK, Answer
<1>3. row' \in [Handlers -> User \cup {NoUser}]
  BY DEF TypeOK, Answer
<1>4. userLock' \in [Users -> Handlers \cup {Nobody}]
  BY ReleasedType DEF TypeOK, Answer
<1>5. inviteLock' \in [Users -> Handlers \cup {Nobody}]
  BY ReleasedType DEF TypeOK, Answer
<1>6. addressLock' \in [Addresses -> Handlers \cup {Nobody}]
  BY ReleasedType DEF TypeOK, Answer
<1> QED
  BY <1>1, <1>2, <1>3, <1>4, <1>5, <1>6

-----------------------------------------------------------------------------
(* A step of one handler.                                                  *)

(* Only h moves, and it takes no lock another holds.                       *)
OnlyMoves(h) ==
    /\ \A g \in Handlers \ {h} : at'[g] = at[g] /\ job'[g] = job[g] /\ row'[g] = row[g]
    /\ \A u \in Users : userLock[u] \notin {h, Nobody} => userLock'[u] = userLock[u]
    /\ \A u \in Users : inviteLock[u] \notin {h, Nobody} => inviteLock'[u] = inviteLock[u]
    /\ \A a \in Addresses : addressLock[a] \notin {h, Nobody} => addressLock'[a] = addressLock[a]

LEMMA AnswerMoves ==
    ASSUME TypeOK, NEW h \in Handlers, Answer(h)
    PROVE  OnlyMoves(h) /\ at'[h] = "idle" /\ job'[h] = NoJob /\ row'[h] = NoUser
<1>1. \A u \in Users : userLock[u] # h => userLock'[u] = userLock[u]
  BY ReleasedType DEF TypeOK, Answer
<1>2. \A u \in Users : inviteLock[u] # h => inviteLock'[u] = inviteLock[u]
  BY ReleasedType DEF TypeOK, Answer
<1>3. \A a \in Addresses : addressLock[a] # h => addressLock'[a] = addressLock[a]
  BY ReleasedType DEF TypeOK, Answer
<1>4. /\ at' = [at EXCEPT ![h] = "idle"] /\ job' = [job EXCEPT ![h] = NoJob]
      /\ row' = [row EXCEPT ![h] = NoUser]
  BY DEF Answer, Go
<1> QED
  BY <1>1, <1>2, <1>3, <1>4 DEF OnlyMoves, TypeOK

(* What holds of a handler that is through.                                *)
LEMMA IdleHandled ==
    ASSUME NEW h \in Handlers, at'[h] = "idle", job'[h] = NoJob, row'[h] = NoUser
    PROVE  Handling(h)'
BY DEF Handling, Placed, PlacesOf, Locked, Reads, Creates, Erases, NoJob

(* What holds of the others still does, as long as the rows they count on  *)
(* are left alone.                                                         *)
LEMMA OthersHandled ==
    ASSUME IInv, NEW h \in Handlers, OnlyMoves(h), NEW g \in Handlers, g # h,
           at[g] = "write" => users'[U(g)] = users[U(g)],
           job[g].op = "create" =>
               /\ users'[U(g)] = NoUser /\ U(g) \notin erased'
               /\ at[g] = "insert" => ~Taken(job[g].address)'
               /\ job'[h].op = "create" => job'[h].user # U(g),
           job[g].op = "erase" =>
               /\ users[U(g)] # NoUser \/ U(g) \in erased => users'[U(g)] # NoUser \/ U(g) \in erased'
               /\ U(g) \in audited \/ unrecorded => U(g) \in audited' \/ unrecorded'
    PROVE  Handling(g)'
<1>1. /\ Handling(g) /\ TypeOK
      /\ at'[g] = at[g] /\ job'[g] = job[g] /\ row'[g] = row[g] /\ U(g)' = U(g)
  BY DEF IInv, OnlyMoves, U
<1>2. U(g) \in Users /\ job[g].address \in Addresses /\ g # Nobody
  BY <1>1, AccountsAssumption DEF TypeOK, Job, U
<1>3. Placed(g)'
  BY <1>1 DEF Handling, Placed
<1>4. Locked(g)'
  BY <1>1, <1>2 DEF Handling, Locked, OnlyMoves
<1>5. Reads(g)'
  BY <1>1 DEF Handling, Reads
<1>6. Creates(g)'
  <2>1. SUFFICES ASSUME job[g].op = "create", NEW k \in Handlers, job'[k].op = "create",
                        U(k)' = U(g), k # g
                 PROVE  FALSE
    BY <1>1 DEF Handling, Creates
  <2>2. CASE k = h
    BY <2>1, <2>2 DEF U
  <2>3. CASE k # h
    BY <1>1, <2>1, <2>3 DEF Handling, Creates, OnlyMoves, U
  <2> QED
    BY <2>2, <2>3
<1>7. Erases(g)'
  BY <1>1 DEF Handling, Erases
<1> QED
  BY <1>3, <1>4, <1>5, <1>6, <1>7 DEF Handling

(* An invite is worth no more than before if nobody is about to choose     *)
(* another password with it, and it has not come to life.                  *)
LEMMA WorthKept ==
    ASSUME TypeOK, TypeOK', NEW u \in Users, Worth(u), redeemed'[u] = redeemed[u],
           issued[u] <= issued'[u], Redeeming(u)' \subseteq Redeeming(u), Live(u)' => Live(u)
    PROVE  Worth(u)'
<1>1. IsFiniteSet(Redeeming(u))
  BY AccountsAssumption, FS_Subset DEF Redeeming
<1>2. /\ IsFiniteSet(Redeeming(u)') /\ Cardinality(Redeeming(u)') <= Cardinality(Redeeming(u))
      /\ Cardinality(Redeeming(u)') \in Nat /\ Cardinality(Redeeming(u)) \in Nat
  BY <1>1, FS_Subset, FS_CardinalityType
<1>3. /\ redeemed[u] \in Nat /\ issued[u] \in Nat /\ issued'[u] \in Nat
  BY DEF TypeOK
<1> QED
  BY <1>2, <1>3 DEF Worth

(* A handler that moves towards neither leaves every invite its worth.     *)
LEMMA RedeemingMoved ==
    ASSUME TypeOK, NEW h \in Handlers, OnlyMoves(h), NEW u \in Users,
           invites[u].spent => invites'[u].spent,
           job'[h].op = "redeem" /\ at'[h] \in {"lock", "write"} /\ U(h)' = u =>
               job[h].op = "redeem" /\ U(h) = u /\ at[h] \in {"lock", "write"},
           job'[h].op = "redeem" /\ at'[h] = "spend" /\ U(h)' = u => Live(u)
    PROVE  Redeeming(u)' \subseteq Redeeming(u) /\ (Live(u)' => Live(u))
<1>1. Redeeming(u)' \subseteq Redeeming(u)
  <2>1. SUFFICES ASSUME NEW g \in Handlers, job'[g].op = "redeem", U(g)' = u, at'[g] \in {"lock", "write"}
                 PROVE  g \in Redeeming(u)
    BY DEF Redeeming
  <2> QED
    BY <2>1 DEF Redeeming, OnlyMoves, U
<1>2. Live(u)' => Live(u)
  BY DEF Live, OnlyMoves, U
<1> QED
  BY <1>1, <1>2

(* A step that writes nothing.                                             *)
LEMMA Moves ==
    ASSUME IInv, TypeOK', NEW h \in Handlers, OnlyMoves(h), UNCHANGED <<store, history>>, Handling(h)',
           job'[h].op = "redeem" /\ at'[h] \in {"lock", "write"} =>
               job[h].op = "redeem" /\ U(h)' = U(h) /\ at[h] \in {"lock", "write"},
           job'[h].op = "redeem" /\ at'[h] = "spend" => Live(U(h)')
    PROVE  IInv'
<1>1. /\ users' = users /\ invites' = invites /\ audited' = audited /\ erased' = erased
      /\ unrecorded' = unrecorded /\ redeemed' = redeemed /\ issued' = issued
  BY DEF store, history
<1>2. OneUserPerAddress' /\ ErasureHolds'
  BY <1>1 DEF IInv, OneUserPerAddress, ErasureHolds, ErasedStaysErased, ErasureIsOnRecord, Present
<1>3. ASSUME NEW g \in Handlers PROVE Handling(g)'
  <2>1. CASE g = h
    BY <2>1
  <2>2. CASE g # h
    <3>1. Handling(g) /\ at'[g] = at[g] /\ job'[g] = job[g] /\ U(g)' = U(g)
      BY <2>2 DEF IInv, OnlyMoves, U
    <3>2. ~Taken(job[g].address) => ~Taken(job[g].address)'
      BY <1>1, <3>1 DEF Taken, Present
    <3>3. job[g].op = "create" => (job'[h].op = "create" => job'[h].user # U(g))
      BY <2>2, <3>1 DEF Handling, Creates, U
    <3> QED
      BY <1>1, <2>2, <3>1, <3>2, <3>3, OthersHandled DEF Handling, Creates
  <2> QED
    BY <2>1, <2>2
<1>4. ASSUME NEW u \in Users PROVE Worth(u)'
  <2>1. Redeeming(u)' \subseteq Redeeming(u) /\ (Live(u)' => Live(u))
    BY <1>1, RedeemingMoved DEF IInv
  <2>2. Worth(u) /\ TypeOK /\ issued[u] \in Nat
    BY DEF IInv, TypeOK
  <2> QED
    BY <1>1, <2>1, <2>2, WorthKept
<1> QED
  BY <1>2, <1>3, <1>4 DEF IInv

-----------------------------------------------------------------------------
(* The steps that write nothing.                                           *)

LEMMA TypeFacts ==
    ASSUME IInv, NEW h \in Handlers
    PROVE  /\ Handling(h) /\ job[h] \in Job /\ U(h) \in Users /\ job[h].address \in Addresses
           /\ job[h].token \in Nat /\ at[h] \in Places /\ h # Nobody
BY AccountsAssumption DEF IInv, TypeOK, Job, U

LEMMA Answering ==
    ASSUME IInv, NEW h \in Handlers, Answer(h), UNCHANGED <<store, history>>,
           tokens' \in Nat, requests' \in Nat, faults' \in Nat
    PROVE  IInv'
<1>1. TypeOK'
  BY AnswerType DEF IInv, TypeOK, store, history
<1>2. OnlyMoves(h) /\ at'[h] = "idle" /\ job'[h] = NoJob /\ Handling(h)'
  BY AnswerMoves, IdleHandled DEF IInv
<1> QED
  BY <1>1, <1>2, Moves DEF NoJob

LEMMA Starting ==
    ASSUME IInv, NEW h \in Handlers, NEW j \in Job, NEW where \in Places, Start(h, j, where),
           j.op # "none" /\ where \in PlacesOf(j.op) \ {"write", "spend", "insert", "record", "erase",
                                                       "uninvite"},
           j.op = "redeem" => where = "resolve",
           j.op = "create" => Fresh(j.user) /\ j.edit \in [role : Roles, status : Statuses]
    PROVE  IInv'
<1>1. /\ at[h] = "idle" /\ job' = [job EXCEPT ![h] = j] /\ at' = [at EXCEPT ![h] = where]
      /\ UNCHANGED <<store, locks, row, invite, history, tokens, faults>> /\ requests' = requests + 1
  BY DEF Start, Go, Request
<1>2. TypeOK /\ job[h].op = "none"
  BY <1>1, TypeFacts DEF IInv, Handling, Placed, PlacesOf, Job, Ops
<1>3. TypeOK'
  BY <1>1, <1>2 DEF TypeOK, store, locks, history
<1>4. OnlyMoves(h) /\ at'[h] = where /\ job'[h] = j
  BY <1>1, <1>2 DEF TypeOK, OnlyMoves, locks
<1>5. Handling(h)'
  <2>1. Placed(h)' /\ Locked(h)' /\ Reads(h)'
    <3>1. where # "idle"
      BY DEF PlacesOf, Job, Ops
    <3> QED
      BY <1>4, <3>1 DEF Placed, Locked, Reads
  <2>2. Creates(h)'
    <3>1. SUFFICES ASSUME j.op = "create" PROVE Creates(h)'
      BY <1>4 DEF Creates
    <3>2. /\ j.user \notin Present /\ j.user \notin erased /\ j.user \in Users
          /\ \A g \in Handlers : job[g].op = "create" => U(g) # j.user
      BY <3>1 DEF Fresh, Job
    <3>3. users[j.user] = NoUser /\ users' = users /\ erased' = erased
      BY <1>1, <3>2 DEF Present, store, history
    <3>4. \A g \in Handlers : g # h => job'[g] = job[g]
      BY <1>4 DEF OnlyMoves
    <3> QED
      BY <1>4, <3>1, <3>2, <3>3, <3>4 DEF Creates, U
  <2>3. Erases(h)'
    <3>1. j.op = "erase" => where = "count" /\ row[h] = NoUser
      <4>1. row[h] = NoUser
        BY <1>1, TypeFacts DEF Handling, Reads
      <4> QED
        BY <4>1 DEF PlacesOf
    <3> QED
      BY <1>1, <1>4, <3>1 DEF Erases
  <2> QED
    BY <2>1, <2>2, <2>3 DEF Handling
<1>6. UNCHANGED <<store, history>>
  BY <1>1
<1> QED
  BY <1>3, <1>4, <1>5, <1>6, Moves DEF IInv

(* Every request begins with nothing in hand.                              *)
LEMMA Begins ==
    ASSUME IInv, NEW h \in Handlers, Asks(h)
    PROVE  IInv'
<1>1. PICK u \in Users :
          \/ \E a \in Addresses, role \in Roles, status \in {"active", "invited"} :
                Create(h, u, a, role, status)
          \/ \E edit \in Edits : EditUser(h, u, edit)
          \/ Erase(h, u) \/ Issue(h, u)
          \/ \E t \in 1..tokens : Redeem(h, u, t)
  BY DEF Asks
<1>2. NoJob \in Job /\ Edits \subseteq Edit /\ tokens \in Nat
  BY Blanks, AccountsAssumption DEF Edit, Roles, Statuses, Keep, IInv, TypeOK
<1>3. ASSUME NEW a \in Addresses, NEW role \in Roles, NEW status \in {"active", "invited"},
             Create(h, u, a, role, status)
      PROVE  IInv'
  <2> DEFINE j == [NoJob EXCEPT !.op = "create", !.user = u, !.address = a,
                                !.edit = [role |-> role, status |-> status]]
  <2>1. j \in Job /\ j.op = "create" /\ j.user = u /\ j.edit \in [role : Roles, status : Statuses]
    BY <1>2 DEF Job, Ops, Edit, Statuses
  <2>2. Fresh(u) /\ Start(h, j, "lock")
    BY <1>3 DEF Create
  <2>3. "lock" \in Places /\ "lock" \in PlacesOf("create")
    BY DEF Places, PlacesOf
  <2> HIDE DEF j
  <2> QED
    BY <2>1, <2>2, <2>3, Starting
<1>4. ASSUME NEW edit \in Edits, EditUser(h, u, edit) PROVE IInv'
  <2> DEFINE j == [NoJob EXCEPT !.op = "edit", !.user = u, !.edit = edit]
  <2>1. j \in Job /\ j.op = "edit"
    BY <1>2 DEF Job, Ops
  <2>2. Start(h, j, "lock")
    BY <1>4 DEF EditUser
  <2>3. "lock" \in Places /\ "lock" \in PlacesOf("edit")
    BY DEF Places, PlacesOf
  <2> HIDE DEF j
  <2> QED
    BY <2>1, <2>2, <2>3, Starting
<1>5. ASSUME Erase(h, u) PROVE IInv'
  <2> DEFINE j == [NoJob EXCEPT !.op = "erase", !.user = u]
  <2>1. j \in Job /\ j.op = "erase"
    BY <1>2 DEF Job, Ops
  <2>2. Start(h, j, "count")
    BY <1>5 DEF Erase
  <2>3. "count" \in Places /\ "count" \in PlacesOf("erase")
    BY DEF Places, PlacesOf
  <2> HIDE DEF j
  <2> QED
    BY <2>1, <2>2, <2>3, Starting
<1>6. ASSUME Issue(h, u) PROVE IInv'
  <2> DEFINE j == [NoJob EXCEPT !.op = "issue", !.user = u]
  <2>1. j \in Job /\ j.op = "issue"
    BY <1>2 DEF Job, Ops
  <2>2. Start(h, j, "invite")
    BY <1>6 DEF Issue
  <2>3. "invite" \in Places /\ "invite" \in PlacesOf("issue")
    BY DEF Places, PlacesOf
  <2> HIDE DEF j
  <2> QED
    BY <2>1, <2>2, <2>3, Starting
<1>7. ASSUME NEW t \in 1..tokens, Redeem(h, u, t) PROVE IInv'
  <2> DEFINE j == [NoJob EXCEPT !.op = "redeem", !.user = u, !.token = t]
  <2>1. j \in Job /\ j.op = "redeem"
    <3>1. t \in Nat
      BY <1>2, <1>7
    <3> QED
      BY <1>2, <3>1 DEF Job, Ops
  <2>2. Start(h, j, "resolve")
    BY <1>7 DEF Redeem
  <2>3. "resolve" \in Places /\ "resolve" \in PlacesOf("redeem")
    BY DEF Places, PlacesOf
  <2> HIDE DEF j
  <2> QED
    BY <2>1, <2>2, <2>3, Starting
<1> QED
  BY <1>1, <1>3, <1>4, <1>5, <1>6, <1>7

LEMMA LocksAddress ==
    ASSUME IInv, NEW h \in Handlers, LockAddress(h)
    PROVE  IInv'
<1>1. /\ TypeOK /\ Handling(h) /\ U(h) \in Users /\ job[h].address \in Addresses /\ h # Nobody
      /\ job[h] \in Job
      /\ at[h] = "lock" /\ job[h].op = "create" /\ addressLock[job[h].address] = Nobody
      /\ UNCHANGED <<store, history, tokens, requests, faults>>
  BY TypeFacts DEF IInv, LockAddress
<1>2. CASE Taken(job[h].address)
  BY <1>1, <1>2, Answering DEF LockAddress, IInv, TypeOK
<1>3. CASE ~Taken(job[h].address)
  <2>1. /\ addressLock' = [addressLock EXCEPT ![job[h].address] = h]
        /\ at' = [at EXCEPT ![h] = "insert"]
        /\ UNCHANGED <<userLock, inviteLock, job, row, invite>>
    BY <1>3 DEF LockAddress, Go
  <2>2. TypeOK'
    BY <1>1, <2>1 DEF TypeOK, Places, store, history
  <2>3. OnlyMoves(h) /\ at'[h] = "insert" /\ job'[h] = job[h]
    BY <1>1, <2>1 DEF TypeOK, OnlyMoves
  <2>4. users' = users /\ erased' = erased /\ job' = job
    BY <1>1, <2>1 DEF store, history
  <2>5. ~Taken(job[h].address)'
    BY <1>3, <2>4 DEF Taken, Present
  <2>6. addressLock'[job[h].address] = h
    BY <1>1, <2>1 DEF TypeOK
  <2>7. Handling(h)'
    BY <1>1, <2>3, <2>4, <2>5, <2>6
       DEF Handling, Placed, PlacesOf, Locked, Reads, Creates, Erases, U
  <2> QED
    BY <1>1, <2>2, <2>3, <2>7, Moves
<1> QED
  BY <1>2, <1>3

LEMMA LocksUser ==
    ASSUME IInv, NEW h \in Handlers, LockUser(h)
    PROVE  IInv'
<1>1. /\ TypeOK /\ Handling(h) /\ U(h) \in Users /\ h # Nobody /\ job[h] \in Job
      /\ at[h] = "lock" /\ job[h].op \in {"edit", "redeem"} /\ userLock[U(h)] = Nobody
      /\ UNCHANGED <<store, history, tokens, requests, faults>>
  BY TypeFacts DEF IInv, LockUser, Rewrites
<1>2. CASE users[U(h)] = NoUser
  BY <1>1, <1>2, Answering DEF LockUser, IInv, TypeOK
<1>3. CASE users[U(h)] # NoUser
  <2>1. /\ userLock' = [userLock EXCEPT ![U(h)] = h]
        /\ row' = [row EXCEPT ![h] = users[U(h)]]
        /\ at' = [at EXCEPT ![h] = "write"]
        /\ UNCHANGED <<inviteLock, addressLock, job, invite>>
    BY <1>3 DEF LockUser, Go
  <2>2. TypeOK'
    BY <1>1, <2>1 DEF TypeOK, Places, store, history
  <2>3. OnlyMoves(h) /\ at'[h] = "write" /\ job'[h] = job[h] /\ U(h)' = U(h)
    BY <1>1, <2>1 DEF TypeOK, OnlyMoves, U
  <2>4. users' = users /\ userLock'[U(h)] = h /\ row'[h] = users[U(h)]
    BY <1>1, <2>1 DEF TypeOK, store
  <2>5. Handling(h)'
    BY <1>1, <1>3, <2>3, <2>4
       DEF Handling, Placed, PlacesOf, Locked, Reads, Creates, Erases
  <2> QED
    BY <1>1, <2>2, <2>3, <2>5, Moves
<1> QED
  BY <1>2, <1>3

LEMMA ReadsUser ==
    ASSUME IInv, NEW h \in Handlers, ReadUser(h)
    PROVE  IInv'
<1>1. /\ TypeOK /\ Handling(h) /\ U(h) \in Users /\ job[h] \in Job /\ at[h] = "count"
      /\ UNCHANGED <<store, history, tokens, requests, faults>>
  BY TypeFacts DEF IInv, ReadUser
<1>2. CASE users[U(h)] = NoUser
  BY <1>1, <1>2, Answering DEF ReadUser, IInv, TypeOK
<1>3. CASE users[U(h)] # NoUser
  <2>1. row' = [row EXCEPT ![h] = users[U(h)]] /\ UNCHANGED <<locks, at, job, invite>>
    BY <1>3 DEF ReadUser
  <2>2. TypeOK'
    BY <1>1, <2>1 DEF TypeOK, store, locks, history
  <2>3. OnlyMoves(h) /\ at'[h] = at[h] /\ job'[h] = job[h] /\ U(h)' = U(h)
    BY <1>1, <2>1 DEF TypeOK, OnlyMoves, U, locks
  <2>4. Handling(h)'
    BY <1>1, <1>3, <2>1, <2>3
       DEF Handling, Placed, PlacesOf, Locked, Reads, Creates, Erases, store, history, Job, Ops
  <2> QED
    BY <1>1, <2>2, <2>3, <2>4, Moves
<1> QED
  BY <1>2, <1>3

LEMMA CountsAdmins ==
    ASSUME IInv, NEW h \in Handlers, CountAdmins(h)
    PROVE  IInv'
<1>1. /\ TypeOK /\ Handling(h) /\ U(h) \in Users /\ job[h] \in Job /\ at[h] = "count"
      /\ row[h] # NoUser
      /\ UNCHANGED <<store, history, tokens, requests, faults>>
  BY TypeFacts DEF IInv, CountAdmins
<1>2. CASE Answer(h)
  BY <1>1, <1>2, Answering DEF IInv, TypeOK
<1>3. CASE Go(h, "record") /\ UNCHANGED <<locks, job, row, invite>>
  <2>1. at' = [at EXCEPT ![h] = "record"] /\ UNCHANGED <<locks, job, row, invite>>
    BY <1>3 DEF Go
  <2>2. TypeOK'
    BY <1>1, <2>1 DEF TypeOK, Places, store, locks, history
  <2>3. OnlyMoves(h) /\ at'[h] = "record" /\ job'[h] = job[h] /\ U(h)' = U(h)
    BY <1>1, <2>1 DEF TypeOK, OnlyMoves, U, locks
  <2>4. Handling(h)'
    BY <1>1, <2>1, <2>3
       DEF Handling, Placed, PlacesOf, Locked, Reads, Creates, Erases, store, history, Job, Ops
  <2> QED
    BY <1>1, <2>2, <2>3, <2>4, Moves
<1> QED
  BY <1>2, <1>3 DEF CountAdmins

LEMMA MintsToken ==
    ASSUME IInv, NEW h \in Handlers, MintToken(h)
    PROVE  IInv'
<1>1. /\ TypeOK /\ Handling(h) /\ job[h] \in Job /\ at[h] = "invite" /\ job[h].op = "issue"
      /\ tokens \in Nat
      /\ UNCHANGED <<store, history, requests, faults>>
  BY TypeFacts DEF IInv, MintToken, TypeOK
<1>2. CASE Answer(h) /\ UNCHANGED tokens
  BY <1>1, <1>2, Answering DEF IInv, TypeOK
<1>3. CASE /\ tokens' = tokens + 1
           /\ job' = [job EXCEPT ![h].token = tokens + 1]
           /\ Go(h, "issue")
           /\ UNCHANGED <<locks, row, invite>>
  <2>1. at' = [at EXCEPT ![h] = "issue"]
    BY <1>3 DEF Go
  <2>2. job' \in [Handlers -> Job]
    BY <1>1, <1>3 DEF TypeOK, Job
  <2>3. TypeOK'
    BY <1>1, <1>3, <2>1, <2>2 DEF TypeOK, Places, store, locks, history
  <2>4. OnlyMoves(h) /\ at'[h] = "issue" /\ job'[h].op = "issue"
    BY <1>1, <1>3, <2>1 DEF TypeOK, OnlyMoves, Job, locks
  <2>5. Handling(h)'
    BY <2>4 DEF Handling, Placed, PlacesOf, Locked, Reads, Creates, Erases
  <2> QED
    BY <1>1, <2>3, <2>4, <2>5, Moves
<1> QED
  BY <1>2, <1>3 DEF MintToken

LEMMA LocksInvite ==
    ASSUME IInv, NEW h \in Handlers, LockInvite(h)
    PROVE  IInv'
<1>1. /\ TypeOK /\ Handling(h) /\ U(h) \in Users /\ job[h] \in Job /\ h # Nobody
      /\ at[h] = "issue" /\ inviteLock[U(h)] = Nobody
      /\ inviteLock' = [inviteLock EXCEPT ![U(h)] = h]
      /\ invite' = [invite EXCEPT ![h] = invites[U(h)]]
      /\ at' = [at EXCEPT ![h] = "spend"]
      /\ UNCHANGED <<store, userLock, addressLock, job, row, history, tokens, requests, faults>>
  BY TypeFacts DEF IInv, LockInvite, Go
<1>2. job[h].op = "issue"
  BY <1>1 DEF Handling, Placed, PlacesOf, Job, Ops
<1>3. TypeOK'
  BY <1>1 DEF TypeOK, Places, store, history
<1>4. OnlyMoves(h) /\ at'[h] = "spend" /\ job'[h] = job[h] /\ U(h)' = U(h) /\ inviteLock'[U(h)] = h
  BY <1>1 DEF TypeOK, OnlyMoves, U
<1>5. Handling(h)'
  BY <1>2, <1>4 DEF Handling, Placed, PlacesOf, Locked, Reads, Creates, Erases
<1> QED
  BY <1>1, <1>2, <1>3, <1>4, <1>5, Moves

LEMMA FindsInvite ==
    ASSUME IInv, NEW h \in Handlers, FindInvite(h)
    PROVE  IInv'
<1>1. /\ TypeOK /\ Handling(h) /\ U(h) \in Users /\ job[h] \in Job /\ at[h] = "resolve"
      /\ UNCHANGED <<store, history, tokens, requests, faults>>
  BY TypeFacts DEF IInv, FindInvite
<1>2. CASE Answer(h)
  BY <1>1, <1>2, Answering DEF IInv, TypeOK
<1>3. CASE invite' = [invite EXCEPT ![h] = invites[U(h)]] /\ UNCHANGED <<locks, at, job, row>>
  <2>1. TypeOK'
    BY <1>1, <1>3 DEF TypeOK, store, locks, history
  <2>2. OnlyMoves(h) /\ at'[h] = at[h] /\ job'[h] = job[h] /\ U(h)' = U(h) /\ row'[h] = row[h]
    BY <1>3 DEF OnlyMoves, U, locks
  <2>3. Handling(h)'
    BY <1>1, <2>2
       DEF Handling, Placed, PlacesOf, Locked, Reads, Creates, Erases, store, history, Job, Ops
  <2> QED
    BY <1>1, <2>1, <2>2, <2>3, Moves
<1> QED
  BY <1>2, <1>3 DEF FindInvite

LEMMA FindsInvited ==
    ASSUME IInv, NEW h \in Handlers, FindInvited(h)
    PROVE  IInv'
<1>1. /\ TypeOK /\ Handling(h) /\ U(h) \in Users /\ job[h] \in Job /\ at[h] = "resolve"
      /\ UNCHANGED <<store, history, tokens, requests, faults>>
  BY TypeFacts DEF IInv, FindInvited
<1>2. CASE Answer(h)
  BY <1>1, <1>2, Answering DEF IInv, TypeOK
<1>3. CASE Go(h, "mark") /\ UNCHANGED <<locks, job, row, invite>>
  <2>1. at' = [at EXCEPT ![h] = "mark"] /\ UNCHANGED <<locks, job, row, invite>>
    BY <1>3 DEF Go
  <2>2. TypeOK'
    BY <1>1, <2>1 DEF TypeOK, Places, store, locks, history
  <2>3. OnlyMoves(h) /\ at'[h] = "mark" /\ job'[h] = job[h] /\ U(h)' = U(h)
    BY <1>1, <2>1 DEF TypeOK, OnlyMoves, U, locks
  <2>4. Handling(h)'
    BY <1>1, <2>3
       DEF Handling, Placed, PlacesOf, Locked, Reads, Creates, Erases, Job, Ops
  <2> QED
    BY <1>1, <2>2, <2>3, <2>4, Moves
<1> QED
  BY <1>2, <1>3 DEF FindInvited

LEMMA LocksForRedemption ==
    ASSUME IInv, NEW h \in Handlers, LockForRedemption(h)
    PROVE  IInv'
<1>1. /\ TypeOK /\ Handling(h) /\ U(h) \in Users /\ job[h] \in Job /\ h # Nobody
      /\ at[h] = "mark" /\ inviteLock[U(h)] = Nobody
      /\ UNCHANGED <<store, history, tokens, requests, faults>>
  BY TypeFacts DEF IInv, LockForRedemption
<1>2. CASE Answer(h)
  BY <1>1, <1>2, Answering DEF IInv, TypeOK
<1>3. CASE /\ ~invites[U(h)].spent
           /\ inviteLock' = [inviteLock EXCEPT ![U(h)] = h]
           /\ invite' = [invite EXCEPT ![h] = invites[U(h)]]
           /\ Go(h, "spend")
           /\ UNCHANGED <<userLock, addressLock, job, row>>
  <2>1. at' = [at EXCEPT ![h] = "spend"]
    BY <1>3 DEF Go
  <2>2. TypeOK'
    BY <1>1, <1>3, <2>1 DEF TypeOK, Places, store, history
  <2>3. OnlyMoves(h) /\ at'[h] = "spend" /\ job'[h] = job[h] /\ U(h)' = U(h) /\ inviteLock'[U(h)] = h
    BY <1>1, <1>3, <2>1 DEF TypeOK, OnlyMoves, U
  <2>4. Handling(h)'
    BY <1>1, <2>3
       DEF Handling, Placed, PlacesOf, Locked, Reads, Creates, Erases, Job, Ops
  <2>5. Live(U(h)')
    BY <1>3, <2>3 DEF Live
  <2> QED
    BY <1>1, <2>2, <2>3, <2>4, <2>5, Moves
<1> QED
  BY <1>2, <1>3 DEF LockForRedemption

-----------------------------------------------------------------------------
(* The steps that write.                                                   *)

LEMMA InsertsUser ==
    ASSUME IInv, NEW h \in Handlers, InsertUser(h)
    PROVE  IInv'
<1>1. /\ TypeOK /\ Handling(h) /\ U(h) \in Users /\ job[h].address \in Addresses /\ h # Nobody
      /\ job[h] \in Job /\ at[h] = "insert" /\ Answer(h)
      /\ users' = [users EXCEPT ![U(h)] = Created(h)]
      /\ UNCHANGED <<invites, audited, history, tokens, requests, faults>>
      /\ erased' = erased /\ unrecorded' = unrecorded /\ redeemed' = redeemed /\ issued' = issued
  BY TypeFacts DEF IInv, InsertUser, history
<1>2. job[h].op = "create"
  BY <1>1 DEF Handling, Placed, PlacesOf, Job, Ops
<1>3. /\ users[U(h)] = NoUser /\ U(h) \notin erased /\ ~Taken(job[h].address)
      /\ job[h].edit \in [role : Roles, status : Statuses]
      /\ addressLock[job[h].address] = h
      /\ \A g \in Handlers : job[g].op = "create" /\ U(g) = U(h) => g = h
  BY <1>1, <1>2 DEF Handling, Creates, Locked
<1>4. Created(h) \in User /\ Created(h) # NoUser /\ Created(h).address = job[h].address
  BY <1>1, <1>3, NoUserAssumption DEF Created, User
<1>5. TypeOK'
  BY <1>1, <1>4, AnswerType DEF TypeOK, history
<1>6. OnlyMoves(h) /\ job'[h] = NoJob /\ Handling(h)' /\ job'[h].op = "none"
  BY <1>1, AnswerMoves, IdleHandled DEF NoJob
<1>7. \A u \in Users : users'[u] = IF u = U(h) THEN Created(h) ELSE users[u]
  BY <1>1 DEF TypeOK
<1>8. ASSUME NEW g \in Handlers PROVE Handling(g)'
  <2>1. CASE g = h
    BY <1>6, <2>1
  <2>2. CASE g # h
    <3>1. Handling(g) /\ U(g) \in Users /\ job[g].address \in Addresses
      BY TypeFacts
    <3>2. at[g] = "write" => users'[U(g)] = users[U(g)]
      BY <1>3, <1>7, <3>1 DEF Handling, Reads
    <3>3. ASSUME job[g].op = "create"
          PROVE  /\ users'[U(g)] = NoUser /\ U(g) \notin erased'
                 /\ at[g] = "insert" => ~Taken(job[g].address)'
      <4>1. U(g) # U(h) /\ job'[g] = job[g]
        BY <1>3, <1>6, <2>2, <3>3 DEF OnlyMoves
      <4>2. users'[U(g)] = NoUser /\ U(g) \notin erased'
        BY <1>1, <1>7, <3>1, <3>3, <4>1 DEF Handling, Creates
      <4>3. ASSUME at[g] = "insert" PROVE ~Taken(job[g].address)'
        <5>1. ~Taken(job[g].address) /\ job[g].address # job[h].address
          BY <1>3, <2>2, <3>1, <3>3, <4>3 DEF Handling, Creates, Locked
        <5> QED
          BY <1>4, <1>7, <4>1, <5>1 DEF Taken, Present
      <4> QED
        BY <4>2, <4>3
    <3>4. users[U(g)] # NoUser \/ U(g) \in erased => users'[U(g)] # NoUser \/ U(g) \in erased'
      BY <1>1, <1>4, <1>7, <3>1
    <3> QED
      BY <1>1, <1>6, <2>2, <3>2, <3>3, <3>4, OthersHandled
  <2> QED
    BY <2>1, <2>2
<1>9. OneUserPerAddress'
  BY <1>3, <1>4, <1>7 DEF IInv, OneUserPerAddress, Taken, Present
<1>10. ErasureHolds'
  BY <1>1, <1>3, <1>7 DEF IInv, ErasureHolds, ErasedStaysErased, ErasureIsOnRecord, Present
<1>11. ASSUME NEW u \in Users PROVE Worth(u)'
  <2>1. Redeeming(u)' \subseteq Redeeming(u) /\ (Live(u)' => Live(u))
    BY <1>1, <1>6, RedeemingMoved
  <2>2. Worth(u) /\ issued[u] \in Nat
    BY <1>1 DEF IInv, TypeOK
  <2> QED
    BY <1>1, <1>5, <2>1, <2>2, WorthKept
<1> QED
  BY <1>5, <1>8, <1>9, <1>10, <1>11 DEF IInv

(* An edit or a password leaves the address alone.                         *)
LEMMA MutatedType ==
    ASSUME NEW h \in Handlers, job[h] \in Job, row[h] \in User
    PROVE  Mutated(h) \in User /\ Mutated(h).address = row[h].address
<1>1. Edited(row[h], job[h].edit) \in User /\ Edited(row[h], job[h].edit).address = row[h].address
  BY DEF Edited, User, Job, Edit, Roles, Statuses, Keep
<1>2. /\ WithPassword(row[h], job[h].token) \in User
      /\ WithPassword(row[h], job[h].token).address = row[h].address
  BY DEF WithPassword, User, Job, Statuses
<1> QED
  BY <1>1, <1>2 DEF Mutated

LEMMA WritesUser ==
    ASSUME IInv, NEW h \in Handlers, WriteUser(h)
    PROVE  IInv'
<1>1. /\ TypeOK /\ Handling(h) /\ U(h) \in Users /\ h # Nobody
      /\ job[h] \in Job /\ at[h] = "write" /\ Answer(h)
      /\ users' = [users EXCEPT ![U(h)] = Mutated(h)]
      /\ redeemed' = IF job[h].op = "redeem" THEN [redeemed EXCEPT ![U(h)] = @ + 1] ELSE redeemed
      /\ UNCHANGED <<invites, audited, issued, superseded, accepted, erased, unrecorded,
                     tokens, requests, faults>>
  BY TypeFacts DEF IInv, WriteUser
<1>2. /\ users[U(h)] # NoUser /\ row[h] = users[U(h)] /\ userLock[U(h)] = h /\ row[h] \in User
  BY <1>1 DEF Handling, Reads, Locked, TypeOK
<1>3. Mutated(h) \in User /\ Mutated(h).address = users[U(h)].address /\ Mutated(h) # NoUser
  BY <1>1, <1>2, MutatedType, NoUserAssumption
<1>4. TypeOK'
  <2>1. redeemed' \in [Users -> Nat]
    BY <1>1 DEF TypeOK
  <2> QED
    BY <1>1, <1>3, <2>1, AnswerType DEF TypeOK
<1>5. OnlyMoves(h) /\ job'[h] = NoJob /\ Handling(h)' /\ job'[h].op = "none" /\ at'[h] = "idle"
  BY <1>1, AnswerMoves, IdleHandled DEF NoJob
<1>6. \A u \in Users : users'[u] = IF u = U(h) THEN Mutated(h) ELSE users[u]
  BY <1>1 DEF TypeOK
<1>7. Present' = Present /\ \A u \in Present : users'[u].address = users[u].address
  BY <1>2, <1>3, <1>6 DEF Present
<1>8. ASSUME NEW g \in Handlers PROVE Handling(g)'
  <2>1. CASE g = h
    BY <1>5, <2>1
  <2>2. CASE g # h
    <3>1. Handling(g) /\ U(g) \in Users /\ job[g].address \in Addresses /\ job'[g] = job[g]
      BY <1>5, <2>2, TypeFacts DEF OnlyMoves
    <3>2. at[g] = "write" => users'[U(g)] = users[U(g)]
      BY <1>2, <1>6, <2>2, <3>1 DEF Handling, Locked
    <3>3. ASSUME job[g].op = "create"
          PROVE  /\ users'[U(g)] = NoUser /\ U(g) \notin erased'
                 /\ at[g] = "insert" => ~Taken(job[g].address)'
      BY <1>1, <1>2, <1>6, <1>7, <3>1, <3>3 DEF Handling, Creates, Taken
    <3>4. users[U(g)] # NoUser \/ U(g) \in erased => users'[U(g)] # NoUser \/ U(g) \in erased'
      BY <1>1, <1>3, <1>6, <3>1
    <3> QED
      BY <1>1, <1>5, <2>2, <3>2, <3>3, <3>4, OthersHandled
  <2> QED
    BY <2>1, <2>2
<1>9. OneUserPerAddress'
  BY <1>7 DEF IInv, OneUserPerAddress
<1>10. ErasureHolds'
  BY <1>1, <1>7 DEF IInv, ErasureHolds, ErasedStaysErased, ErasureIsOnRecord
<1>11. ASSUME NEW u \in Users PROVE Worth(u)'
  <2>1. Redeeming(u)' \subseteq Redeeming(u) /\ (Live(u)' => Live(u))
    BY <1>1, <1>5, RedeemingMoved
  <2>2. /\ Worth(u) /\ issued[u] \in Nat /\ redeemed[u] \in Nat /\ issued'[u] = issued[u]
    BY <1>1 DEF IInv, TypeOK
  <2>3. CASE job[h].op = "redeem" /\ u = U(h)
    <3>1. h \in Redeeming(u) /\ h \notin Redeeming(u)'
      BY <1>1, <1>5, <2>3 DEF Redeeming
    <3>2. IsFiniteSet(Redeeming(u)) /\ Redeeming(u)' \subseteq Redeeming(u) \ {h}
      BY <2>1, <3>1, AccountsAssumption, FS_Subset DEF Redeeming
    <3>3. /\ Cardinality(Redeeming(u)') <= Cardinality(Redeeming(u)) - 1
          /\ Cardinality(Redeeming(u)') \in Nat /\ Cardinality(Redeeming(u)) \in Nat
      <4>1. /\ IsFiniteSet(Redeeming(u) \ {h})
            /\ Cardinality(Redeeming(u) \ {h}) = Cardinality(Redeeming(u)) - 1
        BY <3>1, <3>2, FS_RemoveElement
      <4> QED
        BY <3>2, <4>1, FS_Subset, FS_CardinalityType
    <3>4. redeemed'[u] = redeemed[u] + 1
      BY <1>1, <2>3 DEF TypeOK
    <3> QED
      BY <2>1, <2>2, <3>3, <3>4 DEF Worth
  <2>4. CASE ~(job[h].op = "redeem" /\ u = U(h))
    <3>1. redeemed'[u] = redeemed[u]
      BY <1>1, <2>4 DEF TypeOK
    <3> QED
      BY <1>1, <1>4, <2>1, <2>2, <3>1, WorthKept
  <2> QED
    BY <2>3, <2>4
<1> QED
  BY <1>4, <1>8, <1>9, <1>10, <1>11 DEF IInv

(* A row that is deleted, or whose erasure is put on record: no user and   *)
(* no invite comes of it.                                                  *)
LEMMA ErasingKeeps ==
    ASSUME IInv, TypeOK', NEW h \in Handlers, OnlyMoves(h), Handling(h)',
           job'[h].op = "erase",
           \A u \in Users : users'[u] # NoUser => users'[u] = users[u],
           \A u \in Users : users[u] # NoUser /\ users'[u] = NoUser =>
               u \in erased' /\ \A g \in Handlers \ {h} : U(g) = u => at[g] # "write",
           erased \subseteq erased', audited \subseteq audited', unrecorded => unrecorded',
           \A u \in erased' \ erased :
               users[u] # NoUser /\ users'[u] = NoUser /\ (u \in audited' \/ unrecorded'),
           \A u \in Users : invites[u].spent => invites'[u].spent,
           UNCHANGED <<issued, redeemed>>
    PROVE  IInv'
<1>1. Present' \subseteq Present /\ \A u \in Present' : users'[u] = users[u]
  BY DEF Present
<1>2. ASSUME NEW g \in Handlers PROVE Handling(g)'
  <2>1. CASE g = h
    BY <2>1
  <2>2. CASE g # h
    <3>1. Handling(g) /\ U(g) \in Users /\ job'[g] = job[g]
      BY <2>2, TypeFacts DEF OnlyMoves
    <3>2. at[g] = "write" => users'[U(g)] = users[U(g)]
      BY <2>2, <3>1 DEF Handling, Reads
    <3>3. ASSUME job[g].op = "create"
          PROVE  /\ users'[U(g)] = NoUser /\ U(g) \notin erased'
                 /\ at[g] = "insert" => ~Taken(job[g].address)'
      <4>1. users[U(g)] = NoUser /\ U(g) \notin erased
        BY <3>1, <3>3 DEF Handling, Creates
      <4>2. Taken(job[g].address)' => Taken(job[g].address)
        BY <1>1, <3>1 DEF Taken
      <4> QED
        BY <3>1, <3>3, <4>1, <4>2 DEF Handling, Creates
    <3>4. job'[h].op # "create"
      OBVIOUS
    <3> QED
      BY <2>2, <3>1, <3>2, <3>3, <3>4, OthersHandled
  <2> QED
    BY <2>1, <2>2
<1>3. OneUserPerAddress'
  BY <1>1 DEF IInv, OneUserPerAddress
<1>4. ErasureHolds'
  <2>1. ErasureIsOnRecord'
    BY DEF IInv, ErasureHolds, ErasureIsOnRecord
  <2>2. ErasedStaysErased'
    BY <1>1 DEF IInv, ErasureHolds, ErasedStaysErased, Present
  <2> QED
    BY <2>1, <2>2 DEF ErasureHolds
<1>5. ASSUME NEW u \in Users PROVE Worth(u)'
  <2>1. Redeeming(u)' \subseteq Redeeming(u) /\ (Live(u)' => Live(u))
    BY RedeemingMoved DEF IInv
  <2>2. Worth(u) /\ issued[u] \in Nat /\ TypeOK
    BY DEF IInv, TypeOK
  <2> QED
    BY <2>1, <2>2, WorthKept
<1> QED
  BY <1>2, <1>3, <1>4, <1>5 DEF IInv

LEMMA RecordsErasure ==
    ASSUME IInv, NEW h \in Handlers, RecordErasure(h)
    PROVE  IInv'
<1>1. /\ TypeOK /\ Handling(h) /\ U(h) \in Users /\ job[h] \in Job /\ at[h] = "record"
      /\ audited \subseteq audited' /\ audited' \subseteq audited \cup {U(h)}
      /\ unrecorded' \in {unrecorded, TRUE} /\ (U(h) \in audited' \/ unrecorded' = TRUE)
      /\ faults' \in Nat
      /\ at' = [at EXCEPT ![h] = "erase"]
      /\ UNCHANGED <<users, invites, locks, job, row, invite,
                     issued, redeemed, superseded, accepted, erased, tokens, requests>>
  <2>1. faults \in Nat /\ unrecorded \in BOOLEAN
    BY DEF IInv, TypeOK
  <2>2. CASE audited' = audited \cup {U(h)} /\ UNCHANGED <<unrecorded, faults>>
    BY <2>1, <2>2, TypeFacts DEF IInv, RecordErasure, Go
  <2>3. CASE unrecorded' = TRUE /\ Fault /\ UNCHANGED audited
    <3>1. faults' \in Nat
      BY <2>1, <2>3 DEF Fault
    <3> QED
      BY <3>1, <2>3, TypeFacts DEF IInv, RecordErasure, Go
  <2> QED
    BY <2>2, <2>3 DEF RecordErasure
<1>2. job[h].op = "erase"
  BY <1>1 DEF Handling, Placed, PlacesOf, Job, Ops
<1>3. TypeOK'
  <2>1. audited' \subseteq Users /\ at' \in [Handlers -> Places]
    BY <1>1 DEF TypeOK, Places
  <2>2. unrecorded' \in BOOLEAN
    BY <1>1 DEF TypeOK
  <2> QED
    BY <1>1, <2>1, <2>2 DEF TypeOK, locks
<1>4. OnlyMoves(h) /\ at'[h] = "erase" /\ job'[h] = job[h] /\ U(h)' = U(h)
  BY <1>1 DEF TypeOK, OnlyMoves, U, locks
<1>5. Handling(h)'
  BY <1>1, <1>2, <1>4 DEF Handling, Placed, PlacesOf, Locked, Reads, Creates, Erases
<1> QED
  <2>1. unrecorded => unrecorded'
    BY <1>1
  <2>2. \A u \in Users : users'[u] = users[u] /\ invites'[u] = invites[u]
    BY <1>1
  <2> QED
    BY <1>1, <1>2, <1>3, <1>4, <1>5, <2>1, <2>2, ErasingKeeps

LEMMA DeletesUser ==
    ASSUME IInv, NEW h \in Handlers, DeleteUser(h)
    PROVE  IInv'
<1>1. /\ TypeOK /\ Handling(h) /\ U(h) \in Users /\ job[h] \in Job /\ h # Nobody
      /\ at[h] = "erase" /\ userLock[U(h)] = Nobody
      /\ userLock' = [userLock EXCEPT ![U(h)] = h]
      /\ users' = [users EXCEPT ![U(h)] = NoUser]
      /\ erased' = erased \cup {U(h)}
      /\ at' = [at EXCEPT ![h] = "uninvite"]
      /\ UNCHANGED <<invites, audited, inviteLock, addressLock, job, row, invite,
                     issued, redeemed, superseded, accepted, unrecorded, tokens, requests, faults>>
  BY TypeFacts DEF IInv, DeleteUser, Go
<1>2. job[h].op = "erase"
  BY <1>1 DEF Handling, Placed, PlacesOf, Job, Ops
<1>3. /\ users[U(h)] # NoUser \/ U(h) \in erased
      /\ U(h) \in audited \/ unrecorded
  BY <1>1, <1>2 DEF Handling, Erases
<1>4. TypeOK'
  BY <1>1 DEF TypeOK, Places
<1>5. OnlyMoves(h) /\ at'[h] = "uninvite" /\ job'[h] = job[h] /\ U(h)' = U(h)
  BY <1>1 DEF TypeOK, OnlyMoves, U
<1>6. \A u \in Users : users'[u] = IF u = U(h) THEN NoUser ELSE users[u]
  BY <1>1 DEF TypeOK
<1>7. Handling(h)'
  BY <1>1, <1>2, <1>3, <1>5 DEF Handling, Placed, PlacesOf, Locked, Reads, Creates, Erases
<1>8. \A g \in Handlers \ {h} : U(g) = U(h) => at[g] # "write"
  <2>1. SUFFICES ASSUME NEW g \in Handlers, U(g) = U(h), at[g] = "write" PROVE FALSE
    OBVIOUS
  <2>2. userLock[U(g)] = g /\ g # Nobody
    BY <2>1, TypeFacts DEF Handling, Locked
  <2> QED
    BY <1>1, <2>1, <2>2
<1> QED
  BY <1>1, <1>2, <1>3, <1>4, <1>5, <1>6, <1>7, <1>8, ErasingKeeps

LEMMA DeletesInvite ==
    ASSUME IInv, NEW h \in Handlers, DeleteInvite(h)
    PROVE  IInv'
<1>1. /\ TypeOK /\ Handling(h) /\ U(h) \in Users /\ job[h] \in Job /\ h # Nobody
      /\ at[h] = "uninvite" /\ Answer(h)
      /\ invites' = [invites EXCEPT ![U(h)] = NoInvite]
      /\ UNCHANGED <<users, audited, issued, redeemed, superseded, accepted, erased, unrecorded,
                     tokens, requests, faults>>
  BY TypeFacts DEF IInv, DeleteInvite, history
<1>2. TypeOK'
  BY <1>1, Blanks, AnswerType DEF TypeOK
<1>3. OnlyMoves(h) /\ at'[h] = "idle" /\ job'[h] = NoJob /\ Handling(h)' /\ job'[h].op = "none"
  BY <1>1, AnswerMoves, IdleHandled DEF NoJob
<1>4. \A u \in Users : invites[u].spent => invites'[u].spent
  BY <1>1 DEF TypeOK, NoInvite
<1>5. OneUserPerAddress' /\ ErasureHolds'
  BY <1>1 DEF IInv, OneUserPerAddress, ErasureHolds, ErasedStaysErased, ErasureIsOnRecord, Present
<1>6. ASSUME NEW g \in Handlers PROVE Handling(g)'
  <2>1. CASE g = h
    BY <1>3, <2>1
  <2>2. CASE g # h
    <3>1. Handling(g) /\ job'[g] = job[g]
      BY <1>3, <2>2, TypeFacts DEF OnlyMoves
    <3>2. ~Taken(job[g].address) => ~Taken(job[g].address)'
      BY <1>1, <3>1 DEF Taken, Present
    <3> QED
      BY <1>1, <1>3, <2>2, <3>1, <3>2, OthersHandled DEF Handling, Creates
  <2> QED
    BY <2>1, <2>2
<1>7. ASSUME NEW u \in Users PROVE Worth(u)'
  <2>1. Redeeming(u)' \subseteq Redeeming(u) /\ (Live(u)' => Live(u))
    BY <1>1, <1>3, <1>4, RedeemingMoved
  <2>2. Worth(u) /\ issued[u] \in Nat
    BY <1>1 DEF IInv, TypeOK
  <2> QED
    BY <1>1, <1>2, <2>1, <2>2, WorthKept
<1> QED
  BY <1>2, <1>5, <1>6, <1>7 DEF IInv

(* What a change of an invite leaves of the rest.                          *)
LEMMA InvitesOnly ==
    ASSUME IInv, TypeOK', NEW h \in Handlers, OnlyMoves(h), Handling(h)', job'[h].op # "create",
           UNCHANGED <<users, audited, erased, unrecorded>>,
           \A u \in Users : Worth(u)'
    PROVE  IInv'
<1>1. OneUserPerAddress' /\ ErasureHolds'
  BY DEF IInv, OneUserPerAddress, ErasureHolds, ErasedStaysErased, ErasureIsOnRecord, Present
<1>2. ASSUME NEW g \in Handlers PROVE Handling(g)'
  <2>1. CASE g = h
    BY <2>1
  <2>2. CASE g # h
    <3>1. Handling(g) /\ job'[g] = job[g]
      BY <2>2, TypeFacts DEF OnlyMoves
    <3>2. ~Taken(job[g].address) => ~Taken(job[g].address)'
      BY <3>1 DEF Taken, Present
    <3> QED
      BY <2>2, <3>1, <3>2, OthersHandled DEF Handling, Creates
  <2> QED
    BY <2>1, <2>2
<1> QED
  BY <1>1, <1>2 DEF IInv

(* Nobody else is between its look at an invite and its write.             *)
LEMMA Alone ==
    ASSUME IInv, NEW h \in Handlers, at[h] = "spend", NEW g \in Handlers, at[g] = "spend", U(g) = U(h)
    PROVE  g = h
BY TypeFacts DEF Handling, Locked

LEMMA StoresInvite ==
    ASSUME IInv, NEW h \in Handlers, StoreInvite(h)
    PROVE  IInv'
<1>1. /\ TypeOK /\ U(h) \in Users /\ job[h] \in Job
      /\ at[h] = "spend" /\ job[h].op = "issue" /\ Answer(h)
      /\ invites' = [invites EXCEPT ![U(h)] = [token |-> job[h].token, spent |-> FALSE]]
      /\ issued' = [issued EXCEPT ![U(h)] = @ + 1]
      /\ superseded' = superseded \cup {t \in {invites[U(h)].token} : ~invites[U(h)].spent}
      /\ UNCHANGED <<users, audited, redeemed, accepted, erased, unrecorded, tokens, requests, faults>>
  BY TypeFacts DEF IInv, StoreInvite
<1>2. TypeOK'
  <2>1. [token |-> job[h].token, spent |-> FALSE] \in Invite /\ invites[U(h)].token \in Nat
    BY <1>1, TypeFacts DEF Invite, TypeOK
  <2>2. invites' \in [Users -> Invite] /\ issued' \in [Users -> Nat]
    BY <1>1, <2>1 DEF TypeOK
  <2>3. superseded' \subseteq Nat
    BY <1>1, <2>1 DEF TypeOK
  <2>4. /\ at' \in [Handlers -> Places] /\ job' \in [Handlers -> Job]
        /\ row' \in [Handlers -> User \cup {NoUser}] /\ invite' \in [Handlers -> Invite]
        /\ userLock' \in [Users -> Handlers \cup {Nobody}]
        /\ inviteLock' \in [Users -> Handlers \cup {Nobody}]
        /\ addressLock' \in [Addresses -> Handlers \cup {Nobody}]
    BY <1>1, AnswerType
  <2>5. /\ TypeOK
        /\ UNCHANGED <<users, audited, redeemed, accepted, erased, unrecorded, tokens, requests, faults>>
    BY <1>1
  <2> QED
    BY <2>2, <2>3, <2>4, <2>5 DEF TypeOK
<1>3. OnlyMoves(h) /\ Handling(h)' /\ job'[h].op = "none"
  <2>1. OnlyMoves(h) /\ at'[h] = "idle" /\ job'[h] = NoJob /\ row'[h] = NoUser
    BY <1>1, AnswerMoves
  <2> QED
    BY <2>1, IdleHandled DEF NoJob
<1>4. ASSUME NEW u \in Users PROVE Worth(u)'
  <2>1. Worth(u) /\ issued[u] \in Nat /\ redeemed[u] \in Nat
    BY <1>1 DEF IInv, TypeOK
  <2>2. Redeeming(u)' \subseteq Redeeming(u)
    BY <1>3 DEF Redeeming, OnlyMoves, U
  <2>3. CASE u # U(h)
    <3>1. invites'[u] = invites[u] /\ issued'[u] = issued[u]
      BY <1>1, <2>3 DEF TypeOK
    <3>2. Live(u)' => Live(u)
      BY <1>1, <1>3, <3>1, RedeemingMoved
    <3> QED
      BY <1>1, <1>2, <2>1, <2>2, <3>1, <3>2, WorthKept
  <2>4. CASE u = U(h)
    <3>1. issued'[u] = issued[u] + 1 /\ redeemed'[u] = redeemed[u]
      BY <1>1, <2>4 DEF TypeOK
    <3>2. /\ Cardinality(Redeeming(u)') <= Cardinality(Redeeming(u))
          /\ Cardinality(Redeeming(u)') \in Nat /\ Cardinality(Redeeming(u)) \in Nat
      <4>1. IsFiniteSet(Redeeming(u))
        BY AccountsAssumption, FS_Subset DEF Redeeming
      <4> QED
        BY <2>2, <4>1, FS_Subset, FS_CardinalityType
    <3> QED
      BY <2>1, <3>1, <3>2 DEF Worth
  <2> QED
    BY <2>3, <2>4
<1> QED
  BY <1>1, <1>2, <1>3, <1>4, InvitesOnly

LEMMA SpendsInvite ==
    ASSUME IInv, NEW h \in Handlers, SpendInvite(h)
    PROVE  IInv'
<1>1. /\ TypeOK /\ Handling(h) /\ U(h) \in Users /\ job[h] \in Job /\ h # Nobody
      /\ at[h] = "spend" /\ job[h].op = "redeem"
      /\ invites' = [invites EXCEPT ![U(h)] = [invite[h] EXCEPT !.spent = TRUE]]
      /\ accepted' = accepted \cup {job[h].token}
      /\ inviteLock' = Released(inviteLock, h)
      /\ at' = [at EXCEPT ![h] = "lock"]
      /\ UNCHANGED <<users, audited, userLock, addressLock, job, row, invite,
                     issued, redeemed, superseded, erased, unrecorded, tokens, requests, faults>>
  BY TypeFacts DEF IInv, SpendInvite, Go
<1>2. TypeOK'
  <2>1. [invite[h] EXCEPT !.spent = TRUE] \in Invite /\ job[h].token \in Nat
    BY <1>1, TypeFacts DEF TypeOK, Invite
  <2>2. inviteLock' \in [Users -> Handlers \cup {Nobody}]
    BY <1>1, ReleasedType DEF TypeOK
  <2>3. invites' \in [Users -> Invite] /\ accepted' \subseteq Nat
    BY <1>1, <2>1 DEF TypeOK
  <2> QED
    BY <1>1, <2>2, <2>3 DEF TypeOK, Places
<1>3. OnlyMoves(h) /\ at'[h] = "lock" /\ job'[h] = job[h] /\ U(h)' = U(h)
  <2>1. \A u \in Users : inviteLock[u] # h => inviteLock'[u] = inviteLock[u]
    BY <1>1, ReleasedType DEF TypeOK
  <2> QED
    BY <1>1, <2>1 DEF TypeOK, OnlyMoves, U
<1>4. Handling(h)'
  BY <1>1, <1>3 DEF Handling, Placed, PlacesOf, Locked, Reads, Creates, Erases
<1>5. ASSUME NEW u \in Users PROVE Worth(u)'
  <2>1. Worth(u) /\ issued[u] \in Nat /\ redeemed[u] \in Nat
    BY <1>1 DEF IInv, TypeOK
  <2>2. CASE u # U(h)
    <3>1. invites'[u] = invites[u]
      BY <1>1, <2>2 DEF TypeOK
    <3>2. Redeeming(u)' \subseteq Redeeming(u) /\ (Live(u)' => Live(u))
      BY <1>1, <1>3, <2>2, <3>1, RedeemingMoved
    <3> QED
      BY <1>1, <1>2, <2>1, <3>2, WorthKept
  <2>3. CASE u = U(h)
    <3>1. Live(u)
      BY <1>1, <2>3 DEF Live
    <3>2. ~Live(u)'
      <4>1. invites'[u].spent
        BY <1>1, <2>3 DEF TypeOK, Invite
      <4>2. \A g \in Handlers : ~(job'[g].op = "redeem" /\ U(g)' = u /\ at'[g] = "spend")
        <5>1. SUFFICES ASSUME NEW g \in Handlers, U(g)' = u, at'[g] = "spend" PROVE FALSE
          OBVIOUS
        <5>2. g # h /\ at[g] = "spend" /\ U(g) = U(h)
          BY <1>3, <2>3, <5>1 DEF OnlyMoves, U
        <5> QED
          BY <1>1, <5>2, Alone
      <4> QED
        BY <4>1, <4>2 DEF Live
    <3>3. Redeeming(u)' = Redeeming(u) \cup {h} /\ h \notin Redeeming(u)
      <4>1. \A g \in Handlers : g # h => (g \in Redeeming(u)' <=> g \in Redeeming(u))
        BY <1>3 DEF Redeeming, OnlyMoves, U
      <4>2. h \in Redeeming(u)' /\ h \notin Redeeming(u)
        BY <1>1, <1>3, <2>3 DEF Redeeming
      <4> QED
        BY <4>1, <4>2 DEF Redeeming
    <3>4. Cardinality(Redeeming(u)') = Cardinality(Redeeming(u)) + 1 /\ Cardinality(Redeeming(u)) \in Nat
      <4>1. IsFiniteSet(Redeeming(u))
        BY AccountsAssumption, FS_Subset DEF Redeeming
      <4> QED
        BY <3>3, <4>1, FS_AddElement, FS_CardinalityType
    <3>5. issued'[u] = issued[u] /\ redeemed'[u] = redeemed[u]
      BY <1>1
    <3> QED
      BY <2>1, <3>1, <3>2, <3>4, <3>5 DEF Worth
  <2> QED
    BY <2>2, <2>3
<1> QED
  BY <1>1, <1>2, <1>3, <1>4, <1>5, InvitesOnly

-----------------------------------------------------------------------------
(* The whole of it.                                                        *)

LEMMA Beginning == Init => IInv
<1> SUFFICES ASSUME Init PROVE IInv
  OBVIOUS
<1>1. PICK address \in [Founders -> Addresses] :
          /\ \A u, v \in Founders : address[u] = address[v] => u = v
          /\ users = [u \in Users |->
                IF u \in Founders
                THEN [address |-> address[u], role |-> "admin", status |-> "active", password |-> 0]
                ELSE NoUser]
  BY DEF Init
<1>2. \A u \in Founders : /\ users[u] \in User /\ users[u].address = address[u]
                          /\ users[u] # NoUser
  BY <1>1, AccountsAssumption, NoUserAssumption DEF User, Roles, Statuses
<1>3. Present \subseteq Founders
  BY <1>1 DEF Present
<1>4. TypeOK
  <2>1. users \in [Users -> User \cup {NoUser}]
    BY <1>1, <1>2
  <2> QED
    BY <2>1, Blanks DEF Init, TypeOK, Places
<1>5. ASSUME NEW h \in Handlers PROVE Handling(h)
  <2>1. at[h] = "idle" /\ job[h] = NoJob /\ row[h] = NoUser
    BY DEF Init
  <2> QED
    BY <2>1 DEF Handling, Placed, PlacesOf, Locked, Reads, Creates, Erases, NoJob
<1>6. OneUserPerAddress
  <2>1. SUFFICES ASSUME NEW u \in Present, NEW v \in Present, users[u].address = users[v].address
                 PROVE  u = v
    BY DEF OneUserPerAddress
  <2>2. u \in Founders /\ v \in Founders /\ address[u] = address[v]
    BY <1>2, <1>3, <2>1
  <2> QED
    BY <1>1, <2>2
<1>7. ErasureHolds
  BY DEF Init, ErasureHolds, ErasedStaysErased, ErasureIsOnRecord
<1>8. ASSUME NEW u \in Users PROVE Worth(u)
  <2>1. Redeeming(u) = {} /\ ~Live(u)
    BY DEF Init, Redeeming, Live, NoJob, NoInvite
  <2>2. redeemed[u] = 0 /\ issued[u] = 0
    BY DEF Init
  <2> QED
    BY <2>1, <2>2, FS_EmptySet DEF Worth
<1> QED
  BY <1>4, <1>5, <1>6, <1>7, <1>8 DEF IInv

LEMMA GivesUp ==
    ASSUME IInv, NEW h \in Handlers, GiveUp(h)
    PROVE  IInv'
<1>1. /\ Answer(h) /\ UNCHANGED <<store, history, tokens, requests>> /\ faults' = faults + 1
      /\ tokens \in Nat /\ requests \in Nat /\ faults \in Nat
  BY DEF GiveUp, Fault, IInv, TypeOK
<1> QED
  BY <1>1, Answering

LEMMA Stepping == IInv /\ [Next]_vars => IInv'
<1>1. SUFFICES ASSUME IInv, [Next]_vars PROVE IInv'
  OBVIOUS
<1>2. CASE UNCHANGED vars
  BY <1>1, <1>2 DEF vars, store, locks, console, history, IInv, TypeOK, Handling, Placed, Locked, Reads,
                    Creates, Erases, Taken, Present, U, OneUserPerAddress, ErasureHolds,
                    ErasedStaysErased, ErasureIsOnRecord, Worth, Redeeming, Live
<1>3. ASSUME NEW h \in Handlers, Serves(h) PROVE IInv'
  <2>1. CASE LockAddress(h) \/ InsertUser(h)
    BY <1>1, <2>1, LocksAddress, InsertsUser
  <2>2. CASE LockUser(h) \/ WriteUser(h)
    BY <1>1, <2>2, LocksUser, WritesUser
  <2>3. CASE ReadUser(h) \/ CountAdmins(h) \/ RecordErasure(h) \/ DeleteUser(h) \/ DeleteInvite(h)
    BY <1>1, <2>3, ReadsUser, CountsAdmins, RecordsErasure, DeletesUser, DeletesInvite
  <2>4. CASE MintToken(h) \/ LockInvite(h) \/ StoreInvite(h)
    BY <1>1, <2>4, MintsToken, LocksInvite, StoresInvite
  <2>5. CASE FindInvite(h) \/ FindInvited(h) \/ LockForRedemption(h) \/ SpendInvite(h) \/ GiveUp(h)
    BY <1>1, <2>5, FindsInvite, FindsInvited, LocksForRedemption, SpendsInvite, GivesUp
  <2> QED
    BY <1>3, <2>1, <2>2, <2>3, <2>4, <2>5 DEF Serves
<1> QED
  BY <1>1, <1>2, <1>3, Begins DEF Next

(* The inductive invariant.                                                *)
THEOREM Invariance == Spec => []IInv
BY Beginning, Stepping, PTL DEF Spec

(* The state keeps its types, whatever is asked and whatever fails.        *)
THEOREM TypeCorrect == Spec => []TypeOK
<1>1. IInv => TypeOK
  BY DEF IInv
<1> QED
  BY <1>1, Invariance, PTL

(* No address has two accounts and no invite is worth two passwords,       *)
(* however many admins and holders of links act at once and wherever their *)
(* requests fail (UserRepo.Create, InviteRepo.MarkRedeemed).               *)
THEOREM SingleAccounts == Spec => []AccountsAreSingle
<1>1. IInv => AccountsAreSingle
  <2>1. ASSUME IInv, NEW u \in Users PROVE redeemed[u] <= issued[u]
    <3>1. IsFiniteSet(Redeeming(u))
      BY AccountsAssumption, FS_Subset DEF Redeeming
    <3>2. Cardinality(Redeeming(u)) \in Nat
      BY <3>1, FS_CardinalityType
    <3>3. Worth(u) /\ redeemed[u] \in Nat /\ issued[u] \in Nat
      BY <2>1 DEF IInv, TypeOK
    <3> QED
      BY <3>2, <3>3 DEF Worth
  <2> QED
    BY <2>1 DEF IInv, AccountsAreSingle, OnePasswordPerInvite
<1> QED
  BY <1>1, Invariance, PTL

(* What is erased stays erased, whatever edit, redemption or creation was  *)
(* under way, and the erasure was on record first (UserRepo.Erase,         *)
(* AdminService.EraseUser).                                                *)
THEOREM ErasureIsFinal == Spec => []ErasureHolds
<1>1. IInv => ErasureHolds
  BY DEF IInv
<1> QED
  BY <1>1, Invariance, PTL

(* What a step may do to a row: A of WritesWhatWasAsked.                   *)
Asked ==
    \A u \in Present :
       users'[u] \notin {users[u], NoUser} =>
          \E h \in Handlers :
             /\ at[h] = "write" /\ at'[h] = "idle"
             /\ U(h) = u
             /\ Honours(h, users[u], users'[u])

LEMMA UntouchedIsAsked ==
    ASSUME \A u \in Users : users'[u] = users[u] \/ users[u] = NoUser \/ users'[u] = NoUser
    PROVE  Asked
BY DEF Asked, Present

(* What was made of the row the handler has read honours the request.      *)
LEMMA MutatedHonours ==
    ASSUME NEW h \in Handlers, row[h] \in User, job[h].op \in {"edit", "redeem"}
    PROVE  Honours(h, row[h], Mutated(h))
<1>1. CASE job[h].op = "edit"
  BY <1>1 DEF Honours, Mutated, Edited, User
<1>2. CASE job[h].op = "redeem"
  BY <1>2 DEF Honours, Mutated, WithPassword, User
<1> QED
  BY <1>1, <1>2

(* The row the handler has read is the row that is there: it holds the     *)
(* lock.                                                                   *)
LEMMA WriteIsAsked ==
    ASSUME IInv, NEW h \in Handlers, WriteUser(h)
    PROVE  Asked
<1>1. /\ TypeOK /\ Handling(h) /\ U(h) \in Users /\ job[h] \in Job /\ at[h] = "write"
      /\ users' = [users EXCEPT ![U(h)] = Mutated(h)]
  BY TypeFacts DEF IInv, WriteUser
<1>2. row[h] = users[U(h)] /\ row[h] \in User /\ job[h].op \in {"edit", "redeem"}
  BY <1>1 DEF Handling, Reads, Placed, PlacesOf, Job, Ops, TypeOK
<1>3. \A u \in Users : users'[u] = IF u = U(h) THEN Mutated(h) ELSE users[u]
  BY <1>1 DEF TypeOK
<1>4. at'[h] = "idle"
  BY <1>1, AnswerMoves DEF WriteUser
<1>5. Honours(h, users[U(h)], users'[U(h)])
  BY <1>1, <1>2, <1>3, MutatedHonours
<1> QED
  BY <1>1, <1>3, <1>4, <1>5 DEF Asked, Present

LEMMA StepIsAsked == IInv /\ [Next]_vars => [Asked]_users
<1>1. SUFFICES ASSUME IInv, [Next]_vars, users' # users PROVE Asked
  OBVIOUS
<1>2. TypeOK
  BY <1>1 DEF IInv
<1>3. PICK h \in Handlers : Asks(h) \/ Serves(h)
  BY <1>1 DEF Next, vars, store
<1>4. InsertUser(h) \/ WriteUser(h) \/ DeleteUser(h)
  BY <1>1, <1>3 DEF Asks, Serves, Create, EditUser, Erase, Issue, Redeem, Start, store,
     LockAddress, LockUser, ReadUser, CountAdmins, RecordErasure, DeleteInvite, MintToken,
     LockInvite, StoreInvite, FindInvite, FindInvited, LockForRedemption, SpendInvite, GiveUp
<1>5. CASE InsertUser(h)
  <2>1. users[U(h)] = NoUser
    BY <1>1, <1>5, TypeFacts DEF InsertUser, Handling, Placed, PlacesOf, Creates, Job, Ops
  <2>2. \A u \in Users : u # U(h) => users'[u] = users[u]
    BY <1>2, <1>5 DEF InsertUser, TypeOK
  <2> QED
    BY <2>1, <2>2, UntouchedIsAsked
<1>6. CASE DeleteUser(h)
  <2>1. \A u \in Users : users'[u] = users[u] \/ users'[u] = NoUser
    BY <1>2, <1>6 DEF DeleteUser, TypeOK
  <2> QED
    BY <2>1, UntouchedIsAsked
<1> QED
  BY <1>1, <1>4, <1>5, <1>6, WriteIsAsked

(* Every change of a row makes of the row that is there what the request   *)
(* that writes it asked for, and nothing written since it began is undone  *)
(* (UserRepo.Update).                                                      *)
THEOREM WritesAreAsked == Spec => WritesWhatWasAsked
<1>1. Spec => [][Asked]_users
  BY Invariance, StepIsAsked, PTL DEF Spec
<1>2. [Asked]_users <=>
      [\A u \in Present :
          users'[u] \notin {users[u], NoUser} =>
             \E h \in Handlers :
                /\ at[h] = "write" /\ at'[h] = "idle"
                /\ U(h) = u
                /\ Honours(h, users[u], users'[u])]_users
  BY DEF Asked
<1> QED
  BY <1>1, <1>2, PTL DEF WritesWhatWasAsked
=============================================================================
