------------------------------ MODULE Accounts ------------------------------
(***************************************************************************)
(* The users of one tenant and their invitations: admins create, edit,     *)
(* invite and erase accounts (service/admin.go, service/invite.go), and    *)
(* the holder of a setup link redeems it for a password.  ClickHouse has   *)
(* neither transactions nor constraints; a lock in Redis per user, invite  *)
(* or address serialises a read with the write that follows it.            *)
(*                                                                         *)
(* A lock is held until its holder is through, and for as long as ten      *)
(* seconds by a holder that crashed; a write takes less.  A handler reads  *)
(* under its lock in one step with taking it.  Signing in rewrites the row *)
(* as an edit does that asks for nothing.                                  *)
(***************************************************************************)
EXTENDS Naturals, FiniteSets

CONSTANTS Handlers,     \* requests in flight
          Users,        \* user ids
          Founders,     \* active admins at the start
          Addresses,
          Edits,        \* what edits ask for
          NoUser,       \* no row
          Nobody,       \* nobody holds the lock
          MaxRequests,  \* bound: requests
          MaxTokens,    \* bound: setup tokens minted
          MaxFaults     \* bound: failed calls and crashes

ASSUME AccountsAssumption ==
    /\ IsFiniteSet(Handlers)
    /\ Users # {} /\ Addresses # {}
    /\ Founders \subseteq Users
    /\ Edits \subseteq [role : {"admin", "analyst", "keep"},
                      status : {"active", "disabled", "invited", "keep"}]
    /\ Nobody \notin Handlers
    /\ MaxTokens \in Nat

VARIABLES
    \* ClickHouse
    users,       \* users[u]: the row of u
    invites,     \* invites[u]: the invite of u
    audited,     \* users whose erasure is on record
    \* Redis
    userLock, inviteLock, addressLock,
    \* the console
    at, job,
    row,         \* row[h]: the user as h last read it
    invite,      \* invite[h]: the invite as h last read it
    \* what has happened
    issued,      \* issued[u]: invites stored for u
    redeemed,    \* redeemed[u]: passwords chosen with an invite
    superseded,  \* unspent tokens another has replaced
    accepted,    \* tokens that spent an invite
    erased,      \* users that were erased
    unrecorded,  \* an entry could not be written
    tokens,      \* tokens minted
    requests, faults

store == <<users, invites, audited>>
locks == <<userLock, inviteLock, addressLock>>
console == <<at, job, row, invite>>
history == <<issued, redeemed, superseded, accepted, erased, unrecorded>>
vars == <<store, locks, console, history, tokens, requests, faults>>

-----------------------------------------------------------------------------
Roles == {"admin", "analyst"}
Statuses == {"active", "disabled", "invited"}
Keep == "keep"

User == [address : Addresses, role : Roles, status : Statuses, password : Nat]

ASSUME NoUserAssumption == NoUser \notin User

Present == {u \in Users : users[u] # NoUser}

(* Token 0 is no invite.                                                   *)
Invite == [token : Nat, spent : BOOLEAN]
NoInvite == [token |-> 0, spent |-> TRUE]

Edit == [role : Roles \cup {Keep}, status : Statuses \cup {Keep}]
NoEdit == [role |-> Keep, status |-> Keep]

Ops == {"none", "create", "edit", "erase", "issue", "redeem"}
Places == {"idle", "insert", "lock", "write", "count", "record", "erase", "uninvite",
           "invite", "issue", "resolve", "mark", "spend"}
Job == [op : Ops, user : Users, address : Addresses, edit : Edit, token : Nat]
NoJob == [op |-> "none", user |-> CHOOSE u \in Users : TRUE,
          address |-> CHOOSE a \in Addresses : TRUE, edit |-> NoEdit, token |-> 0]

TypeOK ==
    /\ users \in [Users -> User \cup {NoUser}]
    /\ invites \in [Users -> Invite]
    /\ audited \subseteq Users /\ erased \subseteq Users
    /\ userLock \in [Users -> Handlers \cup {Nobody}]
    /\ inviteLock \in [Users -> Handlers \cup {Nobody}]
    /\ addressLock \in [Addresses -> Handlers \cup {Nobody}]
    /\ at \in [Handlers -> Places]
    /\ job \in [Handlers -> Job]
    /\ row \in [Handlers -> User \cup {NoUser}]
    /\ invite \in [Handlers -> Invite]
    /\ issued \in [Users -> Nat] /\ redeemed \in [Users -> Nat]
    /\ superseded \subseteq Nat /\ accepted \subseteq Nat
    /\ unrecorded \in BOOLEAN
    /\ tokens \in Nat /\ requests \in Nat /\ faults \in Nat

(* The founders have an address each.                                      *)
Init ==
    /\ \E address \in [Founders -> Addresses] :
          /\ \A u, v \in Founders : address[u] = address[v] => u = v
          /\ users = [u \in Users |->
                IF u \in Founders
                THEN [address |-> address[u], role |-> "admin", status |-> "active", password |-> 0]
                ELSE NoUser]
    /\ invites = [u \in Users |-> NoInvite]
    /\ audited = {} /\ erased = {}
    /\ userLock = [u \in Users |-> Nobody]
    /\ inviteLock = [u \in Users |-> Nobody]
    /\ addressLock = [a \in Addresses |-> Nobody]
    /\ at = [h \in Handlers |-> "idle"]
    /\ job = [h \in Handlers |-> NoJob]
    /\ row = [h \in Handlers |-> NoUser]
    /\ invite = [h \in Handlers |-> NoInvite]
    /\ issued = [u \in Users |-> 0] /\ redeemed = [u \in Users |-> 0]
    /\ superseded = {} /\ accepted = {} /\ unrecorded = FALSE
    /\ tokens = 0 /\ requests = 0 /\ faults = 0

-----------------------------------------------------------------------------
Fault == faults < MaxFaults /\ faults' = faults + 1

Request == requests < MaxRequests /\ requests' = requests + 1

Go(h, where) == at' = [at EXCEPT ![h] = where]

Released(lock, h) == [k \in DOMAIN lock |-> IF lock[k] = h THEN Nobody ELSE lock[k]]

(* The request is answered; whatever its handler held is released.         *)
Answer(h) ==
    /\ Go(h, "idle")
    /\ job' = [job EXCEPT ![h] = NoJob]
    /\ row' = [row EXCEPT ![h] = NoUser]
    /\ invite' = [invite EXCEPT ![h] = NoInvite]
    /\ userLock' = Released(userLock, h)
    /\ inviteLock' = Released(inviteLock, h)
    /\ addressLock' = Released(addressLock, h)

(* A call fails or the process dies, and the rest is not done.  A write    *)
(* that fails and is there all the same is a write, and its answer lost.   *)
GiveUp(h) ==
    /\ at[h] # "idle" /\ Fault
    /\ Answer(h)
    /\ UNCHANGED <<store, history, tokens, requests>>

Start(h, j, where) ==
    /\ at[h] = "idle" /\ Request
    /\ job' = [job EXCEPT ![h] = j]
    /\ Go(h, where)
    /\ UNCHANGED <<store, locks, row, invite, history, tokens, faults>>

U(h) == job[h].user

-----------------------------------------------------------------------------
(* AdminService.CreateUser, UserRepo.Create: an account without a password *)
(* is invited, one with a password of the caller's is active.              *)

Taken(a) == \E u \in Present : users[u].address = a

Fresh(u) == u \notin Present \cup erased \cup {U(h) : h \in {g \in Handlers : job[g].op = "create"}}

Create(h, u, a, role, status) ==
    /\ Fresh(u)
    /\ Start(h, [NoJob EXCEPT !.op = "create", !.user = u, !.address = a,
                              !.edit = [role |-> role, status |-> status]], "lock")

(* A mistake to detect: the address is looked up before its lock is taken, *)
(* which is what comes of no lock.                                         *)
LockAddressUnlocked(h) ==
    /\ at[h] = "lock" /\ job[h].op = "create"
    /\ IF Taken(job[h].address)
       THEN Answer(h)
       ELSE Go(h, "insert") /\ UNCHANGED <<locks, job, row, invite>>
    /\ UNCHANGED <<store, history, tokens, requests, faults>>

LockAddress(h) ==
    /\ at[h] = "lock" /\ job[h].op = "create" /\ addressLock[job[h].address] = Nobody
    /\ IF Taken(job[h].address)
       THEN Answer(h)
       ELSE /\ addressLock' = [addressLock EXCEPT ![job[h].address] = h]
            /\ Go(h, "insert")
            /\ UNCHANGED <<userLock, inviteLock, job, row, invite>>
    /\ UNCHANGED <<store, history, tokens, requests, faults>>

Created(h) == [address |-> job[h].address, role |-> job[h].edit.role,
               status |-> job[h].edit.status, password |-> 0]

InsertUser(h) ==
    /\ at[h] = "insert"
    /\ users' = [users EXCEPT ![U(h)] = Created(h)]
    /\ Answer(h)
    /\ UNCHANGED <<invites, audited, history, tokens, requests, faults>>

-----------------------------------------------------------------------------
(* UserRepo.Update, of UpdateUser, DeleteUser, RecordLogin and the second  *)
(* half of a redemption.                                                   *)

EditUser(h, u, edit) ==
    Start(h, [NoJob EXCEPT !.op = "edit", !.user = u, !.edit = edit], "lock")

Rewrites(h) == at[h] = "lock" /\ job[h].op \in {"edit", "redeem"}

(* A mistake to detect: nothing keeps a second writer out.                 *)
LockUserNoop(h) ==
    /\ Rewrites(h)
    /\ IF users[U(h)] = NoUser
       THEN Answer(h)
       ELSE /\ row' = [row EXCEPT ![h] = users[U(h)]]
            /\ Go(h, "write")
            /\ UNCHANGED <<locks, job, invite>>
    /\ UNCHANGED <<store, history, tokens, requests, faults>>

LockUser(h) ==
    /\ Rewrites(h) /\ userLock[U(h)] = Nobody
    /\ IF users[U(h)] = NoUser
       THEN Answer(h)
       ELSE /\ userLock' = [userLock EXCEPT ![U(h)] = h]
            /\ row' = [row EXCEPT ![h] = users[U(h)]]
            /\ Go(h, "write")
            /\ UNCHANGED <<inviteLock, addressLock, job, invite>>
    /\ UNCHANGED <<store, history, tokens, requests, faults>>

(* The edit asks for some fields, the redemption for a password; only an   *)
(* account that awaits its setup is activated by one.                      *)
Edited(r, e) ==
    [r EXCEPT !.role = IF e.role = Keep THEN @ ELSE e.role,
              !.status = IF e.status = Keep THEN @ ELSE e.status]

WithPassword(r, token) ==
    [r EXCEPT !.password = token, !.status = IF @ = "invited" THEN "active" ELSE @]

Mutated(h) ==
    IF job[h].op = "edit" THEN Edited(row[h], job[h].edit) ELSE WithPassword(row[h], job[h].token)

WriteUser(h) ==
    /\ at[h] = "write"
    /\ users' = [users EXCEPT ![U(h)] = Mutated(h)]
    /\ redeemed' = IF job[h].op = "redeem" THEN [redeemed EXCEPT ![U(h)] = @ + 1] ELSE redeemed
    /\ Answer(h)
    /\ UNCHANGED <<invites, audited, issued, superseded, accepted, erased, unrecorded,
                   tokens, requests, faults>>

-----------------------------------------------------------------------------
(* AdminService.EraseUser, UserRepo.Erase.                                 *)

Admins == {u \in Present : users[u].role = "admin" /\ users[u].status = "active"}

Erase(h, u) == Start(h, [NoJob EXCEPT !.op = "erase", !.user = u], "count")

(* The user is read, then the active admins are counted, without a lock.   *)
ReadUser(h) ==
    /\ at[h] = "count" /\ row[h] = NoUser
    /\ IF users[U(h)] = NoUser
       THEN Answer(h)
       ELSE row' = [row EXCEPT ![h] = users[U(h)]] /\ UNCHANGED <<locks, at, job, invite>>
    /\ UNCHANGED <<store, history, tokens, requests, faults>>

CountAdmins(h) ==
    /\ at[h] = "count" /\ row[h] # NoUser
    /\ IF row[h].role = "admin" /\ row[h].status = "active" /\ Cardinality(Admins) <= 1
       THEN Answer(h)
       ELSE Go(h, "record") /\ UNCHANGED <<locks, job, row, invite>>
    /\ UNCHANGED <<store, history, tokens, requests, faults>>

(* The entry is written first; that it cannot be is only counted.          *)
RecordErasure(h) ==
    /\ at[h] = "record"
    /\ \/ audited' = audited \cup {U(h)} /\ UNCHANGED <<unrecorded, faults>>
       \/ unrecorded' = TRUE /\ Fault /\ UNCHANGED audited
    /\ Go(h, "erase")
    /\ UNCHANGED <<users, invites, locks, job, row, invite,
                   issued, redeemed, superseded, accepted, erased, tokens, requests>>

(* A mistake to detect: the row is deleted under a lock of its own.        *)
DeleteUserUnlocked(h) ==
    /\ at[h] = "erase"
    /\ users' = [users EXCEPT ![U(h)] = NoUser]
    /\ erased' = erased \cup {U(h)}
    /\ Go(h, "uninvite")
    /\ UNCHANGED <<invites, audited, locks, job, row, invite,
                   issued, redeemed, superseded, accepted, unrecorded, tokens, requests, faults>>

DeleteUser(h) ==
    /\ at[h] = "erase" /\ userLock[U(h)] = Nobody
    /\ userLock' = [userLock EXCEPT ![U(h)] = h]
    /\ users' = [users EXCEPT ![U(h)] = NoUser]
    /\ erased' = erased \cup {U(h)}
    /\ Go(h, "uninvite")
    /\ UNCHANGED <<invites, audited, inviteLock, addressLock, job, row, invite,
                   issued, redeemed, superseded, accepted, unrecorded, tokens, requests, faults>>

DeleteInvite(h) ==
    /\ at[h] = "uninvite"
    /\ invites' = [invites EXCEPT ![U(h)] = NoInvite]
    /\ Answer(h)
    /\ UNCHANGED <<users, audited, history, tokens, requests, faults>>

-----------------------------------------------------------------------------
(* AdminService.IssueUserInvite, InviteRepo.Issue.                         *)

Issue(h, u) == Start(h, [NoJob EXCEPT !.op = "issue", !.user = u], "invite")

(* The user is read and a token minted before the invite is locked.        *)
MintToken(h) ==
    /\ at[h] = "invite" /\ job[h].op = "issue" /\ tokens < MaxTokens
    /\ IF users[U(h)] = NoUser \/ users[U(h)].status = "disabled"
       THEN Answer(h) /\ UNCHANGED tokens
       ELSE /\ tokens' = tokens + 1
            /\ job' = [job EXCEPT ![h].token = tokens + 1]
            /\ Go(h, "issue")
            /\ UNCHANGED <<locks, row, invite>>
    /\ UNCHANGED <<store, history, requests, faults>>

LockInvite(h) ==
    /\ at[h] = "issue" /\ inviteLock[U(h)] = Nobody
    /\ inviteLock' = [inviteLock EXCEPT ![U(h)] = h]
    /\ invite' = [invite EXCEPT ![h] = invites[U(h)]]
    /\ Go(h, "spend")
    /\ UNCHANGED <<store, userLock, addressLock, job, row, history, tokens, requests, faults>>

(* The new token takes the place of the old.                               *)
StoreInvite(h) ==
    /\ at[h] = "spend" /\ job[h].op = "issue"
    /\ invites' = [invites EXCEPT ![U(h)] = [token |-> job[h].token, spent |-> FALSE]]
    /\ issued' = [issued EXCEPT ![U(h)] = @ + 1]
    /\ superseded' = superseded \cup
          {t \in {invites[U(h)].token} : ~invites[U(h)].spent}
    /\ Answer(h)
    /\ UNCHANGED <<users, audited, redeemed, accepted, erased, unrecorded, tokens, requests, faults>>

-----------------------------------------------------------------------------
(* AuthService.RedeemInvite.                                               *)

Redeem(h, u, t) ==
    /\ t \in 1..tokens
    /\ Start(h, [NoJob EXCEPT !.op = "redeem", !.user = u, !.token = t], "resolve")

(* resolveInvite: the invite is read and checked, then the user.  An       *)
(* invite is good for a week.                                              *)
FindInvite(h) ==
    /\ at[h] = "resolve" /\ invite[h] = NoInvite
    /\ LET i == invites[U(h)] IN
         IF i.token # job[h].token \/ i.spent
         THEN Answer(h)
         ELSE \/ Answer(h)
              \/ invite' = [invite EXCEPT ![h] = i] /\ UNCHANGED <<locks, at, job, row>>
    /\ UNCHANGED <<store, history, tokens, requests, faults>>

FindInvited(h) ==
    /\ at[h] = "resolve" /\ invite[h] # NoInvite
    /\ IF users[U(h)] = NoUser \/ users[U(h)].status = "disabled"
       THEN Answer(h)
       ELSE Go(h, "mark") /\ UNCHANGED <<locks, job, row, invite>>
    /\ UNCHANGED <<store, history, tokens, requests, faults>>

(* InviteRepo.MarkRedeemed: is it spent?  Which token it is for was        *)
(* checked before.                                                         *)
LockForRedemption(h) ==
    /\ at[h] = "mark" /\ inviteLock[U(h)] = Nobody
    /\ IF invites[U(h)].spent
       THEN Answer(h)
       ELSE /\ inviteLock' = [inviteLock EXCEPT ![U(h)] = h]
            /\ invite' = [invite EXCEPT ![h] = invites[U(h)]]
            /\ Go(h, "spend")
            /\ UNCHANGED <<userLock, addressLock, job, row>>
    /\ UNCHANGED <<store, history, tokens, requests, faults>>

(* Spent before the password is written.                                   *)
SpendInvite(h) ==
    /\ at[h] = "spend" /\ job[h].op = "redeem"
    /\ invites' = [invites EXCEPT ![U(h)] = [invite[h] EXCEPT !.spent = TRUE]]
    /\ accepted' = accepted \cup {job[h].token}
    /\ inviteLock' = Released(inviteLock, h)
    /\ Go(h, "lock")
    /\ UNCHANGED <<users, audited, userLock, addressLock, job, row, invite,
                   issued, redeemed, superseded, erased, unrecorded, tokens, requests, faults>>

-----------------------------------------------------------------------------
Asks(h) ==
    \E u \in Users :
        \/ \E a \in Addresses, role \in Roles, status \in {"active", "invited"} :
              Create(h, u, a, role, status)
        \/ \E edit \in Edits : EditUser(h, u, edit)
        \/ Erase(h, u) \/ Issue(h, u)
        \/ \E t \in 1..tokens : Redeem(h, u, t)

Serves(h) ==
    \/ LockAddress(h) \/ InsertUser(h)
    \/ LockUser(h) \/ WriteUser(h)
    \/ ReadUser(h) \/ CountAdmins(h) \/ RecordErasure(h) \/ DeleteUser(h) \/ DeleteInvite(h)
    \/ MintToken(h) \/ LockInvite(h) \/ StoreInvite(h)
    \/ FindInvite(h) \/ FindInvited(h) \/ LockForRedemption(h) \/ SpendInvite(h)
    \/ GiveUp(h)

Next == \E h \in Handlers : Asks(h) \/ Serves(h)

Spec == Init /\ [][Next]_vars

-----------------------------------------------------------------------------
(* Every invite lets one password be chosen, however many present its      *)
(* token at once and whatever fails between its two writes ("the other way *)
(* a live token could reset the same password again and again",            *)
(* service/invite.go).                                                     *)
OnePasswordPerInvite == \A u \in Users : redeemed[u] <= issued[u]

(* One account per address, though two admins create it at once.           *)
OneUserPerAddress ==
    \A u, v \in Present : users[u].address = users[v].address => u = v

(* Both of them: an address is one account, an invite one password.        *)
AccountsAreSingle == OnePasswordPerInvite /\ OneUserPerAddress

(* No edit that was under way brings an erased user back ("an erase cannot *)
(* interleave with a write that would re-insert the row", users.go).       *)
ErasedStaysErased == erased \cap Present = {}

(* An erasure is on record before the row is gone, unless the entry itself *)
(* could not be written.                                                   *)
ErasureIsOnRecord == erased \subseteq audited \/ unrecorded

(* Both of them: what is erased is gone for good, and on record.           *)
ErasureHolds == ErasedStaysErased /\ ErasureIsOnRecord

(* What h was asked to make of the row r, field by field.                  *)
Honours(h, r, s) ==
    LET asked == job[h].edit IN
    /\ s.address = r.address
    /\ s.role = IF job[h].op = "redeem" \/ asked.role = Keep THEN r.role ELSE asked.role
    /\ s.password = IF job[h].op = "redeem" THEN job[h].token ELSE r.password
    /\ s.status = IF job[h].op = "redeem"
                  THEN (IF r.status = "invited" THEN "active" ELSE r.status)
                  ELSE (IF asked.status = Keep THEN r.status ELSE asked.status)

(* Whoever rewrites a row makes of the row that is there what it was asked *)
(* to: the fields it was asked for have the values it was asked for, and   *)
(* every other keeps what it has at that moment, whoever wrote it since    *)
(* the request began.  So a sign-in does not bring a role back, an edit    *)
(* does not bring a password back, and redeeming a link does not revive an *)
(* account that was disabled meanwhile.                                    *)
WritesWhatWasAsked ==
    [][\A u \in Present :
          users'[u] \notin {users[u], NoUser} =>
             \E h \in Handlers :
                /\ at[h] = "write" /\ at'[h] = "idle"
                /\ U(h) = u
                /\ Honours(h, users[u], users'[u])]_users

(* "An admin who re-sends a setup link has, by that act, killed the old    *)
(* one" and "a re-issue racing a redemption cannot both spend the old      *)
(* token and install a new one" (invites.go).                              *)
SupersededIsDead == superseded \cap accepted = {}
=============================================================================
