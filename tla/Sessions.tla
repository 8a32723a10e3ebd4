-------------------------------- MODULE Sessions --------------------------------
(* The sessions of one account: service/auth.go over auth/tokens.go and    *)
(* auth/revocation.go, and the requests that middleware/auth.go lets in.   *)
(* A token is self-contained: what a request may do is what its access     *)
(* token says until it expires, whatever became of the account meanwhile.  *)
(* The tabs of a browser share a cookie with the refresh token, and each   *)
(* keeps an access token of its own. Calls interleave and end within a     *)
(* tick; a call that is refused changes nothing and has no action. Time is *)
(* told by what is left of a token, and by how long ago a role was held.   *)
EXTENDS Naturals, FiniteSets

CONSTANTS
    Tabs,          \* the tabs of the browser
    Signing,       \* those of them that sign in: the others find the cookie
    Nobody,        \* not a tab
    Roles,         \* the roles the account may be given
    ChallengeTTL,  \* how long a verified password may wait for its code
    AccessTTL,     \* accessTTL
    RefreshTTL,    \* refreshTTL
    Tokens         \* refresh tokens, used again when they have expired

VARIABLES
    user,       \* the account's row: active, role, secret (the tab it was made for), enabled
    tenant,     \* the tenant is active
    challenge,  \* challenge[c]: what is left of the challenge of tab c
    access,     \* access[c]: the role of the access token of tab c and what is left of it
    cookie,     \* the refresh token of the browser, if any
    left,       \* left[i]: what is left of refresh token i
    revoked,    \* revoked[i]: for how long Redis will name it
    dead,       \* refresh tokens whose holder was told that they are used up
    job,        \* job[c]: the call tab c waits for and what it has read
    activeAgo,  \* when the account was last active
    roleAgo,    \* roleAgo[x]: when it last had role x
    verified    \* the secret in the row has been shown to be known

vars == <<user, tenant, challenge, access, cookie, left, revoked, dead, job, activeAgo, roleAgo,
          verified>>

account == <<user, tenant, activeAgo, roleAgo>>
tokens == <<cookie, left, revoked, dead>>

Call(step, role, enabled, token) ==
    [step |-> step, role |-> role, enabled |-> enabled, token |-> token, aged |-> FALSE]
Idle == Call("idle", "none", TRUE, {})

Init ==
    /\ \E x \in Roles :
          /\ user = [active |-> TRUE, role |-> x, secret |-> Nobody, enabled |-> FALSE]
          /\ roleAgo = [y \in Roles |-> IF x = y THEN 0 ELSE AccessTTL + 1]
    /\ tenant = TRUE
    /\ activeAgo = 0
    /\ challenge = [c \in Tabs |-> 0]
    /\ access = [c \in Tabs |-> [role |-> "none", left |-> 0]]
    /\ cookie = {}
    /\ left = [i \in Tokens |-> 0]
    /\ revoked = [i \in Tokens |-> 0]
    /\ dead = {}
    /\ job = [c \in Tabs |-> Idle]
    /\ verified = FALSE

Goes(c, next) == job' = [job EXCEPT ![c] = next]

-----------------------------------------------------------------------------
(* Signing in.                                                             *)

(* The password is right and the account active.                           *)
Login(c) ==
    /\ job[c].step = "idle"
    /\ user.active
    /\ Goes(c, Call("login", "none", user.enabled, {}))
    /\ UNCHANGED <<account, challenge, access, tokens, verified>>

(* An account without a second factor is given a new secret, whether or    *)
(* not it has one by now.                                                  *)
Challenge(c) ==
    /\ job[c].step = "login"
    /\ challenge' = [challenge EXCEPT ![c] = ChallengeTTL]
    /\ IF job[c].enabled THEN UNCHANGED <<user, verified>>
       ELSE user' = [user EXCEPT !.secret = c] /\ verified' = FALSE
    /\ Goes(c, Idle)
    /\ UNCHANGED <<tenant, activeAgo, roleAgo, access, tokens>>

(* A code of the secret in the row, for a challenge that is still good.    *)
(* The account may have been disabled since its password was accepted.     *)
VerifyMFA(c) ==
    /\ job[c].step = "idle"
    /\ challenge[c] > 0
    /\ tenant
    /\ user.secret # Nobody
    /\ verified' = TRUE
    /\ Goes(c, Call("enrol", user.role, user.enabled, {}))
    /\ UNCHANGED <<account, challenge, access, tokens>>

(* The second factor is on from here.                                      *)
Enrol(c) ==
    /\ job[c].step = "enrol"
    /\ user' = [user EXCEPT !.enabled = @ \/ ~job[c].enabled]
    /\ Goes(c, [job[c] EXCEPT !.step = "issue"])
    /\ UNCHANGED <<tenant, activeAgo, roleAgo, challenge, access, tokens, verified>>

-----------------------------------------------------------------------------
(* Refreshing and signing out.                                             *)

(* A token is refused once Redis names it.                                 *)
Honoured(i) == left[i] > 0 /\ revoked[i] = 0

(* A mutant: the subject is the one an access token names.                 *)
RefreshOfClaims(c) ==
    /\ job[c].step = "idle"
    /\ \E i \in cookie : Honoured(i)
    /\ user.active /\ tenant
    /\ LET named == IF access[c].role # "none" THEN access[c].role ELSE user.role
       IN  Goes(c, Call("revoke", named, TRUE, cookie))
    /\ UNCHANGED <<account, challenge, access, tokens, verified>>

(* The token is good and its subject, read anew, may go on.                *)
Refresh(c) ==
    /\ job[c].step = "idle"
    /\ \E i \in cookie : Honoured(i)
    /\ user.active /\ tenant
    /\ Goes(c, Call("revoke", user.role, TRUE, cookie))
    /\ UNCHANGED <<account, challenge, access, tokens, verified>>

(* A token is named for what is left of it, and one that has expired is    *)
(* not named at all.                                                       *)
Revocation(given) == revoked' = [i \in Tokens |-> IF i \in given THEN left[i] ELSE revoked[i]]

(* The old token is dead before there is a new one.                        *)
Revoke(c) ==
    /\ job[c].step = "revoke"
    /\ Revocation(job[c].token)
    /\ Goes(c, [job[c] EXCEPT !.step = "issue"])
    /\ UNCHANGED <<account, challenge, access, cookie, left, dead, verified>>

(* A name nobody can present any more.                                     *)
Unused(i) == left[i] = 0 /\ i \notin cookie /\ \A c \in Tabs : i \notin job[c].token

(* IssuePair and the answer, of Refresh and of VerifyMFA: the browser has  *)
(* the new token, and the one it presented is used up.                     *)
IssuePair(c) ==
    /\ job[c].step = "issue"
    /\ \E i \in Tokens :
          /\ Unused(i)
          /\ left' = [left EXCEPT ![i] = RefreshTTL]
          /\ cookie' = {i}
    /\ access' = [access EXCEPT ![c] = [role |-> job[c].role, left |-> AccessTTL]]
    /\ dead' = dead \cup {i \in job[c].token : left[i] > 0}
    /\ Goes(c, Idle)
    /\ UNCHANGED <<account, challenge, revoked, verified>>

(* What a request may do is what its token says, in an active tenant.      *)
Admitted(c) == access[c].left > 0 /\ tenant

Logout(c) ==
    /\ job[c].step = "idle"
    /\ Admitted(c)
    /\ cookie # {}
    /\ Goes(c, Call("logout", "none", TRUE, cookie))
    /\ UNCHANGED <<account, challenge, access, tokens, verified>>

SignedOut(c) ==
    /\ job[c].step = "logout"
    /\ Revocation(job[c].token)
    /\ cookie' = {}
    /\ dead' = dead \cup {i \in job[c].token : left[i] > 0}
    /\ Goes(c, Idle)
    /\ UNCHANGED <<account, challenge, access, left, verified>>

(* A call of a store fails, and with it the call it was made for. What the *)
(* steps before it did stays done.                                         *)
Fails(c) ==
    /\ job[c].step # "idle"
    /\ Goes(c, Idle)
    /\ UNCHANGED <<account, challenge, access, tokens, verified>>

-----------------------------------------------------------------------------
(* An admin changes the account.                                           *)
EditUser(x, active) ==
    /\ user' = [user EXCEPT !.role = x, !.active = active]
    /\ roleAgo' = [roleAgo EXCEPT ![x] = 0]
    /\ activeAgo' = IF active THEN 0 ELSE activeAgo
    /\ UNCHANGED <<tenant, challenge, access, tokens, job, verified>>

(* An operator suspends the tenant, or ends its suspension.                *)
Suspend ==
    /\ tenant' = ~tenant
    /\ UNCHANGED <<user, activeAgo, roleAgo, challenge, access, tokens, job, verified>>

Less(n) == IF n > 0 THEN n - 1 ELSE 0
Older(n, bound) == IF n < bound THEN n + 1 ELSE n

(* The server ends a call that takes longer.                               *)
Tick ==
    /\ \A c \in Tabs : ~job[c].aged
    /\ job' = [c \in Tabs |-> [job[c] EXCEPT !.aged = job[c].step # "idle"]]
    /\ challenge' = [c \in Tabs |-> Less(challenge[c])]
    /\ access' = [c \in Tabs |->
                     IF access[c].left > 1 THEN [access[c] EXCEPT !.left = @ - 1]
                     ELSE [role |-> "none", left |-> 0]]
    /\ left' = [i \in Tokens |-> Less(left[i])]
    /\ revoked' = [i \in Tokens |-> Less(revoked[i])]
    /\ dead' = {i \in dead : left'[i] > 0}
    /\ activeAgo' = IF user.active THEN 0 ELSE Older(activeAgo, ChallengeTTL + AccessTTL + 2)
    /\ roleAgo' = [x \in Roles |-> IF x = user.role THEN 0 ELSE Older(roleAgo[x], AccessTTL + 1)]
    /\ UNCHANGED <<user, tenant, cookie, verified>>

Next ==
    \/ \E c \in Tabs :
          \/ c \in Signing /\ Login(c)
          \/ Challenge(c) \/ VerifyMFA(c) \/ Enrol(c) \/ Refresh(c) \/ Revoke(c)
          \/ IssuePair(c) \/ Logout(c) \/ SignedOut(c) \/ Fails(c)
    \/ \E x \in Roles, active \in BOOLEAN : EditUser(x, active)
    \/ Suspend \/ Tick

Spec == Init /\ [][Next]_vars

-----------------------------------------------------------------------------
(* A change of an account reaches its sessions: a request is never let in  *)
(* with a role the account has not had since the access token was issued   *)
(* or, in the call that issued it, a little before; nor for an account     *)
(* that was disabled before the sign-in that led to the token began. Only  *)
(* a refresh may follow a refresh, and it asks again.                      *)
AuthorityIsRecent ==
    \A c \in Tabs : Admitted(c) =>
        /\ roleAgo[access[c].role] < AccessTTL + 1
        /\ activeAgo < ChallengeTTL + AccessTTL + 2

(* A refresh token whose holder was told it is used up, by the answer to a *)
(* sign-out or with the token that replaces it, is not honoured again: it  *)
(* is named in Redis for as long as its own expiry would let it pass.      *)
UsedUpIsRefused == \A i \in dead : ~Honoured(i)

SessionsEnd == AuthorityIsRecent /\ UsedUpIsRefused

(* What VerifyMFA promises and does not keep: a second factor that is on   *)
(* is one of which a code has been accepted. A sign-in that began before   *)
(* replaces the secret of an account that has been enrolled meanwhile.     *)
EnrolmentIsVerified == user.enabled => verified
=============================================================================
