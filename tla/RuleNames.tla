------------------------------ MODULE RuleNames ------------------------------
(***************************************************************************)
(* The names of a customer's Cloudflare rules: every siem-processor runs   *)
(* cfrules.Worker, which reads each tenant's zones with the token the      *)
(* tenant saved and adds what it finds to the cloudflare_rules table,      *)
(* while tokens are saved, replaced and removed and rules change.          *)
(*                                                                         *)
(* A zone stands for one rule of it, the account for one more zone.  What  *)
(* a rule is called is the number of the edit that named it so.            *)
(***************************************************************************)
EXTENDS Naturals, Sequences, FiniteSets, SequencesExt

CONSTANTS Processors, Tenants,
          Zones,        \* zones of a tenant, in the order they are read
          FullEvery,    \* checks from one full pass to the next (60)
          MaxEdits,     \* bound: rules that change
          MaxTokens,    \* bound: tokens saved or removed
          MaxFaults     \* bound: failing calls and crashes

VARIABLES
    rule,       \* rule[t][z]: [edit, described]
    named,      \* named[t][z]: the newest row of the table, 0 without one
    token,      \* token[t]: the reference in the tenant's row, 0 for none
    saved,      \* tokens saved so far
    edits,
    \* the worker of each processor
    at, todo, left, fetched,
    sinceFull,  \* checks since the last full pass
    seen,       \* seenTokens
    faults

worker == <<at, todo, left, fetched, sinceFull, seen>>
vars == <<rule, named, token, saved, edits, worker, faults>>

ZoneNames == ToSet(Zones)
Nothing == [t \in Tenants |-> 0]

Init ==
    /\ rule = [t \in Tenants |-> [z \in ZoneNames |-> [edit |-> 1, described |-> TRUE]]]
    /\ named = [t \in Tenants |-> [z \in ZoneNames |-> 0]]
    /\ token = [t \in Tenants |-> 1]
    /\ saved = 1 /\ edits = 1
    /\ at = [p \in Processors |-> "start"]
    /\ todo = [p \in Processors |-> <<>>]
    /\ left = [p \in Processors |-> <<>>]
    /\ fetched = [p \in Processors |-> {}]
    /\ sinceFull = [p \in Processors |-> 0]
    /\ seen = [p \in Processors |-> Nothing]
    /\ faults = 0

Fault == faults < MaxFaults /\ faults' = faults + 1

-----------------------------------------------------------------------------
(* The customer and the operator.                                          *)

EditRule ==
    /\ edits <= MaxEdits
    /\ edits' = edits + 1
    /\ \E t \in Tenants, z \in ZoneNames, described \in BOOLEAN :
           rule' = [rule EXCEPT ![t][z] = [edit |-> edits', described |-> described]]
    /\ UNCHANGED <<named, token, saved, worker, faults>>

(* storeCloudflareToken: a new reference each time, and none to remove it. *)
SaveToken ==
    /\ saved <= MaxTokens
    /\ saved' = saved + 1
    /\ \E t \in Tenants : \E new \in {0, saved'} : token' = [token EXCEPT ![t] = new]
    /\ UNCHANGED <<rule, named, edits, worker, faults>>

-----------------------------------------------------------------------------
(* refreshAll.                                                             *)

Full(p) == at[p] = "start" \/ sinceFull[p] + 1 >= FullEvery

(* Which of the tenants ListAll gave a pass refreshes.                     *)
SeenSkipped(p, t) == token[t] # 0 /\ seen[p][t] # token[t]
Refreshed(p, t) == token[t] # 0 /\ (Full(p) \/ seen[p][t] # token[t])

(* Run and Check: the tenants are listed, a tenant without a token is      *)
(* forgotten, and every token is taken for seen before it is tried.        *)
Check(p) ==
    /\ at[p] \in {"start", "wait"}
    /\ LET chosen == SetToSeq({t \in Tenants : Refreshed(p, t)})
       IN  /\ todo' = [todo EXCEPT ![p] = [i \in DOMAIN chosen |->
                                              [tenant |-> chosen[i], token |-> token[chosen[i]]]]]
           /\ at' = [at EXCEPT ![p] = IF chosen = <<>> THEN "wait" ELSE "tenant"]
    /\ sinceFull' = [sinceFull EXCEPT ![p] = IF Full(p) THEN 0 ELSE @ + 1]
    /\ seen' = [seen EXCEPT ![p] = [t \in Tenants |-> IF token[t] = 0 THEN 0 ELSE @[t]]]
    /\ UNCHANGED <<rule, named, token, saved, edits, left, fetched, faults>>

(* ListAll fails: the check does nothing.                                  *)
CheckFails(p) ==
    /\ at[p] \in {"start", "wait"}
    /\ Fault
    /\ at' = [at EXCEPT ![p] = "wait"]
    /\ sinceFull' = [sinceFull EXCEPT ![p] = IF Full(p) THEN 0 ELSE @ + 1]
    /\ UNCHANGED <<rule, named, token, saved, edits, todo, left, fetched, seen>>

(* RefreshTenant resolves the token and lists the zones.                   *)
Begin(p) ==
    /\ at[p] = "tenant"
    /\ seen' = [seen EXCEPT ![p][Head(todo[p]).tenant] = Head(todo[p]).token]
    /\ left' = [left EXCEPT ![p] = Zones]
    /\ at' = [at EXCEPT ![p] = "zone"]
    /\ UNCHANGED <<rule, named, token, saved, edits, todo, fetched, sinceFull, faults>>

(* The pass goes on to the next tenant, whatever became of this one.       *)
NextTenant(p) ==
    /\ todo' = [todo EXCEPT ![p] = Tail(@)]
    /\ at' = [at EXCEPT ![p] = IF Len(todo[p]) = 1 THEN "wait" ELSE "tenant"]
    /\ left' = [left EXCEPT ![p] = <<>>]
    /\ fetched' = [fetched EXCEPT ![p] = {}]

(* The token cannot be resolved, or the zones not be listed.               *)
BeginFails(p) ==
    /\ at[p] = "tenant"
    /\ Fault
    /\ seen' = [seen EXCEPT ![p][Head(todo[p]).tenant] = Head(todo[p]).token]
    /\ NextTenant(p)
    /\ UNCHANGED <<rule, named, token, saved, edits, sinceFull>>

(* fetch: one zone's rules, those without a description left out.          *)
ZoneDone(p) ==
    /\ left' = [left EXCEPT ![p] = Tail(@)]
    /\ at' = [at EXCEPT ![p] = IF Len(left[p]) = 1 THEN "replace" ELSE "zone"]
    /\ UNCHANGED <<rule, named, token, saved, edits, todo, sinceFull, seen>>

FetchZone(p) ==
    /\ at[p] = "zone"
    /\ LET z == Head(left[p])
           r == rule[Head(todo[p]).tenant][z]
       IN  fetched' = [fetched EXCEPT ![p] =
                          IF r.described THEN @ \cup {[zone |-> z, edit |-> r.edit]} ELSE @]
    /\ ZoneDone(p)
    /\ UNCHANGED faults

(* A zone that cannot be read is skipped.                                  *)
SkipZone(p) ==
    /\ at[p] = "zone"
    /\ Fault
    /\ ZoneDone(p)
    /\ UNCHANGED fetched

(* Replace adds rows newer than any there; nothing found is an error, and  *)
(* nothing is deleted.                                                     *)
Replace(p) ==
    /\ at[p] = "replace"
    /\ LET t == Head(todo[p]).tenant
       IN  named' = [named EXCEPT ![t] = [z \in ZoneNames |->
                        IF \E f \in fetched[p] : f.zone = z
                        THEN (CHOOSE f \in fetched[p] : f.zone = z).edit ELSE @[z]]]
    /\ NextTenant(p)
    /\ UNCHANGED <<rule, token, saved, edits, sinceFull, seen, faults>>

ReplaceFails(p) ==
    /\ at[p] = "replace"
    /\ Fault
    /\ NextTenant(p)
    /\ UNCHANGED <<rule, named, token, saved, edits, sinceFull, seen>>

(* siem-processor is restarted: nothing has been seen.                     *)
Restart(p) ==
    /\ at[p] # "start"
    /\ Fault
    /\ at' = [at EXCEPT ![p] = "start"]
    /\ todo' = [todo EXCEPT ![p] = <<>>] /\ left' = [left EXCEPT ![p] = <<>>]
    /\ fetched' = [fetched EXCEPT ![p] = {}]
    /\ sinceFull' = [sinceFull EXCEPT ![p] = 0]
    /\ seen' = [seen EXCEPT ![p] = Nothing]
    /\ UNCHANGED <<rule, named, token, saved, edits>>

Work(p) ==
    \/ Check(p) \/ CheckFails(p) \/ Begin(p) \/ BeginFails(p)
    \/ FetchZone(p) \/ SkipZone(p) \/ Replace(p) \/ ReplaceFails(p)

Next == EditRule \/ SaveToken \/ \E p \in Processors : Work(p) \/ Restart(p)

Spec == Init /\ [][Next]_vars

(* A worker's loop runs as long as its processor does: the ticker fires    *)
(* every minute, and every call ends.                                      *)
FairSpec == Spec /\ \A p \in Processors : WF_vars(Work(p))

-----------------------------------------------------------------------------
NamesCurrent ==
    \A t \in Tenants, z \in ZoneNames :
        token[t] # 0 /\ rule[t][z].described => named[t][z] = rule[t][z].edit

(* Once rules and tokens stand still, every rule that has a description    *)
(* is called by it for good: a token that failed is tried again with the   *)
(* next full pass, a zone that was skipped is read again, one tenant's     *)
(* failures hold nobody else up, and what a slow processor read before a   *)
(* change and wrote after it is put right.                                 *)
NamesCatchUp == <>[]NamesCurrent
=============================================================================
