------------------------------ MODULE Alerting ------------------------------
(***************************************************************************)
(* The alerting worker (alerting.Worker), one per processor, and the       *)
(* operators who triage what it fires.  A pass evaluates the rules, claims *)
(* a cooldown in Redis per group that fired and stores an alert; another   *)
(* pass posts pending alerts to the webhook and writes the outcome to the  *)
(* alert's row, as does every triage action, under the row's lock.         *)
(*                                                                         *)
(* One rule; an alert's id is its place in the table.  The lock protects a *)
(* read followed by a write: both of the read's steps are one here.        *)
(***************************************************************************)
EXTENDS Naturals, Sequences, FiniteSets, SequencesExt

CONSTANTS Processors,    \* processes that run the worker
          Groups,        \* values of the rule's group-by columns
          Cooldown,      \* condition.CooldownSeconds, in ticks
          MaxAttempts,   \* deliveries before an alert is given up
          DeliverBatch,  \* alerts one delivery pass lists
          Nobody,        \* nobody holds the lock
          Operators,     \* people at the console
          Hooks,         \* what the rule's webhook may be at the start
          MaxAlerts,     \* bound: alerts stored
          MaxTime,       \* bound: the clock
          MaxEdits,      \* bound: changes to the rule
          MaxFaults      \* bound: failed calls and crashes

VARIABLES
    now,
    \* Redis
    quiet,      \* quiet[g]: when the cooldown of g runs out
    lock,       \* lock[a]: who holds the lock of alert a
    \* ClickHouse
    rule,       \* the rule's row
    alerts,     \* the rows of the alerts
    \* the endpoint
    posted,     \* alerts that have arrived there
    \* the workers
    at,
    since,      \* the time their evaluation began
    fired,      \* groups that fired and are still to be handled
    listed,     \* alerts still to be delivered, as they were when listed
    mark,       \* what is to be written to an alert
    row,        \* row[x]: the row x has read under its lock
    faults

work == <<at, since, fired, listed, mark, row>>
vars == <<now, quiet, lock, rule, alerts, posted, work, faults>>

-----------------------------------------------------------------------------
Actors == Processors \cup Operators
Ids == 1..Len(alerts)

Statuses == {"pending", "delivered", "failed"}
States == {"new", "acknowledged", "resolved"}
Rows == [group : Groups, firedAt : Nat, status : Statuses, attempts : 0..MaxAttempts,
         state : States, acknowledged : BOOLEAN]

(* Who writes what to which alert: the outcome of a delivery or of triage. *)
NoMark == [id |-> 0, status |-> "pending", attempts |-> 0]
NoRow == [group |-> CHOOSE g \in Groups : TRUE, firedAt |-> 0, status |-> "pending",
          attempts |-> 0, state |-> "new", acknowledged |-> FALSE]

Rule == [enabled : BOOLEAN, hook : {"none", "refused", "open"}, version : 1..MaxEdits + 1]

TypeOK ==
    /\ now \in 0..MaxTime
    /\ quiet \in [Groups -> 0..MaxTime + Cooldown]
    /\ lock \in [1..MaxAlerts -> Actors \cup {Nobody}]
    /\ rule \in Rule
    /\ alerts \in Seq(Rows) /\ Len(alerts) <= MaxAlerts
    /\ posted \subseteq Ids
    /\ at \in [Actors -> {"idle", "evaluating", "claimed", "delivering", "marking", "locked"}]
    /\ since \in [Processors -> 0..MaxTime]
    /\ fired \in [Processors -> Seq(Groups)]
    /\ listed \in [Processors -> Seq(Ids \X Rows)]
    /\ mark \in [Actors -> [id : 0..MaxAlerts, status : Statuses \cup States, attempts : 0..MaxAttempts]]
    /\ row \in [Actors -> Rows]
    /\ faults \in 0..MaxFaults

Init ==
    /\ now = 0
    /\ quiet = [g \in Groups |-> 0]
    /\ lock = [a \in 1..MaxAlerts |-> Nobody]
    /\ rule \in {r \in Rule : r.enabled /\ r.hook \in Hooks /\ r.version = 1}
    /\ alerts = <<>> /\ posted = {}
    /\ at = [x \in Actors |-> "idle"]
    /\ since = [p \in Processors |-> 0]
    /\ fired = [p \in Processors |-> <<>>]
    /\ listed = [p \in Processors |-> <<>>]
    /\ mark = [x \in Actors |-> NoMark]
    /\ row = [x \in Actors |-> NoRow]
    /\ faults = 0

Fault == faults < MaxFaults /\ faults' = faults + 1

Go(x, where) == at' = [at EXCEPT ![x] = where]

-----------------------------------------------------------------------------
(* Evaluation: Worker.EvaluateAll.  Which groups fire is the data's doing. *)

Backoff(n) == IF n < 1 THEN 1 ELSE 2 ^ (n - 1)

(* Bounds: room for what the passes under way may store, and time to retry *)
(* it until it is given up.  As there is room, Full never holds.           *)
Full == Len(alerts) >= MaxAlerts
Room == MaxAlerts - Len(alerts) - MapThenSumSet(LAMBDA q : Len(fired[q]), Processors)
TimeLeft == now + Backoff(MaxAttempts) <= MaxTime

Evaluate(p) ==
    /\ at[p] = "idle" /\ rule.enabled /\ TimeLeft
    /\ \E n \in 1..MaxAlerts : \E some \in [1..n -> Groups] :
          n <= Room /\ IsInjective(some) /\ fired' = [fired EXCEPT ![p] = some]
    /\ since' = [since EXCEPT ![p] = now]
    /\ Go(p, "evaluating")
    /\ UNCHANGED <<now, quiet, lock, rule, alerts, posted, listed, mark, row, faults>>

NextGroup(p) ==
    /\ fired' = [fired EXCEPT ![p] = Tail(@)]
    /\ Go(p, IF Len(fired[p]) > 1 THEN "evaluating" ELSE "idle")
    /\ since' = [since EXCEPT ![p] = IF Len(fired[p]) > 1 THEN @ ELSE 0]

(* A mistake to detect: look first, claim in another call.                 *)
ClaimUnchecked(p) ==
    /\ at[p] = "evaluating"
    /\ quiet' = [quiet EXCEPT ![Head(fired[p])] = now + Cooldown]
    /\ Go(p, "claimed")
    /\ UNCHANGED <<now, lock, rule, alerts, posted, since, fired, listed, mark, row, faults>>

(* Cooldown.Allow: SETNX with the cooldown as its TTL.                     *)
Claim(p) ==
    /\ at[p] = "evaluating"
    /\ LET g == Head(fired[p]) IN
         IF quiet[g] > now
         THEN NextGroup(p) /\ UNCHANGED quiet
         ELSE /\ quiet' = [quiet EXCEPT ![g] = now + Cooldown]
              /\ Go(p, "claimed")
              /\ UNCHANGED <<since, fired>>
    /\ UNCHANGED <<now, lock, rule, alerts, posted, listed, mark, row, faults>>

(* A call that timed out may have set the key; no alert is stored.         *)
ClaimFails(p) ==
    /\ at[p] = "evaluating" /\ Fault
    /\ \/ UNCHANGED quiet
       \/ quiet[Head(fired[p])] <= now /\ quiet' = [quiet EXCEPT ![Head(fired[p])] = now + Cooldown]
    /\ NextGroup(p)
    /\ UNCHANGED <<now, lock, rule, alerts, posted, listed, mark, row>>

Fresh(p) == [group |-> Head(fired[p]), firedAt |-> since[p], status |-> "pending",
             attempts |-> 0, state |-> "new", acknowledged |-> FALSE]

StoreAlert(p) ==
    /\ at[p] = "claimed" /\ ~Full
    /\ alerts' = Append(alerts, Fresh(p))
    /\ NextGroup(p)
    /\ UNCHANGED <<now, quiet, lock, rule, posted, listed, mark, row, faults>>

(* The cooldown stays claimed whether or not the row got there.            *)
StoreAlertFails(p) ==
    /\ at[p] = "claimed" /\ Fault
    /\ \/ UNCHANGED alerts
       \/ ~Full /\ alerts' = Append(alerts, Fresh(p))
    /\ NextGroup(p)
    /\ UNCHANGED <<now, quiet, lock, rule, posted, listed, mark, row>>

-----------------------------------------------------------------------------
(* Delivery: Worker.DeliverPending.                                        *)

PendingIds == {a \in Ids : alerts[a].status = "pending"}

(* The oldest first, a batch of them.                                      *)
Older(a, b) == \/ alerts[a].firedAt < alerts[b].firedAt
               \/ alerts[a].firedAt = alerts[b].firedAt /\ a < b

OldestFirst(batch) ==
    /\ \A i, j \in DOMAIN batch : i < j => Older(batch[i], batch[j])
    /\ \A a \in PendingIds \ Range(batch) :
          Len(batch) = DeliverBatch /\ \A i \in DOMAIN batch : Older(batch[i], a)

ListPending(p) ==
    /\ at[p] = "idle"
    /\ \E n \in 1..DeliverBatch : \E batch \in [1..n -> PendingIds] :
          /\ OldestFirst(batch)
          /\ listed' = [listed EXCEPT ![p] = [i \in 1..n |-> <<batch[i], alerts[batch[i]]>>]]
    /\ Go(p, "delivering")
    /\ UNCHANGED <<now, quiet, lock, rule, alerts, posted, since, fired, mark, row, faults>>

Due(r) == r.attempts > 0 => now >= r.firedAt + Backoff(r.attempts)

Mark(p, a, status, attempts) ==
    /\ mark' = [mark EXCEPT ![p] = [id |-> a, status |-> status, attempts |-> attempts]]
    /\ Go(p, "marking")
    /\ UNCHANGED <<now, quiet, lock, rule, alerts, since, fired, listed, row>>

(* The first listed alert, as it was when it was listed.                   *)
AlertInHand(p) == Head(listed[p])[1]
RowInHand(p) == Head(listed[p])[2]
Delivering(p) == at[p] = "delivering"

(* The rule cannot be read, or the signing key of its webhook: any error   *)
(* counts as the end of the alert.                                         *)
GiveUp(p) ==
    /\ Delivering(p) /\ Fault
    /\ Mark(p, AlertInHand(p), "failed", RowInHand(p).attempts + 1)
    /\ UNCHANGED posted

NextAlert(p) ==
    /\ listed' = [listed EXCEPT ![p] = Tail(@)]
    /\ Go(p, IF Len(listed[p]) > 1 THEN "delivering" ELSE "idle")

Skip(p) ==
    /\ Delivering(p) /\ ~Due(RowInHand(p))
    /\ NextAlert(p)
    /\ UNCHANGED <<now, quiet, lock, rule, alerts, posted, since, fired, mark, row, faults>>

(* Webhook.Deliver without a call: no endpoint, or one it must not reach.  *)
DeliverNothing(p) ==
    /\ Delivering(p) /\ Due(RowInHand(p))
    /\ \/ /\ rule.hook = "none"
          /\ Mark(p, AlertInHand(p), "delivered", RowInHand(p).attempts)
       \/ /\ rule.hook = "refused"
          /\ Mark(p, AlertInHand(p), "failed", RowInHand(p).attempts + 1)
    /\ UNCHANGED <<posted, faults>>

Post(p) ==
    /\ Delivering(p) /\ Due(RowInHand(p)) /\ rule.hook = "open"
    /\ posted' = posted \cup {AlertInHand(p)}
    /\ Mark(p, AlertInHand(p), "delivered", RowInHand(p).attempts + 1)
    /\ UNCHANGED faults

(* A mistake to detect: an attempt that failed is not counted.             *)
PostFailsUncounted(p) ==
    /\ Delivering(p) /\ Due(RowInHand(p)) /\ rule.hook = "open"
    /\ Mark(p, AlertInHand(p), "pending", RowInHand(p).attempts)
    /\ UNCHANGED <<posted, faults>>

(* The endpoint refuses or does not answer in time.                        *)
PostFails(p) ==
    /\ Delivering(p) /\ Due(RowInHand(p)) /\ rule.hook = "open"
    /\ posted' \in {posted, posted \cup {AlertInHand(p)}}
    /\ LET n == RowInHand(p).attempts + 1 IN
         Mark(p, AlertInHand(p), IF n >= MaxAttempts THEN "failed" ELSE "pending", n)
    /\ UNCHANGED faults

-----------------------------------------------------------------------------
(* AlertingRepo.UpdateAlert: lock, read the current row, write what the    *)
(* caller's mutation makes of it, release.                                 *)

(* Back in its caller, which forgets the row and goes on.                  *)
Return(x) ==
    /\ IF x \in Operators THEN Go(x, "idle") /\ UNCHANGED listed ELSE NextAlert(x)
    /\ mark' = [mark EXCEPT ![x] = NoMark]
    /\ row' = [row EXCEPT ![x] = NoRow]

TakeLock(x) ==
    /\ at[x] = "marking" /\ lock[mark[x].id] = Nobody
    /\ lock' = [lock EXCEPT ![mark[x].id] = x]
    /\ row' = [row EXCEPT ![x] = alerts[mark[x].id]]
    /\ Go(x, "locked")
    /\ UNCHANGED <<now, quiet, rule, alerts, posted, since, fired, listed, mark, faults>>

(* Redis does not answer, or the lock is taken at each of the 20 attempts: *)
(* a fault, as its holders read and write once and it is tried for 10 s.   *)
TakeLockFails(x) ==
    /\ at[x] = "marking" /\ Fault
    /\ Return(x)
    /\ UNCHANGED <<now, quiet, lock, rule, alerts, posted, since, fired>>

Mutated(x, r) ==
    LET m == mark[x] IN
    IF x \in Processors THEN [r EXCEPT !.status = m.status, !.attempts = m.attempts]
    ELSE [r EXCEPT !.state = m.status, !.acknowledged = TRUE]

(* A mistake to detect: a delivery writes the row it listed.               *)
WriteRowListed(x) ==
    /\ at[x] = "locked"
    /\ LET r == IF x \in Operators THEN row[x] ELSE RowInHand(x)
       IN  alerts' = [alerts EXCEPT ![mark[x].id] = Mutated(x, r)]
    /\ lock' = [lock EXCEPT ![mark[x].id] = Nobody]
    /\ Return(x)
    /\ UNCHANGED <<now, quiet, rule, posted, since, fired, faults>>

WriteRow(x) ==
    /\ at[x] = "locked"
    /\ alerts' = [alerts EXCEPT ![mark[x].id] = Mutated(x, row[x])]
    /\ lock' = [lock EXCEPT ![mark[x].id] = Nobody]
    /\ Return(x)
    /\ UNCHANGED <<now, quiet, rule, posted, since, fired, faults>>

WriteRowFails(x) ==
    /\ at[x] = "locked" /\ Fault
    /\ alerts' \in {alerts, [alerts EXCEPT ![mark[x].id] = Mutated(x, row[x])]}
    /\ lock' = [lock EXCEPT ![mark[x].id] = Nobody]
    /\ Return(x)
    /\ UNCHANGED <<now, quiet, rule, posted, since, fired>>

(* AcknowledgeAlert, ResolveAlert: resolving acknowledges as well.         *)
Triage(o, a, target) ==
    /\ at[o] = "idle" /\ alerts[a].state # target
    /\ mark' = [mark EXCEPT ![o] = [id |-> a, status |-> target, attempts |-> 0]]
    /\ Go(o, "marking")
    /\ UNCHANGED <<now, quiet, lock, rule, alerts, posted, since, fired, listed, row, faults>>

(* UpdateAlertRule and DeleteAlertRule, which only disables.               *)
EditRule ==
    /\ rule' \in {r \in Rule : r.version = rule.version + 1}
    /\ UNCHANGED <<now, quiet, lock, alerts, posted, work, faults>>

-----------------------------------------------------------------------------
Tick ==
    /\ now < MaxTime
    /\ now' = now + 1
    /\ UNCHANGED <<quiet, lock, rule, alerts, posted, work, faults>>

(* A processor dies; the lock it held runs out.                            *)
Crash(p) ==
    /\ at[p] # "idle" /\ Fault
    /\ Go(p, "idle")
    /\ lock' = [a \in DOMAIN lock |-> IF lock[a] = p THEN Nobody ELSE lock[a]]
    /\ fired' = [fired EXCEPT ![p] = <<>>]
    /\ listed' = [listed EXCEPT ![p] = <<>>]
    /\ since' = [since EXCEPT ![p] = 0]
    /\ mark' = [mark EXCEPT ![p] = NoMark]
    /\ row' = [row EXCEPT ![p] = NoRow]
    /\ UNCHANGED <<now, quiet, rule, alerts, posted>>

Update(x) == TakeLock(x) \/ TakeLockFails(x) \/ WriteRow(x) \/ WriteRowFails(x)

Evaluation(p) ==
    \/ Evaluate(p) \/ Claim(p) \/ ClaimFails(p) \/ StoreAlert(p) \/ StoreAlertFails(p)

Delivery(p) ==
    \/ ListPending(p) \/ GiveUp(p) \/ Skip(p) \/ DeliverNothing(p) \/ Post(p) \/ PostFails(p)

Next ==
    \/ \E p \in Processors : Evaluation(p) \/ Delivery(p) \/ Crash(p)
    \/ \E x \in Actors : Update(x)
    \/ \E o \in Operators, a \in Ids, target \in {"acknowledged", "resolved"} : Triage(o, a, target)
    \/ EditRule \/ Tick

Spec == Init /\ [][Next]_vars

(* The worker is supervised for the life of the process, a handler of the  *)
(* console runs to its end, and time passes.  Taking a lock is tried for   *)
(* ten seconds at growing intervals while its holders read and write once. *)
Fairness ==
    /\ \A p \in Processors : WF_vars(Evaluation(p) \/ Delivery(p) \/ Update(p))
    /\ \A x \in Actors : SF_vars(TakeLock(x))
    /\ (\A o \in Operators : WF_vars(Update(o))) /\ WF_vars(Tick)

FairSpec == Spec /\ Fairness

-----------------------------------------------------------------------------
(* However many processors evaluate the rule, a group that keeps firing is *)
(* alerted of once per cooldown: the claim is shared and atomic ("N        *)
(* replicas send N copies of every alert", cooldown.go).                   *)
AlertsPerCooldown ==
    \A g \in Groups : Cardinality({a \in Ids : alerts[a].group = g}) <= (now \div Cooldown) + 1

(* A group is silenced by an alert, stored or about to be.  A call that    *)
(* failed between the claim and the alert, or a crash there, silences the  *)
(* group for a cooldown with nothing to triage; each of them silences no   *)
(* more than the one group it was at work on.                              *)
SilencedByNothing ==
    {g \in Groups :
        /\ quiet[g] > now
        /\ ~\E a \in Ids : alerts[a].group = g
        /\ ~\E p \in Processors : at[p] = "claimed" /\ Head(fired[p]) = g}

SilenceHasAlert == Cardinality(SilencedByNothing) <= faults

(* Operators and deliveries write different parts of one row.  Under its   *)
(* lock neither undoes what the other has written since it looked.         *)
WritersKeepApart ==
    [][\A a \in Ids :
          LET r == alerts[a]
              s == alerts'[a]
          IN  /\ r.acknowledged => s.acknowledged
              /\ <<s.state, s.acknowledged>> # <<r.state, r.acknowledged>> => lock[a] \in Operators
              /\ <<s.status, s.attempts>> # <<r.status, r.attempts>> => lock[a] \in Processors]_alerts

(* Every alert is delivered or given up in the end, whoever works on it,   *)
(* and stays so once everybody has written what he set out to write.       *)
EveryAlertSettles == <>[](\A a \in Ids : alerts[a].status # "pending")
=============================================================================
