------------------------------- MODULE Measuring -------------------------------
(* What a rule measures: alerting/evaluator.go and rule/condition.go over  *)
(* data/clickhouse/alerting.go. Each processor evaluates the rule over a   *)
(* window that ends when its pass begins. The records it counts come later *)
(* than the requests they are about, may be amended, and the rule may be   *)
(* edited. Alerting models what becomes of a firing; here a firing is the  *)
(* evidence it was claimed with. A tick is MinWindow.                      *)
EXTENDS Naturals, FiniteSets

CONSTANTS
    Processors,  \* processes that evaluate
    Groups,      \* values of the columns a rule groups by or filters on
    Clients,     \* client addresses
    Asked,       \* conditions authors ask for
    MaxEvidence, \* records an alert links, at most
    Lag,         \* how long after its start a record is written, at most
    MaxBusy,     \* ticks a worker may spend delivering before it begins a pass that is due
    MaxPass,     \* ticks a pass takes, at most, no more than it may be late
    MaxTime,     \* bound: the clock
    MaxRows,     \* bound: records
    MaxChanges   \* bound: amendments, changes to the rule and measurements that fail

MinWindow == 1
MaxWindow == 4
MinCooldown == 2
Interval == 1  \* DefaultEvaluateInterval

VARIABLES
    now,
    rows,    \* correlated_requests FINAL: the newest version of each record
    rule,    \* the rule's row: the condition, its denormalised columns, the version
    quiet,   \* quiet[g]: when the cooldown of g runs out
    pass,    \* pass[p]: what the worker of p is at
    last,    \* last[p]: when it last began a pass
    alerts,  \* the firings that were claimed
    met,     \* <<group, when the pass began>> of the measurements that satisfied it
    changes, \* amendments, and changes to the rule
    faults   \* measurements that failed

vars == <<now, rows, rule, quiet, pass, last, alerts, met, changes, faults>>

-----------------------------------------------------------------------------
(* The condition.                                                          *)

NoCondition == [window |-> 0]

(* Of a rule's bounds, those that matter to time.                          *)
Validate(c) ==
    /\ c.aggregate \in {"count", "rate", "distinct_ips"}
    /\ c.comparator \in {"gte", "lt"}
    /\ c.window \in MinWindow..MaxWindow
    /\ c.cooldown >= MinCooldown
    /\ c.cooldown >= c.window

(* What is stored of a condition: the document, and the column of it the   *)
(* evaluator reads without parsing.                                        *)
CreateRule(c) == [condition |-> c, window |-> c.window, enabled |-> TRUE, version |-> 1]

(* An edit changes what it sets: the condition, whether the rule is on, or *)
(* both.                                                                   *)
ApplyRuleEdit(current, c, enabled) ==
    [condition |-> IF c = NoCondition THEN current.condition ELSE c,
     window |-> IF c = NoCondition THEN current.window ELSE c.window,
     enabled |-> enabled,
     version |-> current.version + 1]

Satisfied(c, observed) ==
    CASE c.comparator = "gte" -> observed >= c.threshold
      [] c.comparator = "lt" -> observed < c.threshold

-----------------------------------------------------------------------------
(* The measurement.                                                        *)

(* The window ends at the evaluation, whatever the clock says.             *)
WindowFor(r, at) == [from |-> IF at > r.window THEN at - r.window ELSE 0, to |-> at]

(* A rule's filters leave a record out, or in once more vendors joined it, *)
(* and by what the record is said to be.                                   *)
Filtered(c, row) == row.vendors >= c.vendors /\ (c.only = "" \/ row.group = c.only)
Matching(c, span) ==
    {row \in rows : span.from <= row.start /\ row.start < span.to /\ Filtered(c, row)}

(* A rate is the count over itself: the filters are in the WHERE, so what  *)
(* they leave out is in neither.                                           *)
AggregateExpr(c, R) ==
    CASE c.aggregate = "count" -> Cardinality(R)
      [] c.aggregate = "rate" -> IF R = {} THEN 0 ELSE 1
      [] c.aggregate = "distinct_ips" -> Cardinality({row.client : row \in R})

(* GROUP BY yields the groups that have rows, and without it there is one  *)
(* row, of nothing if nothing matched.                                     *)
Measure(c, span) ==
    LET M == Matching(c, span)
        result(g, R) == [group |-> g, value |-> AggregateExpr(c, R), counted |-> R]
    IN  IF c.grouped
        THEN {result(g, {row \in M : row.group = g}) : g \in {row.group : row \in M}}
        ELSE {result("all", M)}

(* Of the records counted as many as an alert may link, in no order that   *)
(* is stated: which of them is for the store to say.                       *)
Evidence(R) ==
    {E \in SUBSET R : Cardinality(E) = IF Cardinality(R) < MaxEvidence THEN Cardinality(R) ELSE MaxEvidence}

Linked(R) == {[id |-> row.id, group |-> row.group, start |-> row.start] : row \in R}

(* The dry run of a condition is the measurement, of no stored rule.       *)
PreviewAlertRule(c, to) == Measure(c, WindowFor([window |-> c.window], to))

-----------------------------------------------------------------------------
Idle == [step |-> "idle", since |-> 0, rule |-> [version |-> 0], fired |-> {}]

Init ==
    /\ now = 0
    /\ rows = {}
    /\ \E c \in Asked : Validate(c) /\ rule = CreateRule(c)
    /\ quiet = [g \in Groups \cup {"all"} |-> 0]
    /\ pass = [p \in Processors |-> Idle]
    /\ last = [p \in Processors |-> 0]
    /\ alerts = {}
    /\ met = {}
    /\ changes = 0 /\ faults = 0

(* A request of the last ticks has its record written, with the vendors    *)
(* that were there in time.                                                *)
Write(start, g, client) ==
    /\ Cardinality(rows) < MaxRows
    /\ now <= start + Lag
    /\ \E n \in 1..2 :
          rows' = rows \cup {[id |-> Cardinality(rows), group |-> g, start |-> start, client |-> client,
                              vendors |-> n, amended |-> FALSE]}
    /\ UNCHANGED <<now, rule, quiet, pass, last, alerts, met, changes, faults>>

Change == changes + faults < MaxChanges /\ changes' = changes + 1

(* A late event joins a record that is there already. The merge adds its   *)
(* vendor, prefers its address, begins with the earlier window, and says   *)
(* anew what the record is: outcome, kind of disagreement and confidence.  *)
Amend(row) ==
    /\ Change
    /\ \E start \in 0..row.start, g \in Groups, client \in Clients, n \in row.vendors..2 :
          rows' = (rows \ {row}) \cup {[id |-> row.id, group |-> g, start |-> start, client |-> client,
                                        vendors |-> n, amended |-> TRUE]}
    /\ UNCHANGED <<now, rule, quiet, pass, last, alerts, met, faults>>

(* A pass reads the rules first.                                           *)
EvaluateAll(p) ==
    /\ pass[p].step = "idle"
    /\ last[p] < now
    /\ last' = [last EXCEPT ![p] = now]
    /\ IF rule.enabled
       THEN pass' = [pass EXCEPT ![p] = [Idle EXCEPT !.step = "measure", !.since = now, !.rule = rule]]
       ELSE UNCHANGED pass
    /\ UNCHANGED <<now, rows, rule, quiet, alerts, met, changes, faults>>

Evaluate(p) ==
    /\ pass[p].step = "measure"
    /\ LET r == pass[p].rule
           found == Measure(r.condition, WindowFor(r, pass[p].since))
           fired == {m \in found : Satisfied(r.condition, m.value)}
       IN  /\ \E linked \in [fired -> SUBSET rows] :
                 /\ \A m \in fired : linked[m] \in Evidence(m.counted)
                 /\ pass' = [pass EXCEPT ![p] =
                       IF fired = {} THEN Idle
                       ELSE [@ EXCEPT !.step = "fire",
                                      !.fired = {[group |-> m.group, evidence |-> Linked(linked[m])] : m \in fired}]]
           /\ met' = met \cup {<<m.group, pass[p].since>> : m \in fired}
    /\ UNCHANGED <<now, rows, rule, quiet, last, alerts, changes, faults>>

(* The measurement fails, and the pass goes on without it.                 *)
MeasureFails(p) ==
    /\ pass[p].step = "measure"
    /\ changes + faults < MaxChanges
    /\ faults' = faults + 1
    /\ pass' = [pass EXCEPT ![p] = Idle]
    /\ UNCHANGED <<now, rows, rule, quiet, last, alerts, met, changes>>

(* The cooldown of a group is claimed, and with it the alert is stored.    *)
Fire(p) ==
    /\ pass[p].step = "fire"
    /\ \E m \in pass[p].fired :
          /\ pass' = [pass EXCEPT ![p] = IF @.fired = {m} THEN Idle ELSE [@ EXCEPT !.fired = @ \ {m}]]
          /\ IF quiet[m.group] > now THEN UNCHANGED <<quiet, alerts>>
             ELSE /\ quiet' = [quiet EXCEPT ![m.group] = now + pass[p].rule.condition.cooldown]
                  /\ alerts' = alerts \cup {[group |-> m.group, to |-> pass[p].since, evidence |-> m.evidence,
                                             version |-> pass[p].rule.version]}
    /\ UNCHANGED <<now, rows, rule, last, met, changes, faults>>

UpdateAlertRule(c, enabled) ==
    /\ Change
    /\ c # NoCondition => Validate(c)
    /\ rule' = ApplyRuleEdit(rule, c, enabled)
    /\ UNCHANGED <<now, rows, quiet, pass, last, alerts, met, faults>>

DeleteAlertRule ==
    /\ Change /\ rule.enabled
    /\ rule' = [rule EXCEPT !.enabled = FALSE, !.version = @ + 1]
    /\ UNCHANGED <<now, rows, quiet, pass, last, alerts, met, faults>>

(* Evaluation and delivery have a ticker each, but the worker is one loop: *)
(* a pass that is due waits for the webhooks that are being called.        *)
OnTime(p) ==
    IF pass[p].step = "idle" THEN now < last[p] + Interval + MaxBusy
    ELSE now < pass[p].since + MaxPass

Tick ==
    /\ now < MaxTime
    /\ \A p \in Processors : OnTime(p)
    /\ now' = now + 1
    /\ UNCHANGED <<rows, rule, quiet, pass, last, alerts, met, changes, faults>>

Next ==
    \/ \E start \in 0..now, g \in Groups, client \in Clients : Write(start, g, client)
    \/ \E row \in rows : Amend(row)
    \/ \E p \in Processors :
          EvaluateAll(p) \/ Evaluate(p) \/ MeasureFails(p) \/ Fire(p)
    \/ \E c \in Asked \cup {NoCondition}, enabled \in BOOLEAN : UpdateAlertRule(c, enabled)
    \/ DeleteAlertRule \/ Tick

Spec == Init /\ [][Next]_vars

-----------------------------------------------------------------------------
(* What lies between two measurements of one worker, at most.              *)
Gap == Interval + MaxBusy

(* A burst is measured whole: where as many requests as the threshold asks *)
(* for begin close enough together, whether or not a boundary of the clock *)
(* falls between them, a pass over a window with all of them satisfies the *)
(* rule, provided the window is longer than the burst by the time records  *)
(* take to appear and the time between two passes ("a rule [that] sits     *)
(* enabled and silent [is] the worst state for an alert", condition.go).   *)
SpikeIsSeen ==
    rule.version = 1 /\ rule.enabled /\ faults = 0 =>
        \A R \in SUBSET {row \in rows : ~row.amended} :
            LET c == rule.condition
                first == CHOOSE t \in {row.start : row \in R} : \A row \in R : t <= row.start
                final == CHOOSE t \in {row.start : row \in R} : \A row \in R : t >= row.start
            IN  /\ R # {} /\ c.comparator = "gte"
                /\ \A row \in R : Filtered(c, row)
                /\ c.grouped => Cardinality({row.group : row \in R}) = 1
                /\ AggregateExpr(c, R) >= c.threshold
                /\ final - first + Lag + Gap <= c.window
                /\ now > final + Lag + Gap + MaxPass
                => \E g \in IF c.grouped THEN {row.group : row \in R} ELSE {"all"} :
                      \E t \in final + 1..final + Lag + Gap : <<g, t>> \in met

(* "One sustained condition [does not produce] a stream of duplicate       *)
(* alerts" (condition.go): two alerts of one group rest on different       *)
(* requests, but for those that, as the second measured them, began while  *)
(* the first was being fired.                                              *)
EvidenceIsFresh ==
    \A a, b \in alerts :
        a.group = b.group /\ a.version = b.version /\ a.to < b.to =>
            \A x \in a.evidence, y \in b.evidence : x.id = y.id => y.start + MaxPass >= a.to

(* "The first thing anyone does with an alert is try to reproduce it"      *)
(* (evaluator.go): the dry run over the window of an alert still counts    *)
(* each record of its evidence, whatever joined it since, unless a late    *)
(* event made it begin before the window, or be something else than the    *)
(* rule groups by or filters on.                                           *)
AlertSpan(a) == WindowFor([window |-> rule.condition.window], a.to)

EvidenceIsReproducible ==
    \A a \in alerts :
        a.version = rule.version =>
            \A x \in a.evidence, row \in rows :
                row.id = x.id /\ row.group = x.group /\ row.start >= AlertSpan(a).from =>
                    \E m \in PreviewAlertRule(rule.condition, a.to) : m.group = a.group /\ row \in m.counted

(* What one would like: that the dry run still satisfies the rule. Late    *)
(* events take records out of the window and out of their group, so that   *)
(* it may not, nor need the records it links be those of the alert: the    *)
(* code does not keep this.                                                *)
AlertsAreReproduced ==
    \A a \in alerts :
        a.version = rule.version /\ rule.condition.comparator = "gte" =>
            \E m \in PreviewAlertRule(rule.condition, a.to) :
                m.group = a.group /\ Satisfied(rule.condition, m.value)

(* The three of them.                                                      *)
BurstsAreToldOnce == SpikeIsSeen /\ EvidenceIsFresh /\ EvidenceIsReproducible
=============================================================================
