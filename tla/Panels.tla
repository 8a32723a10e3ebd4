-------------------------------- MODULE Panels --------------------------------
(* What the WAF panels tell of the correlated requests: the three stages   *)
(* of a migration from F5 to Cloudflare (service/wafmigration.go over      *)
(* data/clickhouse/wafmigration*.go), the requests behind a row of them,   *)
(* and what the other vendors made of a rule's requests (waftuning.go). A  *)
(* panel is a pure reading of the tables, so it is an operator; what       *)
(* happens is that requests are logged, that their records are written and *)
(* amended, that ClickHouse merges superseded rows away, and that rules    *)
(* are enforced. Everything is in the panel's range, on one host, and      *)
(* within the panel's limit.                                               *)
EXTENDS Naturals, Sequences, FiniteSets, SequencesExt

CONSTANTS
    Requests,   \* the requests to come
    Earlier,    \* requests that are on record already, under one rule in log mode
    Rules,      \* the Cloudflare rules that detect something
    Managed,    \* those of them whose ruleset overrides the action in the rule table
    Bar,        \* MinCorrelatedForReading
    MaxEvents   \* bound: events of one request

Skip == "skip"  \* a rule that exempts

VARIABLES
    action,   \* action[x]: what Cloudflare runs rule x as, "log" or "block"
    events,   \* normalized_events, of Cloudflare and F5
    rows      \* correlated_requests, superseded rows included

vars == <<action, events, rows>>

VendorOf == [edge |-> "cloudflare", fetch |-> "cloudflare", appliance |-> "f5", retry |-> "f5"]

(* The order of the ids.                                                   *)
Rank == [appliance |-> 1, edge |-> 2, fetch |-> 3, retry |-> 4]

Later(e, f) == e.time > f.time \/ (e.time = f.time /\ Rank[e.at] > Rank[f.at])

-----------------------------------------------------------------------------
(* Records.                                                                *)

RowsOf(r) == {row \in rows : row.of = r}

(* The newest version of a request's record, which is all there is of it   *)
(* once ClickHouse has merged.                                             *)
Newest(r) == CHOOSE row \in RowsOf(r) : \A other \in RowsOf(r) : other.version <= row.version
Current == {Newest(r) : r \in {row.of : row \in rows}}

(* The last of a vendor's events, in the order of their times, speaks for  *)
(* it, and the last that names a rule names the rule.                      *)
LastOf(E) == CHOOSE e \in E : \A f \in E : f = e \/ Later(e, f)

BuildRow(r, E) ==
    LET of(v) == {e \in E : VendorOf[e.at] = v}
        ruling == {e \in of("cloudflare") : e.rule # ""}
    IN  [of |-> r, version |-> 1,
         ids |-> {e.id : e \in E},
         verdicts |-> [v \in {VendorOf[e.at] : e \in E} |-> LastOf(of(v)).verdict],
         rule |-> IF ruling = {} THEN "" ELSE LastOf(ruling).rule,
         matched |-> UNION {e.matched : e \in of("cloudflare")}]

(* The fresh side wins where both have something; the matched rules are    *)
(* not named by the merge and are the fresh side's.                        *)
MergeRows(stored, fresh) ==
    [fresh EXCEPT !.version = stored.version + 1,
                  !.ids = stored.ids \cup @,
                  !.verdicts = fresh.verdicts @@ stored.verdicts,
                  !.rule = IF @ = "" THEN stored.rule ELSE @]

(* The window of an event closes with every event of its request, or with  *)
(* this one alone when the others have left it, or with a later event.     *)
Written(r, e) ==
    \/ UNCHANGED rows
    \/ \E E \in {{e}, {f \in events : f.of = r} \cup {e}} :
          LET fresh == BuildRow(r, E)
          IN  rows' = rows \cup {IF RowsOf(r) = {} THEN fresh ELSE MergeRows(Newest(r), fresh)}

-----------------------------------------------------------------------------
(* What happens.                                                           *)

NewEvent(r, hop, time, verdict, rule, matched) ==
    [id |-> <<r, hop>>, of |-> r, at |-> hop, time |-> time, verdict |-> verdict, rule |-> rule,
     matched |-> matched]

(* The migration begins: every rule logs.                                  *)
Init ==
    /\ action = [x \in Rules |-> "log"]
    /\ \E x \in Rules, verdict \in [Earlier -> {"blocked", "allowed"}] :
          LET logged(r) == {NewEvent(r, "edge", 1, "monitored", x, {x}),
                            NewEvent(r, "appliance", 2, verdict[r], "",
                                     IF verdict[r] = "blocked" THEN {"v"} ELSE {})}
          IN  /\ events = UNION {logged(r) : r \in Earlier}
              /\ rows = {BuildRow(r, logged(r)) : r \in Earlier}

(* What a rule in log mode records depends on no other rule, but the rule  *)
(* a request is put down to is the one that ended the evaluation.          *)
Decisions ==
    LET blocking == {x \in Rules : action[x] = "block"}
        all == {[matched |-> M, rule |-> x] : M \in SUBSET (Rules \cup {Skip}), x \in Rules \cup {Skip, ""}}
    IN  {d \in all :
            /\ d.rule \in d.matched \/ (d.matched = {} /\ d.rule = "")
            /\ (d.rule = Skip) <=> (Skip \in d.matched)
            /\ d.matched \cap blocking # {} /\ Skip \notin d.matched => d.rule \in blocking}

VerdictOf(rule) ==
    CASE rule \in {"", Skip} -> "allowed"
      [] rule \in Rules /\ action[rule] = "log" -> "monitored"
      [] OTHER -> "blocked"

Logged(r) == {e \in events : e.of = r}
HasLogged(r, hop) == \E e \in Logged(r) : e.at = hop

(* Whether a request was let past Cloudflare.                              *)
Passed(r) == \A e \in Logged(r) : e.at = "edge" => e.verdict # "blocked"

(* One hop's event of a request reaches the tables, and with it, or before *)
(* the next, the record it belongs to.                                     *)
Arrives(r, hop, time, verdict, rule, matched) ==
    /\ Cardinality(Logged(r)) < MaxEvents
    /\ ~HasLogged(r, hop)
    /\ LET e == NewEvent(r, hop, time, verdict, rule, matched)
       IN  /\ events' = events \cup {e}
           /\ Written(r, e)
    /\ UNCHANGED action

Edge(r) ==
    \E d \in Decisions :
        /\ VerdictOf(d.rule) = "blocked" => Logged(r) = {}
        /\ Arrives(r, "edge", 1, VerdictOf(d.rule), d.rule, d.matched)

(* The origin fetch of a Worker is a row of the same request.              *)
Fetch(r) == HasLogged(r, "edge") /\ Passed(r) /\ Arrives(r, "fetch", 2, "allowed", "", {})

(* F5 names what it objected to. It sees a request once, or twice when it  *)
(* is retried. What it rate-limits the panels take for allowed.            *)
Appliance(r) ==
    \E hop \in {"appliance", "retry"}, time \in {2, 3}, verdict \in {"blocked", "monitored", "allowed"},
       violations \in {{}, {"v"}} :
        /\ Passed(r)
        /\ (hop = "retry") <=> HasLogged(r, "appliance")
        /\ hop = "retry" => \A e \in Logged(r) : e.at = "appliance" => e.time <= time
        /\ hop = "appliance" => time = 2
        /\ verdict # "blocked" => violations = {}
        /\ Arrives(r, hop, time, verdict, "", violations)

(* ClickHouse merges parts when it likes.                                  *)
Merge(r) ==
    /\ Cardinality(RowsOf(r)) > 1
    /\ rows' = rows \ (RowsOf(r) \ {Newest(r)})
    /\ UNCHANGED <<action, events>>

(* The operator trusts a rule.                                             *)
Enforce(x) ==
    /\ action[x] = "log"
    /\ action' = [action EXCEPT ![x] = "block"]
    /\ UNCHANGED <<events, rows>>

Next ==
    \/ \E r \in Requests : Edge(r) \/ Fetch(r) \/ Appliance(r) \/ Merge(r)
    \/ \E x \in Rules : Enforce(x)

Spec == Init /\ [][Next]_vars

-----------------------------------------------------------------------------
(* The stages of the migration.                                            *)

Says(row, vendor, verdict) == vendor \in DOMAIN row.verdicts /\ row.verdicts[vendor] = verdict
Compared(row) == {"f5", "cloudflare"} \subseteq DOMAIN row.verdicts

(* A group of stage 1, and the requests behind it: rows F5 blocked and     *)
(* Cloudflare let pass, each with an F5 event that names the violation.    *)
Uncovered(v) ==
    {p \in rows \X events :
        LET row == p[1]
            e == p[2]
        IN  /\ Says(row, "f5", "blocked") /\ Says(row, "cloudflare", "allowed")
            /\ e.id \in row.ids /\ VendorOf[e.at] = "f5" /\ e.verdict = "blocked" /\ v \in e.matched}

(* A mutant: every request is put down to the rule that decided it.        *)
DecidedRows(x) == {row \in rows : Compared(row) /\ row.rule = x}

(* The rows a rule is measured by: all it matched, whatever decided them.  *)
AgreementRows(x) == {row \in rows : Compared(row) /\ x \in row.matched}

(* A flagged request agrees at half weight. In tenths, and doubled.        *)
Reading(R) ==
    LET count(verdict) == Cardinality({row \in R : Says(row, "f5", verdict)})
        agree == 10 * count("blocked") + 5 * count("monitored")
        n == Cardinality(R)
    IN  CASE n < Bar -> "insufficient"
          [] n >= Bar /\ agree >= 8 * n -> "ready"
          [] n >= Bar /\ agree <= 2 * n -> "false_positive"
          [] OTHER -> "disputed"

(* The rule table knows what a rule is configured to do, the requests show *)
(* what a managed rule was run as.                                         *)
MonitoredActions == {x \in Rules \ Managed : action[x] = "log"}
ObservedMonitoredRules == {row.rule : row \in {row \in rows : Says(row, "cloudflare", "monitored")}} \ {""}
Candidates == MonitoredActions \cup ObservedMonitoredRules

RuleAgreement(readings) ==
    {x \in Candidates : AgreementRows(x) # {} /\ Reading(AgreementRows(x)) \in readings}

GetReadyToEnforce == RuleAgreement({"ready", "disputed", "insufficient"})
GetFalsePositives == RuleAgreement({"false_positive"})

-----------------------------------------------------------------------------
(* The event a sample shows. Both choices go through the ids of the record *)
(* in the order they are stored, which an amendment changes.               *)

(* The latest F5 event, with the id as a tiebreak.                         *)
PickF5Event(ids) ==
    FoldSeq(LAMBDA e, best : IF \A b \in best : Later(e, b) THEN {e} ELSE best, {}, ids)

(* The hop that carries a decision.                                        *)
BetterCloudflareEvent(a, b) ==
    IF (a.rule # "") # (b.rule # "") THEN a.rule # "" ELSE Rank[a.at] > Rank[b.at]

PickCloudflareEvent(ids) ==
    FoldSeq(LAMBDA e, best : IF \A b \in best : BetterCloudflareEvent(e, b) THEN {e} ELSE best,
            {}, ids)

-----------------------------------------------------------------------------
(* The last version that names the rule speaks for its request.            *)
Corroboration(x) ==
    LET naming == {row \in rows : row.rule = x /\ Cardinality(DOMAIN row.verdicts) > 1}
        newest == {row \in naming : \A other \in naming : other.of = row.of => other.version <= row.version}
        others(row) == {row.verdicts[v] : v \in DOMAIN row.verdicts \ {"cloudflare"}}
        confirmed == {row \in newest : others(row) \cap {"blocked", "challenged"} # {}}
    IN  [confirmed |-> {row.of : row \in confirmed}, allowed |-> {row.of : row \in newest \ confirmed}]

-----------------------------------------------------------------------------
(* A violation that F5 blocked each time it saw the request, and that      *)
(* Cloudflare let pass at each hop, is shown as one to write a rule for,   *)
(* in whatever order the hops were logged and the record amended; and none *)
(* is that Cloudflare stopped ("F5 blocked that no Cloudflare rule         *)
(* matched", wafmigration_query.go).                                       *)
UncoveredIsTold ==
    \A row \in Current :
        LET held(v) == {e \in events : e.id \in row.ids /\ VendorOf[e.at] = v}
            shown == \E e \in events : <<row, e>> \in Uncovered("v")
        IN  /\ /\ held("f5") # {} /\ held("cloudflare") # {}
               /\ \A e \in held("f5") : e.verdict = "blocked" /\ "v" \in e.matched
               /\ \A e \in held("cloudflare") : e.verdict = "allowed"
               => shown
            /\ shown => \E e \in held("cloudflare") : e.verdict = "allowed"

(* What F5 thought of the requests a rule matched, as F5 logged it.        *)
Opinions(x) ==
    LET matched == {e.of : e \in {e \in events : VendorOf[e.at] = "cloudflare" /\ x \in e.matched}}
    IN  {e.verdict : e \in {e \in events : VendorOf[e.at] = "f5" /\ e.of \in matched}}

(* The requests it matched of which one closing has seen both vendors.     *)
Measurable(x) ==
    {row \in Current :
        /\ row.version = 1 /\ Compared(row)
        /\ \E e \in events : e.id \in row.ids /\ VendorOf[e.at] = "cloudflare" /\ x \in e.matched}

(* A rule in log mode is judged by every request it matched, though        *)
(* another rule decided it ("the log-mode match disappeared",              *)
(* wafmigration_query.go): where F5 is of one mind about them, so is the   *)
(* stage that shows the rule, and where they are few the rule is shown all *)
(* the same. Of an amended record the matched rules may be lost.           *)
UnanimousIsRead ==
    \A x \in Candidates :
        LET enough == Cardinality(Measurable(x)) >= Bar
        IN  /\ Opinions(x) = {"blocked"} =>
                   /\ x \notin GetFalsePositives
                   /\ Measurable(x) # {} => x \in GetReadyToEnforce
                   /\ enough => x \in RuleAgreement({"ready"})
            /\ Opinions(x) = {"allowed"} =>
                   /\ x \notin RuleAgreement({"ready"})
                   /\ enough => x \in GetFalsePositives

(* A sample shows the same events of its request however the ids of the    *)
(* record are ordered ("so the row does not change between refreshes"),    *)
(* the F5 event being one of the last.                                     *)
SamplesAreStable ==
    \A row \in Current :
        LET orders(v) == SetToSeqs({e \in events : e.id \in row.ids /\ VendorOf[e.at] = v})
        IN  /\ \A s, t \in orders("f5") : PickF5Event(s) = PickF5Event(t)
            /\ \A s, t \in orders("cloudflare") : PickCloudflareEvent(s) = PickCloudflareEvent(t)

(* Of a request whose record names the rule, Corroboration counts the      *)
(* verdicts of the record as it is now, once, though superseded rows of it *)
(* are still there.                                                        *)
CorroborationIsCurrent ==
    \A row \in Current : row.rule # "" /\ Cardinality(DOMAIN row.verdicts) > 1 =>
        LET found == Corroboration(row.rule)
            others == {row.verdicts[v] : v \in DOMAIN row.verdicts \ {"cloudflare"}}
        IN  /\ (row.of \in found.confirmed) <=> (others \cap {"blocked", "challenged"} # {})
            /\ row.of \notin found.confirmed \cap found.allowed

(* What a stage of the migration is decided on: the four of them.          *)
EvidenceIsComplete ==
    UncoveredIsTold /\ UnanimousIsRead /\ SamplesAreStable /\ CorroborationIsCurrent
=============================================================================
