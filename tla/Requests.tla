------------------------------- MODULE Requests -------------------------------
(* Requests of the console, from the listener to the answer: the middleware  *)
(* chain (server/http.go, middleware/ratelimit.go, middleware/auth.go), what *)
(* each handler that reads refuses and reads (service/), and which error     *)
(* code a read that failed leaves with (query/bounds.go, middleware).        *)
(*                                                                           *)
(* A handler is what it refuses, in order, and what it reads, in order. What *)
(* the reads answer is the subject of Search, Browsing, Rollups and Panels.  *)
EXTENDS Naturals, Sequences, SequencesExt

CONSTANTS Slots,          \* requests in flight
          Plain,          \* slots only admins ask for the tenant's settings in (a bound)
          Roles,          \* roles of those who ask in the others
          TenantLimit,    \* apiRateLimiter: a minute's requests of scope "tenant"
          PeerLimit,      \* and of scope "peer"; both are charged to one subject
          MaxTime, MaxRequests, MaxFaults

VARIABLES now,        \* the minute
          counts,     \* scope -> what Redis counted this minute
          active,     \* whether the tenant operates
          slot,       \* Slots -> the request and how far it is
          arrived, faults,
          admitted    \* of this minute's requests, those the counters let through

vars == <<now, counts, active, slot, arrived, faults, admitted>>

Scopes == <<"tenant", "peer">>

LimitOf(scope) == IF scope = "tenant" THEN TenantLimit ELSE PeerLimit

------------------------------------------------------------------------------
(* Errors: what a store raises, and the codes of the error envelope.         *)

Raised == {"deadline", "timeout", "canceled", "missing", "broken"}

StatusOf ==
    [OK |-> 200, UNAUTHENTICATED |-> 401, PERMISSION_DENIED |-> 403, TENANT_SUSPENDED |-> 403,
     VALIDATION_FAILED |-> 400, TIME_RANGE_REQUIRED |-> 400, TIME_RANGE_TOO_LARGE |-> 400,
     RESULT_LIMIT_EXCEEDED |-> 400, QUERY_TIMEOUT |-> 408, CURSOR_INVALID |-> 400,
     NOT_FOUND |-> 404, RATE_LIMITED |-> 429, CLIENT_CLOSED_REQUEST |-> 499, INTERNAL |-> 500]

Codes == DOMAIN StatusOf \ {"OK"}

(* AsError: a code stays what it is.                                         *)
AsError(e) ==
    CASE e \in Codes -> e
      [] e = "deadline" -> "QUERY_TIMEOUT"
      [] e = "canceled" -> "CLIENT_CLOSED_REQUEST"
      [] OTHER -> "INTERNAL"

(* isTimeout: the server's execution limit and the socket's deadline.        *)
IsTimeout(e) == e = "timeout"

(* A variant that classifies what is classified again.                      *)
TranslateErrorAgain(e) ==
    IF e = "deadline" \/ IsTimeout(e) THEN "QUERY_TIMEOUT"
    ELSE IF e = "canceled" THEN AsError(e) ELSE "INTERNAL"

(* TranslateError: what is classified passes untouched.                      *)
TranslateError(e) ==
    IF e \in Codes THEN e
    ELSE IF e = "deadline" \/ IsTimeout(e) THEN "QUERY_TIMEOUT"
    ELSE IF e = "canceled" THEN AsError(e) ELSE "INTERNAL"

(* notFoundOr.                                                               *)
NotFoundOr(e) == IF e = "missing" THEN "NOT_FOUND" ELSE "INTERNAL"

(* What a failed read of each manner leaves the handler with: repositories   *)
(* of event data translate and so do the services above them; those of the   *)
(* control plane do not, and their handlers say INTERNAL.                    *)
Leaves(manner, e) ==
    CASE manner = "twice" -> TranslateError(TranslateError(e))
      [] manner = "once" -> TranslateError(e)
      [] manner = "internal" -> "INTERNAL"
      [] manner = "found" -> NotFoundOr(e)
      [] manner = "object" -> "NOT_FOUND"

(* A read whose failure is part of the answer.                               *)
Spare(manner) == manner \in {"spare", "shown"}

------------------------------------------------------------------------------
(* What the handlers refuse: the flaws of a request, each with its code.     *)

Unless(flaw, code) == [flaw |-> flaw, code |-> code]

Handler(checks, reads) == [checks |-> checks, reads |-> reads]

Read(what, manner) == [what |-> what, manner |-> manner]

(* Limits.Range, after a handler has found both bounds.                      *)
BoundedRange == <<Unless("empty range", "VALIDATION_FAILED"),
                  Unless("wide range", "TIME_RANGE_TOO_LARGE")>>

(* dashboardQuery, intervalFromProto.                                        *)
DashboardQuery ==
    <<Unless("no range", "TIME_RANGE_REQUIRED"), Unless("half range", "TIME_RANGE_REQUIRED")>>
        \o BoundedRange \o <<Unless("other interval", "VALIDATION_FAILED")>>

(* tuningQuery: a bound that is missing is read as 1970.                     *)
TuningQuery ==
    <<Unless("no range", "TIME_RANGE_REQUIRED"), Unless("half range", "TIME_RANGE_TOO_LARGE")>>
        \o BoundedRange

(* migrationQuery does the same.                                             *)
MigrationQuery == TuningQuery

(* SearchService.timeRange.                                                  *)
SearchRange ==
    <<Unless("no range", "TIME_RANGE_REQUIRED"), Unless("half range", "TIME_RANGE_REQUIRED")>>
        \o BoundedRange

(* requireTimeRange, correlatedRange: any width.                             *)
RequireTimeRange ==
    <<Unless("no range", "TIME_RANGE_REQUIRED"), Unless("half range", "TIME_RANGE_REQUIRED"),
      Unless("empty range", "VALIDATION_FAILED")>>

(* parseUUID.                                                                *)
ParseUUID == <<Unless("malformed id", "VALIDATION_FAILED")>>

IdRequired == <<Unless("no id", "VALIDATION_FAILED")>>

------------------------------------------------------------------------------
(* Names the answer is dressed with: a name that cannot be read is left out. *)

NameClients == Read("networks", "spare")
NameNetworks == Read("networks", "spare")
DescribeEvents == Read("rules", "spare")
DescribeVerdicts == Read("rules", "spare")
DescribeRuleCounts == Read("rules", "spare")
DescribeWAFRules == Read("rules", "spare")
DescribeAgreementRules == Read("rules", "spare")

------------------------------------------------------------------------------
(* Dashboards.                                                               *)

ReadDisk == Read("disks", "once")
ReadTables == Read("tables", "once")
ReadDaily == Read("partitions", "once")

GetStorage == Handler(<<>>, <<ReadDisk, ReadTables, ReadDaily>>)

GetOverview ==
    Handler(DashboardQuery, <<Read("volume", "twice"), Read("verdicts", "twice")>>)

GetRules == Handler(DashboardQuery, <<Read("top rules", "twice"), DescribeRuleCounts>>)

GetSources ==
    Handler(DashboardQuery,
            <<Read("top sources", "twice"), Read("top asns", "twice"), NameNetworks>>)

GetDisagreements == Handler(DashboardQuery, <<Read("disagreements", "twice")>>)

GetFeedHealthPanel == Handler(<<>>, <<Read("feeds", "internal"), Read("health", "internal")>>)

GetCorrelationHealth == Handler(<<>>, <<Read("correlation health", "once")>>)

(* WAF tuning and migration.                                                 *)

GetRuleProfile == Handler(TuningQuery, <<Read("profile", "twice"), DescribeWAFRules>>)

GetRulePaths == Handler(IdRequired \o TuningQuery, <<Read("paths", "twice")>>)

GetRuleSamples == Handler(IdRequired \o TuningQuery, <<Read("samples", "twice")>>)

GetCoverageGaps == Handler(TuningQuery, <<Read("gaps", "twice")>>)

GetCorroboration == Handler(IdRequired \o TuningQuery, <<Read("corroboration", "twice")>>)

GetUncovered == Handler(MigrationQuery, <<Read("uncovered", "twice")>>)

(* The configured candidates, the observed ones, and what F5 made of them.   *)
Agreement ==
    Handler(MigrationQuery,
            <<Read("monitored", "once"), Read("observed", "twice"), Read("agreement", "twice"),
              DescribeAgreementRules>>)

GetMigrationSamples ==
    Handler(IdRequired \o <<Unless("other verdict", "VALIDATION_FAILED")>> \o MigrationQuery,
            <<Read("samples", "twice")>>)

(* Without the payload the answer is that the rules were not consulted.      *)
ExplainOwasp == Handler(IdRequired, <<Read("payload", "shown"), Read("engine", "internal")>>)

(* Feeds.                                                                    *)

ListFeeds == Handler(<<>>, <<Read("feeds", "internal"), Read("health", "internal")>>)

GetFeed == Handler(ParseUUID, <<Read("feed", "found"), Read("health", "internal")>>)

(* A check that fails is the answer.                                         *)
TestFeed == Handler(ParseUUID, <<Read("feed", "found"), Read("secret", "shown")>>)

GetFeedHealth == GetFeed

ListRejectedEvents == Handler(ParseUUID \o RequireTimeRange, <<Read("rejected", "internal")>>)

(* Administration.                                                           *)

ListUsers == Handler(<<>>, <<Read("users", "internal"), Read("tenant", "internal")>>)

GetTenantSettings == Handler(<<>>, <<Read("tenant", "internal")>>)

GetCorrelationSettings == GetTenantSettings

(* A chain that cannot be read is shown as a broken one.                     *)
ListAuditEntries ==
    Handler(<<Unless("no range", "TIME_RANGE_REQUIRED"), Unless("half range", "TIME_RANGE_REQUIRED")>>,
            <<Read("entries", "internal"), Read("chain", "shown")>>)

(* Any failure to read the user is "user not found".                         *)
Me == Handler(<<>>, <<Read("tenant", "internal"), Read("user", "object")>>)

(* Alerts.                                                                   *)

ListAlertRules == Handler(<<>>, <<Read("rules", "internal")>>)

RuleName == Read("rule", "spare")

ListAlerts == Handler(ParseUUID, <<Read("alerts", "internal"), RuleName>>)

GetAlert == Handler(ParseUUID, <<Read("alert", "found"), RuleName>>)

(* Search.                                                                   *)

SearchEvents ==
    Handler(SearchRange \o <<Unless("malformed filter", "VALIDATION_FAILED"),
                             Unless("malformed cursor", "CURSOR_INVALID")>>,
            <<Read("events", "twice"), NameClients, DescribeEvents>>)

(* A search without identifiers: Browsing has those that name one.           *)
SearchCorrelated ==
    Handler(SearchRange \o <<Unless("malformed filter", "VALIDATION_FAILED"),
                             Unless("malformed cursor", "CURSOR_INVALID")>>,
            <<Read("records", "twice"), NameClients, DescribeVerdicts>>)

GetEvent ==
    Handler(IdRequired,
            <<Read("event", "found"), NameClients, DescribeEvents, Read("payload", "spare"),
              Read("correlation", "spare")>>)

GetCorrelatedRequest ==
    Handler(ParseUUID, <<Read("record", "found"), NameClients, DescribeVerdicts>>)

ListCorrelatedRequests ==
    Handler(RequireTimeRange \o <<Unless("huge page", "RESULT_LIMIT_EXCEEDED")>>,
            <<Read("records", "internal"), NameClients, DescribeVerdicts>>)

(* The handlers that are registered, by operation.                           *)
HandlersOf(op) ==
    CASE op = "GetStorage" -> GetStorage
      [] op = "GetOverview" -> GetOverview
      [] op = "GetRules" -> GetRules
      [] op = "GetSources" -> GetSources
      [] op = "GetDisagreements" -> GetDisagreements
      [] op = "GetFeedHealthPanel" -> GetFeedHealthPanel
      [] op = "GetCorrelationHealth" -> GetCorrelationHealth
      [] op = "GetRuleProfile" -> GetRuleProfile
      [] op = "GetRulePaths" -> GetRulePaths
      [] op = "GetRuleSamples" -> GetRuleSamples
      [] op = "GetCoverageGaps" -> GetCoverageGaps
      [] op = "GetCorroboration" -> GetCorroboration
      [] op = "GetUncovered" -> GetUncovered
      [] op = "GetMigrationSamples" -> GetMigrationSamples
      [] op = "ExplainOwasp" -> ExplainOwasp
      [] op = "ListFeeds" -> ListFeeds
      [] op = "GetFeed" -> GetFeed
      [] op = "TestFeed" -> TestFeed
      [] op = "GetFeedHealth" -> GetFeedHealth
      [] op = "ListRejectedEvents" -> ListRejectedEvents
      [] op = "ListUsers" -> ListUsers
      [] op = "GetTenantSettings" -> GetTenantSettings
      [] op = "GetCorrelationSettings" -> GetCorrelationSettings
      [] op = "ListAuditEntries" -> ListAuditEntries
      [] op = "Me" -> Me
      [] op = "ListAlertRules" -> ListAlertRules
      [] op = "ListAlerts" -> ListAlerts
      [] op = "GetAlert" -> GetAlert
      [] op = "SearchEvents" -> SearchEvents
      [] op = "SearchCorrelated" -> SearchCorrelated
      [] op = "GetEvent" -> GetEvent
      [] op = "GetCorrelatedRequest" -> GetCorrelatedRequest
      [] op = "ListCorrelatedRequests" -> ListCorrelatedRequests
      [] op \in {"GetReadyToEnforce", "GetFalsePositives"} -> Agreement

(* casbin/policy.csv: what no line names is denied.                          *)
Reading ==
    {"GetOverview", "GetRules", "GetSources", "GetDisagreements", "GetFeedHealthPanel",
     "GetCorrelationHealth", "ListFeeds", "GetFeed", "GetFeedHealth", "Me",
     "ListAlertRules", "ListAlerts", "GetAlert", "SearchEvents", "SearchCorrelated",
     "GetEvent", "GetCorrelatedRequest", "ListCorrelatedRequests"}

Tuning ==
    {"GetRuleProfile", "GetRulePaths", "GetRuleSamples", "GetCoverageGaps",
     "GetCorroboration", "GetUncovered", "GetReadyToEnforce", "GetFalsePositives",
     "GetMigrationSamples", "ExplainOwasp"}

Administering ==
    {"GetCorrelationSettings", "GetStorage", "GetTenantSettings", "ListUsers", "TestFeed"}

Ops == Reading \cup Tuning \cup Administering \cup {"ListRejectedEvents", "ListAuditEntries"}

Policy(role) ==
    CASE role = "admin" -> Ops
      [] role = "analyst" -> Reading \cup Tuning \cup {"ListRejectedEvents"}
      [] role = "auditor" -> Reading \cup {"ListAuditEntries"}
      [] OTHER -> {}

Flaws(op) == {c.flaw : c \in ToSet(HandlersOf(op).checks)}

(* Enforcer.Allow, with the path template as the policy spells it.           *)
Allow(role, op) == op \in Policy(role)

------------------------------------------------------------------------------
(* Requests that may arrive: with no flaw, with one, or with no valid token. *)

Ask(op, flaws, role, token) == [op |-> op, flaws |-> flaws, role |-> role, token |-> token]

Asks(s) ==
    IF s \in Plain THEN {Ask("GetTenantSettings", {}, "admin", "valid")}
    ELSE {Ask("Me", {}, "admin", "expired")}
            \cup {Ask(op, {}, role, "valid") : op \in Ops, role \in Roles}
            \cup UNION {{Ask(op, {f}, "admin", "valid") : f \in Flaws(op)} : op \in Ops}

(* A request on its way.                                                     *)

Idle == [at |-> "idle"]

Arrived(ask) ==
    [at |-> "limit", op |-> ask.op, flaws |-> ask.flaws, token |-> ask.token, role |-> ask.role,
     scopes |-> Scopes, checks |-> HandlersOf(ask.op).checks,
     todo |-> HandlersOf(ask.op).reads, left |-> "nobody",
     raised |-> {}, code |-> ""]

Init ==
    /\ now = 0 /\ counts = [sc \in ToSet(Scopes) |-> 0] /\ active = TRUE
    /\ slot = [s \in Slots |-> Idle] /\ arrived = 0 /\ faults = 0 /\ admitted = 0

Set(s, r) == slot' = [slot EXCEPT ![s] = r]

Answer(s, code) == Set(s, [slot[s] EXCEPT !.at = "answered", !.code = code])

Arrive(s) ==
    /\ slot[s].at \in {"idle", "answered"} /\ arrived < MaxRequests
    /\ \E ask \in Asks(s) : Set(s, Arrived(ask))
    /\ arrived' = arrived + 1
    /\ UNCHANGED <<now, counts, active, faults, admitted>>

(* RateLimiter.Allow: one INCR a scope, and what is refused stays charged.   *)
Charge(s) ==
    LET sc == Head(slot[s].scopes)
        passes == counts[sc] < LimitOf(sc)
        last == Len(slot[s].scopes) = 1
    IN  /\ slot[s].at = "limit"
        /\ counts' = [counts EXCEPT ![sc] = @ + 1]
        /\ IF ~passes THEN Answer(s, "RATE_LIMITED")
           ELSE Set(s, [slot[s] EXCEPT !.scopes = Tail(@), !.at = IF last THEN "authenticate" ELSE @])
        /\ admitted' = IF passes /\ last THEN admitted + 1 ELSE admitted
        /\ UNCHANGED <<now, active, arrived, faults>>

(* RateLimiter.Middleware: a counter that does not answer lets the request in.*)
FailOpen(s) ==
    /\ slot[s].at = "limit" /\ faults < MaxFaults
    /\ Set(s, [slot[s] EXCEPT !.at = "authenticate", !.scopes = <<>>])
    /\ faults' = faults + 1
    /\ UNCHANGED <<now, counts, active, arrived, admitted>>

(* authenticate: which half of a token was wrong is not told.                *)
Authenticate(s) ==
    /\ slot[s].at = "authenticate"
    /\ IF slot[s].token = "valid" THEN Set(s, [slot[s] EXCEPT !.at = "scope"])
       ELSE Answer(s, "UNAUTHENTICATED")
    /\ UNCHANGED <<now, counts, active, arrived, faults, admitted>>

(* scopeToTenant: the tenant is read for every request.                      *)
ScopeToTenant(s) ==
    /\ slot[s].at = "scope"
    /\ IF active THEN Set(s, [slot[s] EXCEPT !.at = "authorize"])
       ELSE Answer(s, "TENANT_SUSPENDED")
    /\ UNCHANGED <<now, counts, active, arrived, faults, admitted>>

TenantUnreadable(s) ==
    /\ slot[s].at = "scope" /\ faults < MaxFaults
    /\ Set(s, [slot[s] EXCEPT !.at = "answered", !.code = "INTERNAL", !.raised = {"broken"}])
    /\ faults' = faults + 1
    /\ UNCHANGED <<now, counts, active, arrived, admitted>>

Authorize(s) ==
    /\ slot[s].at = "authorize"
    /\ IF Allow(slot[s].role, slot[s].op) THEN Set(s, [slot[s] EXCEPT !.at = "validate"])
       ELSE Answer(s, "PERMISSION_DENIED")
    /\ UNCHANGED <<now, counts, active, arrived, faults, admitted>>

(* The first flaw a handler looks for is the one it names.                   *)
Validate(s) ==
    LET found == SelectSeq(slot[s].checks, LAMBDA c : c.flaw \in slot[s].flaws)
    IN  /\ slot[s].at = "validate"
        /\ IF found # <<>> THEN Answer(s, Head(found).code)
           ELSE Set(s, [slot[s] EXCEPT !.at = "read"])
        /\ UNCHANGED <<now, counts, active, arrived, faults, admitted>>

(* Limits.WithTimeout, and http.Timeout for the handlers without one: reads  *)
(* of a request share one deadline.                                          *)
RunOut(s) ==
    /\ slot[s].at = "read" /\ slot[s].left = "nobody" /\ faults < MaxFaults
    /\ Set(s, [slot[s] EXCEPT !.left = "deadline"])
    /\ faults' = faults + 1
    /\ UNCHANGED <<now, counts, active, arrived, admitted>>

HangUp(s) ==
    /\ slot[s].at = "read" /\ slot[s].left = "nobody" /\ faults < MaxFaults
    /\ Set(s, [slot[s] EXCEPT !.left = "canceled"])
    /\ faults' = faults + 1
    /\ UNCHANGED <<now, counts, active, arrived, admitted>>

ReadOn(s) ==
    /\ slot[s].at = "read" /\ slot[s].todo # <<>> /\ slot[s].left = "nobody"
    /\ Set(s, [slot[s] EXCEPT !.todo = Tail(@)])
    /\ UNCHANGED <<now, counts, active, arrived, faults, admitted>>

(* A read fails, for want of time, of the client, of the row or of the store.*)
ReadFails(s) ==
    LET read == Head(slot[s].todo) IN
    \E e \in Raised :
        /\ slot[s].at = "read" /\ slot[s].todo # <<>>
        /\ (slot[s].left # "nobody") => e = slot[s].left
        /\ (slot[s].left = "nobody") => e \notin {"deadline", "canceled"} /\ faults < MaxFaults
        /\ e = "missing" => read.manner \in {"found", "object", "spare", "shown"}
        /\ LET told == [slot[s] EXCEPT !.raised = @ \cup {e}] IN
           Set(s, IF Spare(read.manner)
                  THEN [told EXCEPT !.todo = IF read.manner = "shown" THEN <<>> ELSE Tail(@)]
                  ELSE [told EXCEPT !.at = "answered",
                                    !.code = AsError(Leaves(read.manner, e))])
        /\ faults' = IF slot[s].left = "nobody" THEN faults + 1 ELSE faults
        /\ UNCHANGED <<now, counts, active, arrived, admitted>>

AnswerOK(s) ==
    /\ slot[s].at = "read" /\ slot[s].todo = <<>>
    /\ Answer(s, "OK")
    /\ UNCHANGED <<now, counts, active, arrived, faults, admitted>>

SuspendTenant ==
    /\ active /\ active' = FALSE
    /\ UNCHANGED <<now, counts, slot, arrived, faults, admitted>>

(* Another minute is another key.                                            *)
Tick ==
    /\ now < MaxTime /\ now' = now + 1
    /\ counts' = [sc \in DOMAIN counts |-> 0] /\ admitted' = 0
    /\ UNCHANGED <<active, slot, arrived, faults>>

Next ==
    \/ \E s \in Slots : \/ Arrive(s) \/ Charge(s) \/ FailOpen(s) \/ Authenticate(s)
                        \/ ScopeToTenant(s) \/ TenantUnreadable(s) \/ Authorize(s)
                        \/ Validate(s) \/ RunOut(s) \/ HangUp(s) \/ ReadOn(s) \/ ReadFails(s)
                        \/ AnswerOK(s)
    \/ SuspendTenant \/ Tick

Spec == Init /\ [][Next]_vars

------------------------------------------------------------------------------

Answered(s) == slot[s].at = "answered"

(* The handlers whose every read tells a timeout from a fault.               *)
TellsTimeouts(op) ==
    \A i \in DOMAIN HandlersOf(op).reads : HandlersOf(op).reads[i].manner \in {"twice", "once", "spare"}

(* No minute lets more of a peer's requests through than the scope allows.   *)
PeerIsBounded == admitted <= PeerLimit

(* A timeout is answered as one, by handlers that can tell, and an INTERNAL  *)
(* of theirs is a fault of the platform's (query/bounds.go:148-150).         *)
TimeoutsAreTold ==
    \A s \in Slots : Answered(s) =>
        /\ slot[s].code = "QUERY_TIMEOUT" => slot[s].raised \cap {"deadline", "timeout"} # {}
        /\ slot[s].code = "INTERNAL" /\ TellsTimeouts(slot[s].op) => "broken" \in slot[s].raised

(* The sender is told of a flaw only for a flaw of its own, and of a missing *)
(* object only when it is missing; Me calls every failure of its read that.  *)
SenderIsNotBlamed ==
    \A s \in Slots : Answered(s) =>
        /\ StatusOf[slot[s].code] = 400 => slot[s].flaws # {}
        /\ slot[s].code = "NOT_FOUND" /\ slot[s].op # "Me" => "missing" \in slot[s].raised

(* An answer without a spare read is whole.                                  *)
AnswersAreWhole ==
    \A s \in Slots : Answered(s) /\ slot[s].code = "OK" =>
        slot[s].raised = {}
            \/ \E i \in DOMAIN HandlersOf(slot[s].op).reads : Spare(HandlersOf(slot[s].op).reads[i].manner)

(* A read is done for an admitted role of a tenant only.                     *)
ReadsArePermitted ==
    \A s \in Slots : slot[s].at = "read" =>
        slot[s].token = "valid" /\ slot[s].op \in Policy(slot[s].role)

AnswersAreTold ==
    PeerIsBounded /\ TimeoutsAreTold /\ SenderIsNotBlamed /\ AnswersAreWhole /\ ReadsArePermitted
=============================================================================
