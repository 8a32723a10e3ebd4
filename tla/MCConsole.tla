------------------------------- MODULE MCConsole -------------------------------
(* Small instances of what surrounds the pipeline: the accounts of the     *)
(* console, the credential of a feed, the audit trail, the health of       *)
(* feeds, retention, searches, caches, the firing of alerts, the trip of   *)
(* a request through its hops, sessions, and what the console shows of     *)
(* what is stored. A behaviour is one of the instance its scenario names.  *)
EXTENDS Accounts, Sequences

CONSTANTS FeedOperators, FeedReceivers, FeedRefs, FeedChanges, FeedRestarts, FeedFaults,    \* of FeedSecrets
          Auditors, TrailLength, ClockSkew, TrailFaults,                                     \* of AuditTrail
          Askers, CacheTTL, ReadTime, CacheTime, CacheEdits, CacheFaults,                    \* of Caches
          Customers, AskedPeriods, KeptTTL, AtFirst, DefaultPeriod, LongestPeriod,           \* of Retention
          KeptTime, KeptRows, KeptEdits, KeptFaults,
          BrowserTabs, SigningTabs, SessionRoles, CodeTTL, BearerTTL, CookieTTL, Cookies,    \* of Sessions
          Visits, VariedVisits,                                                              \* of Vendors
          Alerters, AlertGroups, AlertCooldown, AlertAttempts, AlertBatch, AlertHooks,       \* of Alerting
          AlertOperators, AlertsStored, AlertTime, AlertEdits, AlertFaults,
          SearchIds, SearchTimes, SearchPage, SearchCap, SearchChanges, SearchFaults,        \* of Search
          EditedGroups                                       \* bound: what fires while the rule is edited

(* The instances other than Accounts share variables: a behaviour needs    *)
(* those of one of them, and the rest are empty.                           *)
VARIABLES scenario, s1, s2, s3, s4, s5, s6, s7, s8, s9, s10, s11, s12, s13, s14, s15,
          s16

shared == <<s1, s2, s3, s4, s5, s6, s7, s8, s9, s10, s11, s12, s13, s14, s15, s16>>

MCEdits == {[role |-> "keep", status |-> "keep"], [role |-> "keep", status |-> "disabled"],
            [role |-> "analyst", status |-> "active"]}

MCTableTTL == [normalized_events |-> 2, raw_events |-> 2, rejected_events |-> 1,
               correlated_requests |-> 3, alerts |-> 4]

MCAsked ==
    {[aggregate |-> "count", comparator |-> "gte", threshold |-> 2, window |-> 4, cooldown |-> 4,
      vendors |-> 0, only |-> "", grouped |-> TRUE],
     [aggregate |-> "distinct_ips", comparator |-> "gte", threshold |-> 2, window |-> 4,
      cooldown |-> 4, vendors |-> 2, only |-> "g", grouped |-> FALSE],
     [aggregate |-> "rate", comparator |-> "gte", threshold |-> 1, window |-> 3, cooldown |-> 2,
      vendors |-> 0, only |-> "", grouped |-> FALSE]}

(* Two rules of one network, two clients, and an event no rule matched.    *)
MCCounted ==
    LET event(t, verdict, rule, action, band, client, network) ==
            [time |-> t, vendor |-> "cloudflare", verdict |-> verdict, rule |-> rule, action |-> action,
             band |-> band, client |-> client, network |-> network]
    IN  [e1 |-> event(0, "allowed", "x", "log", "clean", "c", "n"),
         e2 |-> event(1, "allowed", "x", "log", "clean", "d", "n"),
         e3 |-> event(2, "blocked", "y", "block", "attack", "c", "n"),
         e4 |-> event(0, "allowed", "", "", "attack", "::", "m")]

MCCountedRanges == {[from |-> 0, to |-> 4], [from |-> 1, to |-> 3]}

(* An event DataDome is named by is read from a payload of Cloudflare's.   *)
MCFollowed ==
    LET event(t, vendor, source, verdict, request) ==
            [time |-> t, vendor |-> vendor, source |-> source, verdict |-> verdict, attack |-> 0,
             request |-> request]
    IN  [i |-> event(0, "cloudflare", "cloudflare", "unknown", "y"),
         j |-> event(1, "datadome", "cloudflare", "allowed", "x"),
         k |-> event(2, "f5", "f5", "blocked", "x")]

MCFollowedRanges == {[from |-> 0, to |-> 4], [from |-> 1, to |-> 2], [from |-> 0, to |-> 2]}

(* What each way of reading can trip over, of each vendor.                 *)
MCSent ==
    LET item == [kind |-> "json", lines |-> 1, size |-> 1, stamp |-> "full", at |-> 0,
                 unknown |-> FALSE, host |-> <<"w", "h">>, spelled |-> TRUE]
        cef == [item EXCEPT !.kind = "cef"]
        delivery(v, s, g, items) == [vendor |-> v, shape |-> s, gzip |-> g, items |-> items]
    IN  [a |-> delivery("cloudflare", "array", TRUE, <<[item EXCEPT !.lines = 2],
                 [item EXCEPT !.unknown = TRUE, !.spelled = FALSE]>>),
         b |-> delivery("cloudflare", "lines", FALSE, <<[item EXCEPT !.kind = "cut"],
                 [item EXCEPT !.unknown = TRUE]>>),
         c |-> delivery("nginx", "array", FALSE, <<[item EXCEPT !.size = 2, !.host = <<>>], item>>),
         d |-> delivery("f5", "syslog", FALSE,
                 <<[item EXCEPT !.kind = "pairs", !.stamp = "noyear", !.at = 1], cef>>),
         e |-> delivery("f5", "cef", FALSE, <<[cef EXCEPT !.unknown = TRUE, !.stamp = "implausible"],
                 [cef EXCEPT !.unknown = TRUE]>>),
         g |-> delivery("datadome", "lines", TRUE, <<item>>),
         h |-> delivery("datadome", "lines", FALSE, <<[item EXCEPT !.stamp = "absent"],
                 [item EXCEPT !.lines = 2]>>),
         i |-> delivery("nginx", "lines", FALSE, <<item, item, item>>)]

MCOffered == {[op |-> "suffix", value |-> <<"h">>], [op |-> "prefix", value |-> <<>>],
              [op |-> "equals", value |-> <<"h">>]}

MCFounded == [t |-> [raw |-> 0, correlated |-> 2, alert |-> 1],
              u |-> [raw |-> 1, correlated |-> 2, alert |-> 1]]

(* Two operators rotate, edit and remove a feed under deliveries.          *)
Secrets == INSTANCE FeedSecrets WITH
    Operators <- FeedOperators, Receivers <- FeedReceivers, MaxRefs <- FeedRefs,
    MaxChanges <- FeedChanges, MaxRestarts <- FeedRestarts, MaxFaults <- FeedFaults,
    row <- s1, revoked <- s2, astray <- s3, sealed <- s4, cache <- s5, minted <- s6,
    changes <- s7, job <- s8, at <- s9, current <- s10, fresh <- s11, step <- s12,
    ref <- s13, backfilled <- s14, restarts <- s15, faults <- s16

(* Two processes write entries; the clock of one may be ahead.             *)
Audit == INSTANCE AuditTrail WITH
    Writers <- Auditors, MaxEntries <- TrailLength, MaxSkew <- ClockSkew, MaxFaults <- TrailFaults,
    now <- s1, skew <- s2, entries <- s3, lock <- s4, at <- s5, entry <- s6, faults <- s7,
    late <- s8

(* One process of each kind counts one feed.                               *)
Health == INSTANCE FeedHealth WITH
    Ingesters <- {"i"}, Processors <- {"p"}, Silence <- 1, Recent <- 1, Hour <- 3,
    MaxTime <- 5, MaxSamples <- 3, MaxFaults <- 2,
    now <- s1, buckets <- s2, taken <- s3, flushing <- s4, table <- s5, received <- s6,
    refused <- s7, samples <- s8, faults <- s9

(* One tenant with a period of its own, one without.                       *)
Kept == INSTANCE Retention WITH
    Tenants <- Customers, Periods <- AskedPeriods, TableTTL <- KeptTTL, Founded <- AtFirst,
    DefaultDays <- DefaultPeriod, MaxDays <- LongestPeriod, MaxTime <- KeptTime,
    MaxRows <- KeptRows, MaxEdits <- KeptEdits, MaxFaults <- KeptFaults,
    time <- s1, rows <- s2, written <- s3, settings <- s4, edits <- s5, todo <- s6,
    work <- s7, passed <- s8, purge <- s9, faults <- s10, inForce <- s11, steady <- s12,
    attempts <- s13

(* Pages of one row; an export of two.                                     *)
Paging == INSTANCE Search WITH
    Ids <- SearchIds, MaxTime <- SearchTimes, PageSize <- SearchPage, ExportCap <- SearchCap,
    MaxChanges <- SearchChanges, MaxFaults <- SearchFaults,
    holds <- s1, table <- s2, used <- s3, job <- s4, steady <- s5, changes <- s6,
    faults <- s7

(* Two callers of one cache.                                               *)
Cache == INSTANCE Caches WITH
    Callers <- Askers, TTL <- CacheTTL, MaxRead <- ReadTime, MaxTime <- CacheTime,
    MaxEdits <- CacheEdits, MaxFaults <- CacheFaults,
    kind <- s1, time <- s2, stored <- s3, until <- s4, unusable <- s5, entry <- s6, at <- s7,
    got <- s8, begun <- s9, answer <- s10, failed <- s11, faults <- s12

(* Two groups fire on two processors, more often than the cooldown lets.   *)
Fire == INSTANCE Alerting WITH
    Processors <- Alerters, Groups <- AlertGroups, Cooldown <- AlertCooldown,
    MaxAttempts <- AlertAttempts, DeliverBatch <- AlertBatch, Nobody <- "nobody",
    Operators <- AlertOperators, Hooks <- AlertHooks, MaxAlerts <- AlertsStored,
    MaxTime <- AlertTime, MaxEdits <- AlertEdits, MaxFaults <- AlertFaults,
    now <- s1, quiet <- s2, lock <- s3, rule <- s4, alerts <- s5, posted <- s6, at <- s7,
    since <- s8, fired <- s9, listed <- s10, mark <- s11, row <- s12, faults <- s13

(* Bounds of the two scenarios of it: either the rule changes and calls    *)
(* fail between the firing of the one alert and its delivery, or all goes  *)
(* well while several alerts fire.                                         *)
OneAlertEdited ==
    /\ s1' < AlertTime
    /\ s9' \in [Alerters -> Seq(EditedGroups)]
    /\ \A p, q \in Alerters : p # q => Len(s5') + Len(s9'[p]) + Len(s9'[q]) <= 1
NothingEdited == UNCHANGED <<s4, s13>>

(* One request that meets every answer, and one that meets none.           *)
Trip == INSTANCE Vendors WITH
    Requests <- Visits, Varied <- VariedVisits,
    at <- s1, header <- s2, pseudo <- s3, ended <- s4, spared <- s5, events <- s6

(* Two tabs, one of which signs in.                                        *)
Signed == INSTANCE Sessions WITH
    Tabs <- BrowserTabs, Signing <- SigningTabs, Nobody <- "nobody", Roles <- SessionRoles,
    ChallengeTTL <- CodeTTL, AccessTTL <- BearerTTL, RefreshTTL <- CookieTTL, Tokens <- Cookies,
    user <- s1, tenant <- s2, challenge <- s3, access <- s4, cookie <- s5, left <- s6,
    revoked <- s7, dead <- s8, job <- s9, activeAgo <- s10, roleAgo <- s11, verified <- s12

(* A request of which two events are logged, and one that matched before.  *)
Evidence == INSTANCE Panels WITH
    Requests <- {"r"}, Earlier <- {"q"}, Rules <- {"custom", "managed"}, Managed <- {"managed"},
    Bar <- 2, MaxEvents <- 2,
    action <- s1, events <- s2, rows <- s3

(* A rule of one of three kinds, which is edited once, and two clients.    *)
Measured == INSTANCE Measuring WITH
    Processors <- {"p"}, Groups <- {"g", "h"}, Clients <- {"a", "b"}, Asked <- MCAsked, MaxEvidence <- 1, Lag <- 1,
    MaxBusy <- 1, MaxPass <- 1, MaxTime <- 5, MaxRows <- 2, MaxChanges <- 1,
    now <- s1, rows <- s2, rule <- s3, quiet <- s4, pass <- s5, last <- s6, alerts <- s7,
    met <- s8, changes <- s9, faults <- s10

(* One client is as good as the other for the first record, and for all of *)
(* them while the rule does not count clients.                             *)
FirstClient ==
    s2 = {} \/ s3.condition.aggregate # "distinct_ips" =>
        \A x \in s2' \ s2 : x.client = "a"

(* Batches of two that come again, while the rollups are rebuilt.          *)
Figures == INSTANCE Rollups WITH
    Pool <- MCCounted, Records <- {"r"}, Starts <- {0, 1}, Hour <- 2, Day <- 4, Kinds <- {"none", "allow_vs_block"},
    Ranges <- MCCountedRanges, Limit <- 1, MaxTime <- 3, MaxInserts <- 2, MaxBatch <- 2,
    MaxVersion <- 2,
    stored <- s1, seen <- s2, owed <- s3, rows <- s4, written <- s5, tally <- s6, schema <- s7,
    inserts <- s8

(* Events and records are counted apart: no panel shows both.              *)
CountedApart == s8' = 0 \/ s5' = {}

(* One process closes at most one window a tick.                           *)
Closing == INSTANCE CorrelationHealth WITH
    Processors <- {"p"}, TTL <- 2, Claim <- 1, Assessed <- 2, MaxTime <- 3, MaxWindows <- 3,
    MaxTicks <- 1, MaxFaults <- 1,
    now <- s1, windows <- s2, buckets <- s3, backlog <- s4, flushed <- s5, ticks <- s6,
    table <- s7, happened <- s8, lost <- s9, faults <- s10

(* Three events, two of one request, and two records.                      *)
Followed == INSTANCE Browsing WITH
    Pool <- MCFollowed, Records <- {"r", "s"}, Slack <- 1, PayloadWindow <- 0, MaxRange <- 4,
    Ranges <- MCFollowedRanges, MaxTime <- 3, MaxDeliveries <- 3, MaxVersions <- 3,
    now <- s1, delivered <- s2, expired <- s3, normalized <- s4, rows <- s5

(* One id is as good as the other for the first record, and payloads       *)
(* expire apart from records, since nothing that is shown is of both.      *)
FirstRecord == s5 = {} => \A x \in s5' : x.id = "r"
PayloadsApart == s3' = 0 \/ s5' = {}

(* Two deliveries, one change of the tenant's and one fault.               *)
Readings == INSTANCE Reading WITH
    Pool <- MCSent, MaxBatchEvents <- 2, MaxAge <- 1, MaxFuture <- 0, Year <- 2, Share <- 2,
    DriftWindow <- 1, Policies <- {{}, {"request_path"}}, Offered <- MCOffered, MaxTime <- 2,
    MaxDeliveries <- 2, MaxBatch <- 2, MaxChanges <- 1, MaxFaults <- 1,
    now <- s1, answers <- s2, filtered <- s3, queue <- s4, dlq <- s5, raw <- s6, rows <- s7,
    rejected <- s8, policy <- s9, rules <- s10, drift <- s11, warnings <- s12, changes <- s13,
    faults <- s14

(* Any request next to a good one, one of which a minute lets through.     *)
Answering == INSTANCE Requests WITH
    Slots <- {"a", "b"}, Plain <- {"b"}, Roles <- {"admin", "auditor"}, TenantLimit <- 3,
    PeerLimit <- 1, MaxTime <- 1, MaxRequests <- 2, MaxFaults <- 1,
    now <- s1, counts <- s2, active <- s3, slot <- s4, arrived <- s5, faults <- s6,
    admitted <- s7

(* One address is as good as another for the one founder.                  *)
MCInit ==
    /\ Init
    /\ \A u \in Founders : users[u].address = CHOOSE a \in Addresses : TRUE
    /\ \/ /\ scenario = "accounts" /\ s1 = 0 /\ s2 = 0 /\ s3 = 0 /\ s4 = 0 /\ s5 = 0 /\ s6 = 0
          /\ s7 = 0 /\ s8 = 0 /\ s9 = 0 /\ s10 = 0 /\ s11 = 0 /\ s12 = 0 /\ s13 = 0 /\ s14 = 0
          /\ s15 = 0 /\ s16 = 0
       \/ scenario = "feeds" /\ Secrets!Init
       \/ /\ scenario = "audit" /\ Audit!Init /\ s9 = 0 /\ s10 = 0 /\ s11 = 0 /\ s12 = 0
          /\ s13 = 0 /\ s14 = 0 /\ s15 = 0 /\ s16 = 0
       \/ /\ scenario = "health" /\ Health!Init /\ s10 = 0 /\ s11 = 0 /\ s12 = 0 /\ s13 = 0
          /\ s14 = 0 /\ s15 = 0 /\ s16 = 0
       \/ scenario = "retention" /\ Kept!Init /\ s14 = 0 /\ s15 = 0 /\ s16 = 0
       \/ /\ scenario = "search" /\ Paging!Init /\ s8 = 0 /\ s9 = 0 /\ s10 = 0 /\ s11 = 0
          /\ s12 = 0 /\ s13 = 0 /\ s14 = 0 /\ s15 = 0 /\ s16 = 0
       \/ scenario = "caches" /\ Cache!Init /\ s13 = 0 /\ s14 = 0 /\ s15 = 0 /\ s16 = 0
       \/ scenario = "edit" /\ Fire!Init /\ s14 = 0 /\ s15 = 0 /\ s16 = 0
       \/ scenario = "fire" /\ Fire!Init /\ s4.hook = "none" /\ s14 = 0 /\ s15 = 0 /\ s16 = 0
       \/ /\ scenario = "hops" /\ Trip!Init /\ s7 = 0 /\ s8 = 0 /\ s9 = 0 /\ s10 = 0 /\ s11 = 0
          /\ s12 = 0 /\ s13 = 0 /\ s14 = 0 /\ s15 = 0 /\ s16 = 0
       \/ scenario = "sessions" /\ Signed!Init /\ s13 = 0 /\ s14 = 0 /\ s15 = 0 /\ s16 = 0
       \/ /\ scenario = "evidence" /\ Evidence!Init /\ s4 = 0 /\ s5 = 0 /\ s6 = 0 /\ s7 = 0
          /\ s8 = 0 /\ s9 = 0 /\ s10 = 0 /\ s11 = 0 /\ s12 = 0 /\ s13 = 0 /\ s14 = 0
          /\ s15 = 0 /\ s16 = 0
       \/ /\ scenario = "measuring" /\ Measured!Init /\ s11 = 0 /\ s12 = 0
          /\ s13 = 0 /\ s14 = 0 /\ s15 = 0 /\ s16 = 0
       \/ /\ scenario = "figures" /\ Figures!Init /\ s9 = 0 /\ s10 = 0
          /\ s11 = 0 /\ s12 = 0 /\ s13 = 0 /\ s14 = 0 /\ s15 = 0 /\ s16 = 0
       \/ /\ scenario = "closing" /\ Closing!Init /\ s11 = 0 /\ s12 = 0 /\ s13 = 0
          /\ s14 = 0 /\ s15 = 0 /\ s16 = 0
       \/ /\ scenario = "browsing" /\ Followed!Init /\ s6 = 0 /\ s7 = 0 /\ s8 = 0
          /\ s9 = 0 /\ s10 = 0 /\ s11 = 0 /\ s12 = 0 /\ s13 = 0 /\ s14 = 0 /\ s15 = 0
          /\ s16 = 0
       \/ scenario = "reading" /\ Readings!Init /\ s9 = {} /\ s15 = 0 /\ s16 = 0
       \/ /\ scenario = "requests" /\ Answering!Init /\ s8 = 0 /\ s9 = 0 /\ s10 = 0
          /\ s11 = 0 /\ s12 = 0 /\ s13 = 0 /\ s14 = 0 /\ s15 = 0 /\ s16 = 0

MCNext ==
    /\ UNCHANGED scenario
    /\ \/ scenario = "accounts" /\ Next /\ UNCHANGED shared
       \/ scenario = "feeds" /\ Secrets!Next /\ UNCHANGED vars
       \/ /\ scenario = "audit" /\ Audit!Next
          /\ UNCHANGED <<vars, s9, s10, s11, s12, s13, s14, s15, s16>>
       \/ scenario = "health" /\ Health!Next /\ UNCHANGED <<vars, s10, s11, s12, s13, s14, s15, s16>>
       \/ scenario = "retention" /\ Kept!Next /\ UNCHANGED <<vars, s14, s15, s16>>
       \/ /\ scenario = "search" /\ Paging!Next
          /\ UNCHANGED <<vars, s8, s9, s10, s11, s12, s13, s14, s15, s16>>
       \/ scenario = "caches" /\ Cache!Next /\ UNCHANGED <<vars, s13, s14, s15, s16>>
       \/ scenario = "edit" /\ Fire!Next /\ OneAlertEdited /\ UNCHANGED <<vars, s14, s15, s16>>
       \/ scenario = "fire" /\ Fire!Next /\ NothingEdited /\ UNCHANGED <<vars, s14, s15, s16>>
       \/ /\ scenario = "hops" /\ Trip!Next
          /\ UNCHANGED <<vars, s7, s8, s9, s10, s11, s12, s13, s14, s15, s16>>
       \/ scenario = "sessions" /\ Signed!Next /\ UNCHANGED <<vars, s13, s14, s15, s16>>
       \/ /\ scenario = "evidence" /\ Evidence!Next
          /\ UNCHANGED <<vars, s4, s5, s6, s7, s8, s9, s10, s11, s12, s13, s14, s15, s16>>
       \/ /\ scenario = "measuring" /\ Measured!Next /\ FirstClient
          /\ UNCHANGED <<vars, s11, s12, s13, s14, s15, s16>>
       \/ /\ scenario = "figures" /\ Figures!Next /\ CountedApart
          /\ UNCHANGED <<vars, s9, s10, s11, s12, s13, s14, s15, s16>>
       \/ /\ scenario = "closing" /\ Closing!Next
          /\ UNCHANGED <<vars, s11, s12, s13, s14, s15, s16>>
       \/ /\ scenario = "browsing" /\ Followed!Next /\ FirstRecord /\ PayloadsApart
          /\ UNCHANGED <<vars, s6, s7, s8, s9, s10, s11, s12, s13, s14, s15, s16>>
       \/ scenario = "reading" /\ Readings!Next /\ UNCHANGED <<vars, s15, s16>>
       \/ /\ scenario = "requests" /\ Answering!Next
          /\ UNCHANGED <<vars, s8, s9, s10, s11, s12, s13, s14, s15, s16>>

MCSpec == MCInit /\ [][MCNext]_<<vars, shared, scenario>>

(* Searches alone, for a property they do not keep.                        *)
SearchSpec == MCInit /\ scenario = "search" /\ [][MCNext]_<<vars, shared, scenario>>

-----------------------------------------------------------------------------
(* The properties of the modules, each of the instances it is about.       *)

(* FeedSecrets!CredentialSurvives.                                         *)
CredentialSurvives == scenario = "feeds" => Secrets!CredentialSurvives

(* AuditTrail!TrailVerifies.                                               *)
TrailVerifies == scenario = "audit" => Audit!TrailVerifies

(* FeedHealth!CountedOnce, FeedHealth!BrokenWasRefused and                 *)
(* CorrelationHealth!StallIsTold.                                          *)
HealthIsTold ==
    /\ scenario = "health" => Health!CountedOnce /\ Health!BrokenWasRefused
    /\ scenario = "closing" => Closing!StallIsTold

(* Retention!ExpiredIsGone.                                                *)
ExpiredIsGone == scenario = "retention" => Kept!ExpiredIsGone

(* Search!ListingIsFaithful.                                               *)
ListingIsFaithful == scenario = "search" => Paging!ListingIsFaithful

(* Search!TruncationIsTold.                                                *)
TruncationIsTold == scenario = "search" => Paging!TruncationIsTold

(* Caches!AnswersAreRecent.                                                *)
AnswersAreRecent == scenario = "caches" => Cache!AnswersAreRecent

(* Alerting!AlertsPerCooldown and Alerting!SilenceHasAlert.                *)
OneAlertPerSilence ==
    scenario \in {"edit", "fire"} => Fire!AlertsPerCooldown /\ Fire!SilenceHasAlert

(* Vendors!HopsAreLinked, Vendors!AddressIsTheClients, Vendors!RowsAreTold *)
(* and Vendors!VerdictIsWhatHappened.                                      *)
RequestsAreTold ==
    scenario = "hops" =>
        /\ Trip!HopsAreLinked /\ Trip!AddressIsTheClients /\ Trip!RowsAreTold
        /\ Trip!VerdictIsWhatHappened

(* Panels!EvidenceIsComplete and Browsing!RequestIsFollowed.               *)
EvidenceIsComplete ==
    /\ scenario = "evidence" => Evidence!EvidenceIsComplete
    /\ scenario = "browsing" => Followed!RequestIsFollowed

(* Rollups!FiguresAgree and Measuring!BurstsAreToldOnce.                   *)
FiguresAgree ==
    /\ scenario = "figures" => Figures!FiguresAgree
    /\ scenario = "measuring" => Measured!BurstsAreToldOnce

(* Reading!RecordsAreRead.                                                 *)
RecordsAreRead == scenario = "reading" => Readings!RecordsAreRead

(* Requests!AnswersAreTold.                                                *)
AnswersAreTold == scenario = "requests" => Answering!AnswersAreTold

(* Sessions!SessionsEnd.                                                   *)
SessionsEnd == scenario = "sessions" => Signed!SessionsEnd

(* Retention!OnlyDueIsDeleted.                                             *)
OnlyDueIsDeleted ==
    [][scenario = "retention" => Kept!Deletion]_s2
=============================================================================
