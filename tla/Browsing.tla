------------------------------- MODULE Browsing -------------------------------
(* How one request is followed through the console: from a search to the   *)
(* detail of an event with the bytes it was read from, and to the record   *)
(* it was correlated into (service/search.go and correlation.go, over      *)
(* package query and data/clickhouse/search.go, events.go and              *)
(* correlated.go). A read is an operator over the tables; what happens is  *)
(* that events are delivered, delivered again and normalized, that their   *)
(* records are written and amended, and that payloads expire. Search       *)
(* models the pages of a listing; here a listing fits in its page, and an  *)
(* identifier has fewer events than MaxIdentifierEvents. The clock counts  *)
(* correlation windows, the longest there may be, and does not reach the   *)
(* next day: the table sorts by toDate(window_start), so a record whose    *)
(* start an amendment moves to another day keeps a row of each.            *)
EXTENDS Naturals, FiniteSets

CONSTANTS
    Pool,          \* events by id: time, vendor, source, verdict, attack, request, network
    Records,       \* correlation ids
    Slack,         \* correlationSlack, EventCorrelationSlack
    PayloadWindow, \* rawPayloadWindow
    MaxRange,      \* MaxRangeDays
    Ranges,        \* ranges that are asked for
    MaxTime,       \* bound: the clock
    MaxDeliveries, \* bound: deliveries of events
    MaxVersions    \* bound: versions of all records

VARIABLES
    now,
    delivered,  \* raw_events, expired rows included: [id, received]
    expired,    \* payloads received before this are gone
    normalized, \* normalized_events: [id, received], a row of each delivery
    rows        \* correlated_requests, superseded rows included

vars == <<now, delivered, expired, normalized, rows>>

Ids == DOMAIN Pool
raw == {d \in delivered : d.received >= expired}

-----------------------------------------------------------------------------
(* What the API calls things, in both directions.                          *)

verdictToProto == [allowed |-> 1, blocked |-> 2, challenged |-> 3, rate_limited |-> 4,
                   monitored |-> 5, unknown |-> 6]
verdictFromProto ==
    [p \in 0..7 |-> CASE p = 1 -> "allowed" [] p = 2 -> "blocked" [] p = 3 -> "challenged"
                      [] p = 4 -> "rate_limited" [] p = 5 -> "monitored" [] p = 6 -> "unknown"
                      [] OTHER -> ""]
vendorToProto == [cloudflare |-> 1, f5 |-> 2, datadome |-> 3, nginx |-> 4]
vendorFromProto ==
    [p \in 0..5 |-> CASE p = 1 -> "cloudflare" [] p = 2 -> "f5" [] p = 3 -> "datadome"
                      [] p = 4 -> "nginx" [] OTHER -> ""]

(* A filter nobody set, and what is asked otherwise.                       *)
Unset == [verdict |-> {}, vendor |-> {}, maxAttack |-> {}, request |-> ""]

(* Limits.Range: a range ends now at the latest, and is neither empty nor  *)
(* too wide. Refused is the range of a request that is not answered.       *)
Refused == [from |-> 0, to |-> 0]
Range(asked) ==
    LET to == IF asked.to > now THEN now ELSE asked.to
    IN  IF asked.from < to /\ to - asked.from <= MaxRange
        THEN [from |-> asked.from, to |-> to]
        ELSE Refused

Within(t, rng) == rng.from <= t /\ t < rng.to

-----------------------------------------------------------------------------
(* Events.                                                                 *)

(* vendorNames, verdictNames: the words the API knows.                     *)
Chosen(asked, fromProto) == {fromProto[p] : p \in asked} \ {""}

(* Builder.Where and Conditions: a filter on nothing is no filter.         *)
IsAny(value, values) == values # {} => value \in values
WhereIfSet(value, asked) == asked # "" => value = asked

(* An attack score of 0 is that of a request nobody scored.                *)
EventConditions(e, f) ==
    /\ IsAny(e.vendor, Chosen(f.vendor, vendorFromProto))
    /\ IsAny(e.verdict, Chosen(f.verdict, verdictFromProto))
    /\ \A most \in f.maxAttack : e.attack \in 1..most
    /\ WhereIfSet(e.request, f.request)

(* The newest row of an event: LIMIT 1 BY event_id, ORDER BY               *)
(* ingest_version DESC, which is when it was received.                     *)
GetNormalized(i) ==
    CHOOSE n \in normalized : n.id = i /\ \A o \in normalized : o.id = i => o.received <= n.received

Normalized == {n.id : n \in normalized}

SearchEvents(f, asked) ==
    LET rng == Range(asked)
    IN  {i \in Normalized : Within(Pool[i].time, rng) /\ EventConditions(Pool[i], f)}

(* rawPayloadQuery: which rows may hold the payload of an event. The       *)
(* vendor is the one that delivered it, not the one it is attributed to;   *)
(* both make the query cheap.                                              *)
RawPayload(n) ==
    {d \in raw : /\ d.id = n.id
                 /\ Pool[d.id].source = Pool[n.id].source
                 /\ n.received <= d.received + PayloadWindow
                 /\ d.received <= n.received + PayloadWindow}

(* The parsed fields are there if the adapter that is asked reads those    *)
(* bytes.                                                                  *)
payloadFields(vendor, d) == IF vendor = Pool[d.id].source THEN {d.id} ELSE {}
vendorFields(D) == UNION {payloadFields(Pool[d.id].source, d) : d \in D}

-----------------------------------------------------------------------------
(* Records.                                                                *)

Current == {r \in rows : \A s \in rows : s.id = r.id => s.version <= r.version}

Get(id) == CHOOSE r \in Current : r.id = id

(* What is shown of a record: its events, and what each vendor said.       *)
toCorrelatedProto(r) == [ids |-> r.ids, verdicts |-> {Pool[i].verdict : i \in r.ids}]
GetCorrelatedRequest(id) == toCorrelatedProto(Get(id))

Disagrees(r) == {"allowed", "blocked"} \subseteq {Pool[i].verdict : i \in r.ids}
CorrelatedConditions(r, onlyDisagreements) == onlyDisagreements => Disagrees(r)

(* List, and the request for it, whose range is neither cut nor too wide.  *)
List(rng, onlyDisagreements) ==
    {r.id : r \in {s \in Current : Within(s.start, rng) /\ (onlyDisagreements => Disagrees(s))}}
ListCorrelatedRequests(asked, onlyDisagreements) ==
    IF asked.from < asked.to THEN List(asked, onlyDisagreements) ELSE {}

(* EventIDsFor: the events in the range that carry an identifier.          *)
EventIDsFor(request, rng) ==
    {i \in Normalized : Pool[i].request = request /\ Within(Pool[i].time, rng)}

(* narrowToEvents: a record of those events begins not long before the     *)
(* first of them, nor after the last.                                      *)
Narrowed(rng, found) ==
    {t \in rng.from..rng.to : /\ t < rng.to
                              /\ \E i \in found : Pool[i].time <= t + Slack
                              /\ \E i \in found : t < Pool[i].time + Slack}

(* An identifier that no event carries finds nothing, and one that is not  *)
(* set does not filter.                                                    *)
ResolveIdentifiers(r, f, rng) ==
    LET found == EventIDsFor(f.request, rng)
    IN  IF f.request = "" THEN Within(r.start, rng)
        ELSE r.start \in Narrowed(rng, found) /\ r.ids \cap found # {}

SearchCorrelated(f, asked, onlyDisagreements) ==
    {r.id : r \in {s \in Current : /\ CorrelatedConditions(s, onlyDisagreements)
                                   /\ ResolveIdentifiers(s, f, Range(asked))}}

(* CorrelationForEvent: any row with the event that begins near it, of any *)
(* version.                                                                *)
CorrelationForEvent(i) ==
    {r.id : r \in {s \in rows : /\ i \in s.ids
                                /\ Pool[i].time <= s.start + Slack
                                /\ s.start <= Pool[i].time + Slack}}

(* The detail of an event.                                                 *)
GetEvent(i) ==
    LET n == GetNormalized(i)
    IN  [payload |-> RawPayload(n), fields |-> vendorFields(RawPayload(n)),
         correlation |-> CorrelationForEvent(i)]

-----------------------------------------------------------------------------
Init ==
    /\ now = 0
    /\ delivered = {} /\ expired = 0
    /\ normalized = {}
    /\ rows = {}

(* A vendor reports an event, perhaps again.                               *)
Deliver ==
    /\ Cardinality(delivered) < MaxDeliveries
    /\ \E i \in Ids :
           /\ Pool[i].time <= now
           /\ delivered' = delivered \cup {[id |-> i, received |-> now]}
    /\ UNCHANGED <<now, expired, normalized, rows>>

(* Deliveries are normalized in any order.                                 *)
Normalize ==
    /\ \E d \in delivered \ normalized : normalized' = normalized \cup {d}
    /\ UNCHANGED <<now, delivered, expired, rows>>

(* A record begins with the window of its first event.                     *)
WindowStart(S) ==
    CHOOSE t \in {Pool[i].time : i \in S} : \A i \in S : t <= Pool[i].time

Versions == Cardinality(UNION {{r.id} \X (1..r.version) : r \in Current})

(* A window of events closes. Those an exact identifier joins may be any   *)
(* time apart.                                                             *)
Close ==
    /\ Versions < MaxVersions
    /\ \E id \in Records \ {r.id : r \in rows}, S \in (SUBSET Normalized) \ {{}} :
           rows' = rows \cup {[id |-> id, ids |-> S, start |-> WindowStart(S), version |-> 1]}
    /\ UNCHANGED <<now, delivered, expired, normalized>>

(* Events that were late, however late, join the record: Merge keeps the   *)
(* earlier start and the events of both.                                   *)
Merge(r, S) ==
    [id |-> r.id, ids |-> r.ids \cup S, start |-> WindowStart(r.ids \cup S),
     version |-> r.version + 1]

Amend ==
    /\ Versions < MaxVersions
    /\ \E r \in Current, S \in (SUBSET Normalized) \ {{}} :
           rows' = rows \cup {Merge(r, S)}
    /\ UNCHANGED <<now, delivered, expired, normalized>>

(* ClickHouse drops superseded rows.                                       *)
Collapse ==
    /\ rows # Current
    /\ rows' = Current
    /\ UNCHANGED <<now, delivered, expired, normalized>>

(* A tenant keeps payloads for less time than events.                      *)
Expire ==
    /\ \E t \in expired + 1..now : expired' = t
    /\ UNCHANGED <<now, delivered, normalized, rows>>

Tick ==
    /\ now < MaxTime /\ now' = now + 1
    /\ UNCHANGED <<delivered, expired, normalized, rows>>

Next == Deliver \/ Normalize \/ Close \/ Amend \/ Collapse \/ Expire \/ Tick

Spec == Init /\ [][Next]_vars

-----------------------------------------------------------------------------
(* The detail of an event shows the bytes it was read from for as long as  *)
(* they are kept, and the fields parsed from them, whichever vendor the    *)
(* event is attributed to ("the parsed-field view was blank on 16% of      *)
(* events", service/search.go) and in whatever order its deliveries were   *)
(* normalized.                                                             *)
PayloadIsShown ==
    \A i \in Normalized :
        GetNormalized(i) \in raw => GetEvent(i).payload # {} /\ i \in GetEvent(i).fields

(* A record is looked for next to its events, up to Slack from them.       *)
Near(i, r) == Pool[i].time <= r.start + Slack

(* An event leads to a record that shows it, whatever was amended since,   *)
(* and to each of them that begins no more than Slack before the event.    *)
EventLeadsToItsRecord ==
    \A i \in Normalized :
        LET found == GetEvent(i).correlation
        IN  /\ \A id \in found : i \in GetCorrelatedRequest(id).ids
            /\ {r.id : r \in {s \in Current : i \in s.ids /\ Near(i, s)}} \subseteq found

(* The records of a request: the range holds an event that carries it.     *)
Carrying(request, rng) ==
    {r \in Current :
        /\ Within(r.start, rng)
        /\ \E i \in r.ids : Pool[i].request = request /\ Within(Pool[i].time, rng)}

(* Looking a request up by its identifier shows records of it and no other *)
(* ("only ever NARROWS", service/search.go), and narrowing the range loses *)
(* none that has an event within Slack of its start to be found by.        *)
RequestIsFound ==
    \A asked \in Ranges, request \in {Pool[i].request : i \in Ids} :
        LET found == SearchCorrelated([Unset EXCEPT !.request = request], asked, FALSE)
            records == Carrying(request, Range(asked))
            near == {r \in records : \E i \in r.ids : Pool[i].request = request
                                        /\ Within(Pool[i].time, Range(asked)) /\ Near(i, r)}
        IN  /\ found \subseteq {r.id : r \in records}
            /\ {r.id : r \in near} \subseteq found

(* What the comments of both searches promise: "at most one correlation    *)
(* window before the earliest event and never after the latest" would make *)
(* Slack enough for every event of a record. It is for the earliest one    *)
(* only, and events that an exact identifier joins may lie further apart:  *)
(* the code does not keep these two.                                       *)
EventAlwaysLeadsToItsRecord ==
    \A i \in Normalized : {r.id : r \in {s \in Current : i \in s.ids}} \subseteq GetEvent(i).correlation

RequestIsAlwaysFound ==
    \A asked \in Ranges, request \in {Pool[i].request : i \in Ids} :
        {r.id : r \in Carrying(request, Range(asked))} \subseteq
            SearchCorrelated([Unset EXCEPT !.request = request], asked, FALSE)

(* The two listings of records agree, on what records are now: the plain   *)
(* one only adds what begins after the range of the search was cut.        *)
ListingsAgree ==
    \A asked \in Ranges, only \in BOOLEAN :
        LET listed == ListCorrelatedRequests(asked, only)
            searched == SearchCorrelated(Unset, asked, only)
        IN  Range(asked) # Refused =>
                /\ searched \subseteq listed
                /\ \A id \in listed \ searched : Get(id).start >= Range(asked).to

(* A word that is shown of an event may be asked for, and finds the events *)
(* it is shown of ("a dropped filter would return a WIDER result",         *)
(* service/search.go); what nobody scored is not an attack.                *)
ShownIsAsked ==
    \A asked \in Ranges :
        LET all == SearchEvents(Unset, asked)
            word(i) == verdictToProto[Pool[i].verdict]
            vendor(i) == vendorToProto[Pool[i].vendor]
        IN  \A i \in all :
                /\ SearchEvents([Unset EXCEPT !.verdict = {word(i)}], asked) =
                       {j \in all : word(j) = word(i)}
                /\ SearchEvents([Unset EXCEPT !.vendor = {vendor(i)}], asked) =
                       {j \in all : vendor(j) = vendor(i)}
                /\ \A j \in SearchEvents([Unset EXCEPT !.maxAttack = {50}], asked) : Pool[j].attack # 0

(* All of them: a request is followed from any of its ends.                *)
RequestIsFollowed ==
    /\ PayloadIsShown /\ EventLeadsToItsRecord /\ RequestIsFound /\ ListingsAgree
    /\ ShownIsAsked
=============================================================================
