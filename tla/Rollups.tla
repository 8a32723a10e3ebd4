-------------------------------- MODULE Rollups --------------------------------
(* The figures of the dashboards and of the rule profile: the rollup       *)
(* tables that materialized views fill as batches are inserted             *)
(* (deploy/clickhouse/migrations 0003, 0005, 0016), and the panels that    *)
(* read them (data/clickhouse/dashboards.go and waftuning.go, behind       *)
(* service/dashboards.go and service/waftuning.go). A view sees the block  *)
(* that is inserted and not the table, so a batch inserted again is seen   *)
(* again. A state of uniqCombined is a set here: its 1 % is left out.      *)
EXTENDS Naturals, FiniteSets, FiniteSetsExt

CONSTANTS
    Pool,       \* events by id: time, vendor, verdict, rule, action, band of the score, client, network
    Records,    \* correlation ids
    Starts,     \* what window_start may be. Times are in buckets of five minutes
    Hour,       \* buckets of five minutes in an hour
    Day,        \* and in a day
    Kinds,      \* kinds of disagreement, "none" among them
    Ranges,     \* ranges that are asked for
    Limit,      \* rows of a ranking
    MaxTime,    \* bound: the times of events
    MaxInserts, \* bound: batches
    MaxBatch,   \* bound: events of a batch
    MaxVersion  \* bound: amendments of a record

Ids == DOMAIN Pool
EventViews == {"volume", "waf"}  \* those 0005 rebuilds, and those of 0016

NoAddress == "::"

VARIABLES
    stored,  \* normalized_events: rows by id, before they are merged
    seen,    \* seen[v]: how often view v has seen each event since its table was created
    owed,    \* events of an insert that failed part way, to be inserted again
    rows,    \* correlated_requests, superseded versions included
    written, \* what was ever written of a record: <<record, bucket, kind>>
    tally,   \* what rollup_disagreement_5m has of it: <<record, bucket, kind>>
    schema,  \* how far migration 0005 is
    inserts

vars == <<stored, seen, owed, rows, written, tally, schema, inserts>>

Never == [e \in Ids |-> 0]

Init ==
    /\ stored = Never
    /\ seen = [v \in EventViews |-> Never]
    /\ owed = {}
    /\ rows = {} /\ written = {} /\ tally = {}
    /\ schema = "old"
    /\ inserts = 0

-----------------------------------------------------------------------------
(* What is written.                                                        *)

Attached == IF schema = "dropped" THEN {"waf"} ELSE EventViews
Times(f, batch) == [e \in Ids |-> IF e \in batch THEN f[e] + 1 ELSE f[e]]

(* A batch is stored, then every view is given the block. When one of them *)
(* fails the insert has failed and the batch comes again.                  *)
Insert(batch) ==
    /\ inserts < MaxInserts
    /\ inserts' = inserts + 1
    /\ stored' = Times(stored, batch)
    /\ \E V \in SUBSET Attached :
          /\ seen' = [v \in EventViews |-> IF v \in V THEN Times(seen[v], batch) ELSE seen[v]]
          /\ owed' = IF V = Attached THEN owed \ batch ELSE owed \cup batch
    /\ UNCHANGED <<rows, written, tally, schema>>

Newest == {row \in rows : \A other \in rows : other.of = row.of => other.version <= row.version}
Tallied(R) == {<<row.of, row.start, row.kind>> : row \in R}

(* A record is inserted, and inserted again when it is amended: it is      *)
(* classified anew, and begins with the earlier of the two windows.        *)
Record(r, start, kind) ==
    LET old == {row \in Newest : row.of = r}
        version == Max({row.version : row \in old} \cup {0}) + 1
        fresh == {[of |-> r, version |-> version, start |-> Min({start} \cup {row.start : row \in old}),
                   kind |-> kind]}
    IN  /\ version <= MaxVersion
        /\ rows' = rows \cup fresh
        /\ written' = written \cup Tallied(fresh)
        /\ tally' = IF schema = "dropped" THEN tally ELSE tally \cup Tallied(fresh)
        /\ UNCHANGED <<stored, seen, owed, schema, inserts>>

(* ReplacingMergeTree.                                                     *)
Merge(e) ==
    /\ stored[e] > 1
    /\ stored' = [stored EXCEPT ![e] = 1]
    /\ UNCHANGED <<seen, owed, rows, written, tally, schema, inserts>>

Collapse ==
    /\ rows # Newest
    /\ rows' = Newest
    /\ UNCHANGED <<stored, seen, owed, written, tally, schema, inserts>>

(* Migration 0005 while events arrive: views and tables are dropped,       *)
(* created, and filled from what is stored.                                *)
Drop ==
    /\ schema = "old"
    /\ schema' = "dropped"
    /\ seen' = [seen EXCEPT !["volume"] = Never]
    /\ tally' = {}
    /\ UNCHANGED <<stored, owed, rows, written, inserts>>

Create ==
    /\ schema = "dropped"
    /\ schema' = "created"
    /\ UNCHANGED <<stored, seen, owed, rows, written, tally, inserts>>

Present == {e \in Ids : stored[e] > 0}

Backfill ==
    /\ schema = "created"
    /\ schema' = "new"
    /\ seen' = [seen EXCEPT !["volume"] = Times(@, Present)]
    /\ tally' = tally \cup Tallied(rows)
    /\ UNCHANGED <<stored, owed, rows, written, inserts>>

Next ==
    \/ \E batch \in SUBSET Ids : Cardinality(batch) \in 1..MaxBatch /\ Insert(batch)
    \/ \E r \in Records, start \in Starts, kind \in Kinds : Record(r, start, kind)
    \/ \E e \in Ids : Merge(e)
    \/ Collapse \/ Drop \/ Create \/ Backfill

Spec == Init /\ [][Next]_vars

-----------------------------------------------------------------------------
(* What is read: a range takes the buckets that begin in it.               *)

Bucket(t, width) == t - (t % width)
Within(t, width, range) == range.from <= Bucket(t, width) /\ Bucket(t, width) < range.to

Where(condition(_)) == {e \in Ids : condition(Pool[e])}

(* uniqCombinedMerge over the states of buckets.                           *)
Uniq(view, E) == Cardinality({e \in E : seen[view][e] > 0})

(* The rows of a ranking: no other row counts more. Ties fall anyhow.      *)
Top(rows_, events) ==
    IF Cardinality(rows_) <= Limit THEN rows_
    ELSE CHOOSE T \in kSubset(Limit, rows_) :
            \A x \in T, y \in rows_ \ T : events[x] >= events[y]

(* GetOverview: the series by vendor and by verdict, in buckets of an      *)
(* interval, and the headlines, which are sums of the series.              *)
VendorVolume(interval, range) ==
    [p \in {Bucket(t, interval) : t \in 0..MaxTime} \X {"cloudflare", "f5"} |->
        Uniq("volume", {e \in Where(LAMBDA x : x.vendor = p[2]) :
                          Within(Pool[e].time, 1, range) /\ Bucket(Pool[e].time, interval) = p[1]})]

VerdictMix(interval, range) ==
    [p \in {Bucket(t, interval) : t \in 0..MaxTime} \X {"allowed", "blocked", "rate_limited"} |->
        Uniq("volume", {e \in Where(LAMBDA x : x.verdict = p[2]) :
                          Within(Pool[e].time, 1, range) /\ Bucket(Pool[e].time, interval) = p[1]})]

Headline(series, P) == MapThenSumSet(LAMBDA p : series[p], {p \in DOMAIN series : p[2] \in P})

GetOverview(interval, range) ==
    [TotalEvents |-> Headline(VendorVolume(interval, range), {"cloudflare", "f5"}),
     TotalBlocked |-> Headline(VerdictMix(interval, range), {"blocked", "rate_limited"})]

(* GetSources: addresses, and the networks they are of. An event belongs   *)
(* to one address, so what a network's addresses count is added up.        *)
SourceEvents(client, range) ==
    Uniq("volume", {e \in Where(LAMBDA x : x.client = client) : Within(Pool[e].time, Hour, range)})
Clients(network) == {Pool[e].client : e \in Where(LAMBDA x : x.network = network)} \ {NoAddress}
NetworkEvents(network, range) ==
    MapThenSumSet(LAMBDA c : SourceEvents(c, range), Clients(network))

(* GetRules.                                                               *)
TopRules(range) ==
    LET rules == {Pool[e].rule : e \in Ids} \ {""}
    IN  Top(rules, [x \in rules |->
            Uniq("volume", {e \in Where(LAMBDA y : y.rule = x) : Within(Pool[e].time, Hour, range)})])

(* GetDisagreements: a point for each bucket and kind. The headline of all *)
(* records takes of each bucket the kind that has most.                    *)
PointsOf(range) ==
    {p \in (0..MaxTime) \X Kinds :
        range.from <= p[1] /\ p[1] < range.to /\ \E r \in Records : <<r, p[1], p[2]>> \in tally}
PointRecords(p) == Cardinality({r \in Records : p[2] # "none" /\ <<r, p[1], p[2]>> \in tally})
PointTotal(p) == Cardinality({r \in Records : <<r, p[1], p[2]>> \in tally})

GetDisagreements(range) ==
    LET P == PointsOf(range)
    IN  [TotalDisagreements |-> MapThenSumSet(PointRecords, P),
         TotalRecords |->
             MapThenSumSet(LAMBDA t : Max({PointTotal(p) : p \in {q \in P : q[1] = t}}),
                           {p[1] : p \in P})]

-----------------------------------------------------------------------------
(* The rule profile. The bands are plain sums: a redelivery adds to them.  *)

Groups == {<<Pool[e].rule, Pool[e].action>> : e \in Where(LAMBDA x : x.vendor = "cloudflare" /\ x.rule # "")}
InGroup(g, range) ==
    {e \in Where(LAMBDA x : x.vendor = "cloudflare" /\ <<x.rule, x.action>> = g) : Within(Pool[e].time, Hour, range)}

GroupEvents(g, range) == Uniq("waf", InGroup(g, range))
BandTotal(g, band, range) ==
    MapThenSumSet(LAMBDA e : seen["waf"][e], {e \in InGroup(g, range) : Pool[e].band = band})

ReadingExpr(g, range) ==
    LET acting == BandTotal(g, "attack", range) + BandTotal(g, "suspicious", range)
        all == acting + BandTotal(g, "clean", range)
    IN  CASE g[2] = "skip" -> "exempting"
          [] g[2] # "skip" /\ all = 0 -> "unscored"
          [] g[2] # "skip" /\ all > 0 /\ 10 * acting >= 8 * all -> "attacks"
          [] g[2] # "skip" /\ all > 0 /\ 10 * acting <= 2 * all -> "clean"
          [] OTHER -> "mixed"

Rows(range) == {g \in Groups : GroupEvents(g, range) > 0}
EventsOf(range) == [g \in Groups |-> GroupEvents(g, range)]

(* A mutant: the response is filtered.                                     *)
FilteredAfterLimit(range, reading) ==
    {g \in Top(Rows(range), EventsOf(range)) : ReadingExpr(g, range) = reading}

(* HAVING comes before LIMIT.                                              *)
RuleProfile(range, reading) ==
    Top({g \in Rows(range) : ReadingExpr(g, range) = reading}, EventsOf(range))

(* The gaps: scored as an attack and matched by nothing.                   *)
CoverageGaps(range) ==
    Uniq("waf", {e \in Where(LAMBDA x : x.vendor = "cloudflare" /\ x.rule = ""
                                         /\ x.band \in {"attack", "suspicious"}) : Within(Pool[e].time, Hour, range)})

(* The drill-downs read the events themselves, unmerged.                   *)
Live(x, range) ==
    {e \in Where(LAMBDA y : y.vendor = "cloudflare" /\ y.rule = x) :
        range.from <= Pool[e].time /\ Pool[e].time < range.to}
RulePaths(x, range) == Cardinality({e \in Live(x, range) : stored[e] > 0})

(* LIMIT 1 BY event_id.                                                    *)
RuleSamples(x, range) == {s \in Live(x, range) \X {1} : s[2] <= stored[s[1]]}

-----------------------------------------------------------------------------
Settled == owed = {} /\ schema \in {"old", "new"}
Of(E) == {e \in E : stored[e] > 0}

(* Once nothing is left to be inserted again, every panel counts each      *)
(* event in its range once, in whatever interval it is asked, however      *)
(* often the event came, wherever an insert failed, and through the        *)
(* rebuilding of the tables while events arrived ("a running aggregate",   *)
(* "immune to redelivery").                                                *)
PanelsCountEvents ==
    Settled => \A range \in Ranges :
        /\ \A interval \in {1, Hour, Day} :
              GetOverview(interval, range) =
                  [TotalEvents |-> Cardinality(Of({e \in Ids : Within(Pool[e].time, 1, range)})),
                   TotalBlocked |->
                       Cardinality(Of({e \in Where(LAMBDA x : x.verdict \in {"blocked", "rate_limited"}) :
                                          Within(Pool[e].time, 1, range)}))]
        /\ \A network \in {Pool[e].network : e \in Ids} :
              NetworkEvents(network, range) =
                  Cardinality(Of({e \in Where(LAMBDA x : x.network = network /\ x.client # NoAddress) :
                                     Within(Pool[e].time, Hour, range)}))

(* What the profile says of a rule over whole hours is what its drill-down *)
(* shows, and of each event that was scored as an attack it says that a    *)
(* rule matched it or that none did.                                       *)
DrillDownsAgree ==
    owed = {} => \A range \in {r \in Ranges : r.from % Hour = 0 /\ r.to % Hour = 0} :
        /\ \A x \in {g[1] : g \in Groups} :
              LET events == MapThenSumSet(LAMBDA g : GroupEvents(g, range), {g \in Groups : g[1] = x})
              IN  /\ events = RulePaths(x, range)
                  /\ events = Cardinality(RuleSamples(x, range))
        /\ Cardinality(Of({e \in Where(LAMBDA x : x.vendor = "cloudflare"
                                                    /\ x.band \in {"attack", "suspicious"}) :
                              Within(Pool[e].time, Hour, range)}))
              <= CoverageGaps(range) + MapThenSumSet(LAMBDA g : GroupEvents(g, range), Groups)

(* A rule whose reading is asked for is shown unless as many rules of that *)
(* reading fire more ("the filter would appear to return nothing").        *)
RareRulesAreFound ==
    \A range \in Ranges : \A g \in Rows(range) :
        LET shown == RuleProfile(range, ReadingExpr(g, range))
        IN  g \in shown \/ Cardinality({h \in shown : GroupEvents(h, range) >= GroupEvents(g, range)}) = Limit

(* A record that disagrees is counted under the kind and in the bucket it  *)
(* has now, however often it was inserted and though the tables were       *)
(* rebuilt meanwhile, and no record is counted anywhere that no version of *)
(* it has been: a record whose amendments neither move nor reclassify it   *)
(* is counted once.                                                        *)
DisagreementsAreCounted ==
    Settled => \A range \in Ranges :
        LET within(T) == {x \in T : Within(x[2], 1, range)}
            panel == GetDisagreements(range)
        IN  /\ Cardinality({x \in within(Tallied(Newest)) : x[3] # "none"}) <= panel.TotalDisagreements
            /\ panel.TotalDisagreements <= Cardinality({x \in within(written) : x[3] # "none"})
            /\ panel.TotalRecords <= Cardinality({<<x[1], x[2]>> : x \in within(written)})

(* What the set over correlation_id is for ("a counter would report every  *)
(* late arrival as a new disagreement", 0005). A late arrival that moves   *)
(* window_start to an earlier bucket, or changes the kind, is reported as  *)
(* one all the same: the code does not keep this.                          *)
LateArrivalsAddNothing ==
    Settled => \A range \in Ranges :
        LET within == {x \in written : Within(x[2], 1, range)}
            panel == GetDisagreements(range)
        IN  /\ panel.TotalDisagreements <= Cardinality({x[1] : x \in {x \in within : x[3] # "none"}})
            /\ panel.TotalRecords <= Cardinality({x[1] : x \in within})

(* The four of them.                                                       *)
FiguresAgree == PanelsCountEvents /\ DrillDownsAgree /\ RareRulesAreFound /\ DisagreementsAreCounted
=============================================================================
