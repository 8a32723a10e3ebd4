# siem: models and proofs

siem collects the request logs of web-protection vendors (Cloudflare, F5, DataDome, nginx), recognises which
rows of different vendors describe one HTTP request, and keeps one correlated record per request. The TLA+
modules here are translated from the Go code under `src/backend`; paths below are relative to
`src/backend/internal` unless they start with `src/`. `PROJECT.json` has the map from every definition to the
lines it models, the hazards with the properties that would catch them, and what is listed below in full.

## 1. The system

Three processes share Redpanda (topics), Redis (markers, windows, counters, locks, caches) and ClickHouse
(tables): `siem-ingest` takes deliveries and polls vendors, `siem-processor` (any number of copies) runs the
background workers, `siem-api` serves the console. ClickHouse has no transactions: a row is changed by
inserting a higher version of it, and a read takes the highest.

| component | state it keeps | operations | who it talks to | hard behaviour | what makes it correct |
|---|---|---|---|---|---|
| receiver, publisher, dedup (`ingest/receiver`, `ingest/publisher.go`, `ingest/dedup`) | dedup markers, two topics | deliver, filter, commit, dead-letter, mark, answer | vendors, Redpanda, Redis | concurrent duplicates, partial commits, hang-ups, crashes, expiring markers | a 2xx only after the durable write; no marker before it; rejected records parked, fit ones not |
| quota (`ingest/quota.go`) | two counters per feed | charge, compare, refuse | Redis | fixed windows, charged before compared | what is let through stays in the limit; a delivery that fits is let through in the end |
| process wiring (`src/backend/cmd`, `server`) | what runs, what is open | start, supervise, stop | everything | shutdown while working, workers that fail | no client is closed under its user; no stage stays down |
| pull worker (`ingest/puller`) | watermark per feed | poll, filter, commit batch, advance | vendor APIs, Redpanda, ClickHouse | two pollers of one feed, batches of which part is filtered or rejected, crash before the watermark | what the watermark passes is durable; nothing is left behind |
| reading and adapters (`vendors`, `ingest/filter`, `normalize`) | none; drift windows | detect, parse, normalize, filter, mask | receiver, normalizer | one record read twice, by two programs | the second reader reads what the first took; identities tell rows apart and tie hops together |
| event consumer, normalizer (`data/stream`, `normalize`) | committed offsets | poll, handle, dead-letter, commit, restart | topics, ClickHouse | four writes that fail separately, crash before the commit, poison records | at least once, nothing skipped; raw bytes first |
| correlator (`correlate/worker.go`, `batch.go`, `correlate/window`) | window buckets, schedule, identities | file a fetch, schedule its windows | normalized topic, Redis | partial pipelined writes, redelivery, expiry | every filed event reaches a record |
| grouping (`correlate/keys`, `correlate/group`) | none | keys, components, window groups | closer | single-vendor ids, window boundaries | connected events meet, unrelated ones do not |
| closer, record table (`correlate/closer.go`, `merge.go`, `record.go`, `geo.go`, `data/clickhouse/correlated.go`) | correlated_requests | claim, read, walk, group, resolve the id, merge, insert | Redis, ClickHouse | several closers, late arrivals, crash after the claim | one record per request, amendments add, no false join; a record says what its events say |
| alerting (`alerting`) | cooldowns, alerts | measure, claim cooldown, store, deliver, retry, triage | ClickHouse, Redis, webhooks | claim before store, several writers of one row | an alert per cooldown; an alert is delivered or given up; triage survives delivery |
| rule names (`cfrules`) | names per zone | refresh, full pass | Cloudflare, ClickHouse | changes between passes, skipped zones | names catch up |
| accounts, invitations (`service/admin.go`, `invite.go`) | users, invites | create, edit, invite, redeem, erase | ClickHouse, Redis locks | check-then-act across rows | an address is one account, an invite one password, erased is gone |
| sessions (`service/auth.go`, `auth`) | tokens, revocations | sign in, enrol, refresh, sign out | browser tabs, Redis | tokens that outlive what they say | authority in use is recent |
| feeds and secrets (`service/feeds.go`, `secrets`) | feed row, sealed secret, cache | put, rotate, resolve, delete | Redis, ClickHouse | partial rotation, several requests at once, refill races, Redis restarts | an enabled feed keeps its credential |
| audit trail (`audit`, `data/clickhouse/audit.go`) | hash chain per tenant | append, list, verify | ClickHouse | order by wall-clock time, of several clocks | an untouched trail verifies |
| feed and correlation health (`ingest/health.go`, `correlate/health.go`) | counters in memory, tables | count, flush, judge | ClickHouse, console | failed flushes, several processes | counted once, a stall is told |
| retention (`retention`, the tables' TTLs) | none | delete by cut-off, purge | ClickHouse | partial passes, edits meanwhile | what is due goes, what is not stays |
| caches (`correlate/settings.go`, `ingest/filter`, resolvers) | an entry per key | look up, refill, invalidate | ClickHouse | concurrent refills, failed reads | answers are recent |
| search and browsing (`query`, `service/search.go`, `service/correlation.go`) | none | list, page, export, follow | ClickHouse | the table changes between pages | nothing twice, nothing lost, truncation told |
| panels, dashboards (`data/clickhouse/wafmigration*.go`, `waftuning.go`, `dashboards.go`) | rollup tables | aggregate, rebuild | ClickHouse | redelivery, superseded versions | figures agree with the events |
| request chain (`server`, `middleware`) | rate counters | limit, authenticate, authorize, answer | browser, Redis | partial failure of a handler's reads | an answer says what happened |

How they interact: a delivery becomes messages on the raw topic (receiver, or pull worker) or on the
dead-letter topic; the normalizer turns messages into rows and forwards events; the correlator files them in
windows in Redis; a closer turns due windows into records; alerting and the console read the records.
Everything an operator edits (feeds, users, rules, settings) is a versioned row behind a lock in Redis,
cached where it is read often, and every edit is an entry of the audit trail.

## 2. Modules

A component is a module with its constants and assumptions; an MC module instantiates several of them over
variables of their own or shared ones, with a variable `scenario` that never changes: a behaviour of the
composition is a behaviour of the instance it names. Components that share state are one module.

| module | models | proofs in |
|---|---|---|
| `DurableAck` | abstract: durability first, acknowledgement second | |
| `Ingest` | the push path, every exit of `handleDelivery`; implements `DurableAck` | `IngestProofs` |
| `Quota` | a feed's two counters, senders that wait and retry | `IngestProofs` |
| `Lifecycle` | start, supervision and shutdown of the two unattended services | `IngestProofs` |
| `Grouping` | keys and `group.Batch` as operators | |
| `Closer` (extends `Grouping`) | the correlator's worker, any number of closers, Redis and the record table | `CloserProofs`, `ClosersProofs` |
| `Records` | what one record says: `buildRecord`, `mergeRecords`, the partition of its row | `ClosersProofs` |
| `AtLeastOnce` | abstract: the committed offset moves forward and never past a record not dealt with | |
| `Pipeline` | the consumer groups of the raw and the dead-letter topic; implements `AtLeastOnce` twice | `PipelineProofs` |
| `Puller` | the pull worker of any number of processes | `BackgroundProofs` |
| `Alerting` | firing, delivery and triage of alerts under the lock of an alert's row | `BackgroundProofs`, `ConsoleProofs` |
| `Measuring` | the rule language and what a rule measures over its window | |
| `RuleNames` | the refresh of a customer's rule names | |
| `Accounts` | users and invitations under three kinds of lock | `AccountsProofs` |
| `FeedSecrets` | a feed's credential through rotations, restarts and failures | `FeedSecretsProofs`, `ConsoleProofs` |
| `AuditTrail` | appending to and verifying the chain | `ConsoleProofs` |
| `FeedHealth`, `CorrelationHealth` | counters, their flush, what the console says of them | |
| `Retention` | passes, TTLs, purges, changes of the settings | `ConsoleProofs` |
| `Caches` | the four caches as one with its differences as parameters | `ConsoleProofs` |
| `Sessions` | one account's tabs, tokens and revocations | `ConsoleProofs` |
| `Vendors` | what each hop of a request logs and each adapter makes of it | `ConsoleProofs` |
| `Search` | paging and export while the table changes | `ConsoleProofs` |
| `Browsing` | following a request through the console | |
| `Panels`, `Rollups` | the migration and tuning panels; the dashboards' rollup tables | |
| `Reading` | how a delivery's records are read by the receiver and again by the normalizer | |
| `Requests` | the middleware chain and what every reading handler refuses, reads and answers | |
| `MCIngest`, `MCCloser`, `MCClosers`, `MCPipeline`, `MCBackground`, `MCConsole` | the small instances | |

### The ingest boundary

In `Ingest`, `phase[d]` is the line of `handleDelivery` a delivery has reached: *received* (authentication,
parsing, quota), *admitted* (`BuildEnvelopes` has run and the commit is detached from the request),
*partitioned* (`dedup.Filter`), *committed* (`PublishBatch`), *deadlettered* (`PublishRejections`), *marked*
(`markCommitted`), answered. Each of those calls is one action, its failure another: the broker may take any
part of a batch, Redis may fail a read (dedup fails open) or write some markers only, markers expire, senders
hang up and come back, the process crashes. Of a record only its identity (`EventIDFor`) and whether it
normalizes or is filtered matters. `Rejection.Index` and the envelope list are kept as the code has them,
places in two lists, because they differ when a record is filtered.

`Quota` charges each counter before it compares it, so a refused delivery has been charged; a counter out of
reach lets through. `Lifecycle` has the processor's supervised workers with their growing back-off and
ingest's listener with its grace period, and the order in which clients are closed.

### Grouping, Closer, Records

An event is its vendor, time, identifiers and shape (address, host, path, method); a correlation id is the key
it is the hash of. `Component` is the least set closed under shared identifiers, `Confirmed` asks for a second
vendor, `Opens` is the order in which `resolveWindow` opens windows. The worker pushes members, schedules
closing windows, commits. A closer's tick follows `tick`/`pass`/`build`/`materialize`/`insert` call by call:
`Claim` (ZPOPMIN), `ReadMembers`, `Walk` (one level of identifiers per round trip), `Build`, `LookUp`,
`Settle` (SETNX), `Publish` (one SETNX per identifier), `Materialize`, `WindowDone`, `EndTick`, `ReadStored`
(versions and rows), `Insert`. Deadlines are abstract: a scheduled window may be due at any moment, which
covers every arrival time at the price of saying nothing about how long a window waits. That leaves the
comment at `correlate/window/window.go:514`, on a late writer that moves a deadline, without a property.

`Closer` keeps of a record its events, tier and version. What the other columns say is `Records`: the events of
one correlation id arrive in any order, the members expire at any moment, and each closing assembles a record
from what is left and folds it into the stored row. The stable sort of `sortedMembers` is the order `Earlier`
on places of the member list, of which the code only ever takes the first or the last at places of some kind
(`FirstOf`, `LastOf`).

### Pipeline

`phase[g][p]` is the line processor p's worker of group g has reached. Both groups share `Poll`, `Commit`,
their failures and `Restart`; in between the raw group goes through `HandleBatch` write by write (`StoreRaw`,
`Normalize`, `StoreNormalized`, `StoreRejected`, `Forward`, then one `DeadLetter` per unreadable record) and
the dead-letter group through `Drain`, record by record. Every write has a variant that fails with any part of
it stored. Stores are sets where the table replaces by event id and row counts for `rejected_events`, which
does not. The tenant policy cache of a batch is `Starved`: asking stops at the first success, so the records
that go without their policy are the first of their tenant. The group protocol is outside the repository: a
processor that loses a partition has no offset left to commit for it, one that gains it starts at the
committed offset. `Reading` has what `Pipeline` abstracts: framing, stamps, masking, drift and age of a record.

### Background workers

`Puller`: a position is an object, a page or a window of the vendor's log, with records that are fit, filtered or
rejected; a poll fetches what lies after the watermark and commits it batch by batch. The two lists of
`BuildEnvelopes` are kept as places, as in `Ingest`: envelopes without the filtered records, rejections by their
place among all. `Alerting`: a pass evaluates, claims a cooldown and stores; another
lists pending alerts, posts and writes the outcome under the row's lock, as operators do their triage.
`Measuring`: the conditions an author may write, their validation, the window a pass reads and the records that
come late to it. `RuleNames`: full passes and passes over what changed.

### The console and what it manages

`Accounts`, `FeedSecrets` and `AuditTrail` take a handler apart into its reads and writes; a handler reads under
its lock in one step with taking it. `UpdateFeed` settles on references before it takes the lock, so any number of
requests to change one feed are between those two points at once; each process of the audit trail has its own clock. `Sessions` tells time by what is left of a token. `Retention` counts days
and sends one statement at a time. In `Search` a table changes between two pages; in `Browsing`, `Panels` and
`Rollups` a read is an operator over the tables and the actions are what changes them. An amendment may come any
time after its record, move its start, and say anew what kind of record it is, in `Browsing`, `Rollups` and
`Measuring` alike. `Vendors` follows a
request through Cloudflare, a Worker, DataDome, BIG-IP and nginx, each of which refuses it or passes it on and
logs it in its own words. `Requests` is a table of handlers, each the checks it makes in order and the reads it
makes in order, under the chain that limits, authenticates and translates.

## 3. Runs

A run checks everything its instance promises, safety and liveness together; a run that is expected to be
violated checks one statement of the repository that the code does not keep.

| run | instance | shows |
|---|---|---|
| `ingest` | two deliveries that share a fit and a rejected record, a filtered record, a probe, one crash; four deliveries under three kinds of limit; two workers and a delivery under a shutdown | durable before acknowledged and before marked, rejections parked, `DurableAck` implemented, a delivery nobody refuses for good becomes durable although senders may always hang up; limits hold and everyone who fits gets through; nothing is closed under its user and no stage stays down |
| `closer` | two closers on events of two windows while identities expire; one closer that fails once, whose members expire even while pending; two halves of a request and the row that joins them, in any order; one record of three events that each say any of six things | no false join; an amendment takes nothing away; a record stays findable through its own events; a record tells of its events, and finds the disagreements all of them together have |
| `pipeline` | two processors, a fit and an unreadable record, a rejection of the receiver, one fault; then the worker and one closer on three events, whose keys expire or whose filing fails or is cut off once | nothing skipped, raw first, `AtLeastOnce` implemented by both groups, both catch up; every event reaches a record |
| `background` | two processes on a feed of each kind with an unreadable payload, a quiet window or a batch of fit, filtered and rejected records; an alert two processors deliver while an operator triages it; rule names of one and of two tenants | the watermark passes no fit record that is not durable, but for those taken for rejected ones, and the rest is pulled in the end; triage and delivery keep apart and every alert settles; names catch up |
| `console` | eighteen instances of what surrounds the pipeline, see below | |
| `ingest_filter`, `closer_late`, `closer_split`, `closer_race`, `record_rules`, `puller_quiet`, `search_export` | the smallest instance of each | **violated**, see section 4 |

The instances of `console`, by scenario:

| scenario | instance | property |
|---|---|---|
| accounts | two handlers, three users, two addresses, four requests, one failed call | `AccountsAreSingle`, `ErasureHolds`, `WritesWhatWasAsked` |
| feeds | two operators at once, a delivery, three references, three changes, a restart and a failed call | `CredentialSurvives` |
| audit | two writers whose clocks are up to two insertions apart, four entries, two failed calls | `TrailVerifies`: links hold but at entries that came out of order |
| health, closing | two processes count one feed; one process closes windows | `HealthIsTold`: counted once, broken only if refused lately, a stall is told and no alarm raised without a cause |
| retention | two tenants, four days, one row a table and day, one edit, one failure | `ExpiredIsGone`, `OnlyDueIsDeleted` |
| search | three rows in pages of one while the table changes twice; an export of two | `ListingIsFaithful`: nothing twice, nothing that stood still left out |
| caches | two callers, two edits, one failure | `AnswersAreRecent` |
| edit, fire | a rule reworded between firing and delivery; two groups firing on two processors | `OneAlertPerSilence`: one alert per cooldown; silence only after an alert, but for one group per failed call or crash |
| hops | a request that meets every answer of every hop next to one that meets none | `RequestsAreTold`: hops linked, the address the client's, rows told apart, verdicts what happened |
| sessions | two tabs of one browser, two roles, an edit and a suspension | `SessionsEnd` |
| evidence, browsing | one request with two events, one that matched before, a custom and a managed rule; three events, two records and three ranges | `EvidenceIsComplete`: what Cloudflare let pass and F5 blocked is told, a rule is read as F5 saw it, samples are stable, corroboration current; a request is followed from any of its ends, an event from each record that begins within the slack of it |
| figures, measuring | four events in batches of two that come again while the rollups are rebuilt; three kinds of rule, two clients | `FiguresAgree`: events counted once, a record under its kind and in its bucket, and nowhere no version of it was; a burst measured whole, two alerts of a group on different requests, evidence the dry run reproduces unless it moved |
| reading | two deliveries of the eight of `MCSent`, which trip over everything an adapter can | `RecordsAreRead`: each record accounted for, what was taken is read, what was masked is masked, drift told once |
| requests | any request next to a good one, one let through a minute | `AnswersAreTold` |

Every property is broken by a plausible bug in a definition of the code (`PROJECT.json`, "mutants").

Bounds. `Max…` constants and those the MC modules call `…Faults`, `…Edits`, `…Changes`, `…Time`, `…Restarts`,
`TrailLength`, `KeptRows` cap what would go on for ever. The properties are about what one failure leaves behind:
one failure reaches every half-finished step, two every pair of them. Times are as long as the longest lifetime
of the instance plus what is needed to see it end. `FetchLimit`, `Limit`, `PageSize`, `Claim` and batch sizes are
small so that several rounds occur; the handlers treat the members of a batch one by one. Two or three actors
suffice where the code has no more than a holder and one who waits, or a writer and a reader that overtakes it;
the violations need no more. `Panels` bounds evidence by two events a request: a record is a join of one event
of each vendor, and one more is what a merge adds. In `figures` a behaviour counts events or
records and in `browsing` it expires payloads or writes records, since nothing that is read shows both; where the
first of two clients or ids may be either, it is the first (`CountedApart`, `PayloadsApart`, `FirstClient`,
`FirstRecord`). The proofs of section 5 lift these bounds for the properties they cover. Deadlock is not checked: senders that were answered, windows that are closed, topics that are
drained and clocks at their bound leave nothing to do.

Fairness. Senders retry and a handler that has started runs on (weak fairness of each; it is a goroutine that
waits on calls with time-outs); admission and the broker do not fail for ever (strong fairness of `Admit` and
`Commit`, since failures may come in between infinitely often). Hang-ups, refusals, failed commits and crashes
are never assumed away otherwise. A consumer, a closer, a poller, a refresher and an alerting worker are loops
supervised for the life of the process: weak fairness of each, and `NoStageStaysDown` is the check that the
supervisor gives it. The broker gives an unowned partition to some processor. A lock that is asked for again and
again is obtained (strong fairness of `TakeLock`): the holder leaves it within its ten seconds and
`data/clickhouse/locker.go` keeps trying. Time passes. Failures stop because their bound does. A composition
asks the fairness of the instance its scenario names; a disjunction over scenarios stands for the disjunct of
the one at hand, because `scenario` never changes. The safety runs have no fairness.

## 4. Where code and its documents disagree

Runs that are violated, with the lines in `PROJECT.json`:

- `ingest_filter`: `BuildEnvelopes` adds no envelope for a filtered record while rejections are counted in
  records, so a fit record behind both is taken for the rejected one and lost, acknowledged.
- `closer_late`: a late exact partner does not find the record the window gave its event; the event ends up in
  two records.
- `closer_split`: two windows of one tick that emit one id write two rows of one version; one is lost.
- `closer_race`: two closers amend one record from the same version, and the later write removes the events of
  the earlier.
- `record_rules`: a merge keeps the matched rules of the fresh record alone.
- `puller_quiet`: a DataDome export moves its watermark only with a batch, so a quiet spell as long as one poll
  reaches is polled again and again.
- `search_export`: an export that ends exactly at its cap is not told it was cut.

Stated in a module, refuted by TLC on its instance, and in no run: `FeedSecrets!RotationKeepsCredential`
(a rotation interrupted between revoking and writing the row), `Accounts!SupersededIsDead` (`invites.go:59-61`),
`FeedHealth!QuietIsShown` and `CountersReachTable` (a feed silent for over an hour has no entry; one failed flush
ends siem-ingest's health loop), `Retention!AlertsExpire` (FR-036), `Lifecycle!LastMinuteIsWritten`
(`ingest/health.go:148`), `Sessions!EnrolmentIsVerified` (`auth.go:143-144`, two tabs signing in),
`Records!AttributionByTrust`, `OneVendorAgrees` and `OneRowPerRecord` (see the module), and:

- `Records!NoFalseConflict`: only bot scores drive a score conflict (`normalize/disagreement.go:23-25`, `111-113`), but
  `correlate/merge.go:120-123` marks every stored score as a bot's, so an allowed request with a high threat score
  becomes a `score_conflict` when it is amended.
- `Puller!FitIsKept`: the misalignment of `ingest_filter` in a pulled batch (`puller/worker.go:219-229`, `256-275`); the
  watermark moves on and the record is never fetched again.
- `AuditTrail!NeverCriesWolf`: an entry carries its own process's time (`data/clickhouse/audit.go:57`) and the trail is
  listed by it, so clocks a millisecond apart break links of an untouched trail, which the console reports as
  tampering.
- `FeedSecrets!EditsKeepCredential`: an edit of another field that began before a rotation writes the revoked
  reference back (`service/feeds.go:207`), without any call failing.
- `Browsing!EventAlwaysLeadsToItsRecord`, `RequestIsAlwaysFound`: both look for a record up to ten minutes from the event
  (`data/clickhouse/correlated.go:421-429`, `search.go:504-510`), but events joined by an identifier may lie any time
  apart (`correlate/group/group.go:141-180`), and a record begins with its earliest.
- `Rollups!LateArrivalsAddNothing`: `0005_rollup_state_size.up.sql` counts distinct ids within a bucket and a kind; an
  amendment that moves `window_start` back (`merge.go:55-57`) or changes the kind counts the record again.
- `Measuring!AlertsAreReproduced`: amendments take a record out of the window or group of its alert, so the dry run may
  no longer satisfy the rule (`alerting/evaluator.go:22-27` speaks of reproducing it).

What else was met while modelling. It is in the models as the code has it:

- *Ingest.* `RetryAfter` of the quota never reaches the sender (`receiver.go`, `quotaError`); refused deliveries
  are charged although `quota.go:31-33` speaks of ingested volume; a delivery larger than the per-second limit is
  refused for good. One over-long line fails a whole delivery though `cloudflare/adapter.go` says one bad line
  must not cost the others. Items of a pretty-printed JSON array are taken by the receiver and rejected by the
  normalizer, which reads line by line. `parseTimeString` asks the clock for the year though `adapter.go` calls
  `Normalize` pure.
- *Pipeline.* A tenant row that cannot be read rejects a fit event for good (`normalize/batch.go:213`) although
  `batch.go:55-57` says of rejections that retrying would fail identically. A replayed batch lists its rejections
  twice (`data/stream/stream.go:152-154` says exactly-once at the storage layer; true of events only).
- *Correlation.* `Build` groups each claimed window alone (`correlate/closer.go:310`), so a neighbouring window is
  not consulted, although `group.go:292-294` says what is missed without it. A failed claim, read or insert loses
  a closing until a later event schedules the window again. Events without address and host share the key "".
- *Identity.* Two nginx hops of one feed with one ray, or two DataDome calls for one parent ray, become one event.
  Under Pseudo IPv4 the F5 event names its peer (`f5/clientip.go:26-27` says vendors agree by construction).
- *Pull worker.* Rejections of a pull are never dead-lettered; concurrent pollers may move the watermark back. A
  rejected record behind a filtered one is published as if it were fit.
- *Alerting.* A failed store, or a crash before it, leaves a group silent for a cooldown with nothing to triage. The
  evidence of an alert is at most 20 of its records, in no order that is stated. Acknowledging a resolved alert opens
  it again; a failed read of the rule or secret gives up a delivery; the `rate` aggregate is always 1; a window
  shorter than the lag of the records never sees them; evaluation and delivery share one goroutine though
  `worker.go:42-44` says a slow webhook delays nothing.
- *Rule names.* Names of a zone that is gone stay; an emptied description keeps the old name.
- *Accounts, feeds.* The last administrator is counted outside any lock; a lock is released without asking whose
  it is.
- *Audit.* "Before" values are read before the lock; a failed verification read is shown as a broken chain.
- *Retention.* Periods above a table's TTL are not kept; a purge goes on when its audit record fails, and leaves
  correlated and rejected rows.
- *Search, browsing.* An identifier look-up stops at 100 rows in no order; two identifier filters give the union;
  a record whose start an amendment moves to another day keeps a row of each, since the table sorts by
  `toDate(window_start)`; `ListCorrelatedRequests` has neither range bound nor deadline of its own; four handlers
  answer INTERNAL for a query that timed out.
- *Requests.* An error envelope never carries a trace id; both scopes of the limiter are charged to the peer, so
  the tenant's limit is never reached; a missing bound of the tuning panels reads as 1970.
- *Panels, rollups.* Counts read superseded versions; a rate-limited F5 verdict is on no stage; the disagreement
  rate divides by a maximum over kinds; WAF score bands count redelivered events again.
- *Correlation health.* A tenant that closed nothing is not reported even when the backlog is deep
  (`closer.go:231-233` says it is); failed claims read as stalled, not failing.
- *Sessions, process wiring.* A refresh in flight survives a sign-out; `VerifyMFA` does not ask again whether the
  user is active; `wg.Wait()` is not bounded by the grace period; a worker that returns nil is not restarted.
- *Caches.* Invalidating settings reaches only siem-api's cache, which nobody reads.

## 5. Proofs

Proved for every value of the constants, unless a hypothesis is named. Each theorem has an invariant that is
inductive, which the property alone never is; the module headers tell the arguments in a paragraph.

**Ingest** (`IngestAssumption` types the constants). That a marker is durable says nothing of an event that was
suppressed a step ago. `IInv` adds where each candidate of a delivery in flight is: from *partitioned* on,
durable or carried (`Covered`); from *committed* on, the carried set is durable. From it `MarkersAreDurable` and,
when every rejection names its own envelope (`Aligned`, which `Aligned_NoFilters` derives from an empty filter
set), `AckIsDurable`, `RejectionsAreParked` and the refinement of `DurableAck`, step by step. Without `Aligned`
they are false: `ingest_filter`. `QuotaIsKept`: a counter that was reachable has at least what was let through
in its time, and the limit was compared with all of it. `ClosedInOrder`: while a client is closed, the phase has
passed the wait for those who use it.

**Closer**. *Same*: what is claimed under an identifier names a group that identifier is connected to. So an id
found through any identifier of a group, or claimed under the group's own key, *fits* all its members (`Fits`,
`ClaimsFit`), and what is merged under an id fits it too: `RecordsAreOneRequest`, for any closers and whatever
expires. With one closer the version it read is the version it amends (`HeldStill`): `OneCloserAdds`. While no
identity expires, an id stays claimed under a key of its own events (`FInv`): `RecordsAreFound`.
`ClosersProofs` gives the three to the instances of `MCClosers`.

**Records** (`RecordHypotheses`: details have their type). A row *tells* of its events: span, host and shared mark
are what they say together, a vendor's verdict and score what one event of that vendor says, and its kind what
these verdicts and scores weigh. A record built from a member list tells of its members (`Built`), and so does one
that amends a row which tells (`Merged`), so `RecordsTellOfTheirEvents`. With one event per vendor the vendors'
verdicts are the events' verdicts, so weighing again after a merge finds every disagreement of all the events, and
makes up none but exactly the score conflict that it reads into a stored threat score (`ReclassifiedWeighs`):
`DisagreementsAreFound`. That a set of places has a
first and a last is had without induction, from the well-foundedness of inclusion on finite sets (`HasExtreme`).

**Pipeline** (`PipelineAssumption`: the kinds of record are disjoint, `None` is no processor). A commit takes the
offset the client has polled, and what is known of those records is spread over the worker's phase. `IInv` adds:
the fetch in hand lies on the topic (`InPlace`); all that the owner of a partition would commit, it has in hand
(`OwnerHolds`); what each phase of the normalizer and the drain has established of its batch (`NormalizerAt`,
`DrainAt`); which records each topic can carry (`Sorted`). Topics and stores only grow (`Grows`), so a step of one
worker disturbs no fact of another. From it `CommitsSkipNothing`, `NothingComesFirst`, and both refinements of
`AtLeastOnce`, put together as `GroupsAreAtLeastOnce`.

**Pull worker** (`PullerAssumption`). What is owed of a batch is its fit records, without those the index of a
rejection is mistaken for (`Displaced`): those that come after a filtered record with a rejected one behind it. The
envelope of an owed record is at no rejected place, so `BuildEnvelopes` keeps it (`OwedAreCandidates`). A process knows
a position up to which the log is committed and has in hand everything owed from there to the last position it
fetched (`Held`); so when its first batch is durable, the log is committed up to it, and that is the only position it
ever writes: `WatermarkIsSafe`, which allows a watermark to move back.

**Alerting** (`PeopleAssumption`: people are not processes). Whoever has read an alert's row holds its lock, and
the row in hand is the alert's still, since nobody writes an alert whose lock he does not hold (`Writing`,
`Working`): `WritesKeepApart`.

Of the same module (finitely many processors, a cooldown of some time): the alerts of a group, and the claims of
alerts about to be stored, have each used up a cooldown of the time until the group may fire again, and that is at
most one cooldown ahead (`Paid`). An alert goes into the table once per claim, deliveries and triage change no
group; and whoever made a group silent holds a claim or has stored its alert, but for one group per failed call or
crash (`Matched`): `AlertsOfConsoleAreSingle`.

**Accounts**. A handler that is about to write holds the lock of what it writes, and what it read under it still
holds. A user once present is present or erased for good. The passwords chosen from an invite, those about to be
written, and the one its live token is still good for are no more than the invites issued (`Worth`). From these
`SingleAccounts` and `ErasureIsFinal`. `WritesAreAsked`, an action property, says of every write that each field of the
new row has the value its request asks for, or, where it asks for none, the value the row has at that moment: what
is made of the row in hand honours the request (`MutatedHonours`), and the row in hand is the row in the table
(`WriteIsAsked`).

**Audit trail** (`TrailHypotheses`: the bounds are numbers, and nobody is no auditor; clocks may differ). Only the
holder of the lock is at work, so nothing is inserted between its read of the latest entry and its own insert. So an
entry that is the latest when it comes names the one before it, and stays right until an entry with an earlier time
comes between; such an entry is `late`, and where clocks agree there is none: `TrailOfConsoleVerifies`. That a lock
lapses after ten seconds under its holder is not in the model.

**Feed credentials** (`FeedAssumption`: the bounds are numbers and a reference can be minted; any number of requests at
once). A process believes only in what has been sealed. What a rotation is about to write it has sealed, and until it
writes, no other request knows of it (`Private`), so none revokes it; a removal marks the row before it revokes, and
a rotation that comes in between gives the row another reference (`Gone`): `CredentialIsSealed`, and
`CredentialIsKept` of the console's instance. Both except a row that was led `astray`, by a rotation that ended
half-way or an edit that a rotation overtook.

**Caches**. A read gets what is in the table after it began and ends in time, and an entry carries the time of its
storing, so what is kept was in the table within a read of being kept (`KeptIsRecent`).

**Retention** (finitely many customers, periods that are integers; the clamp is the model's). A pass deletes for a
tenant by periods it had in this pass, and by those it has now unless they changed (`HadInPass`); until the pass
is over every table of every tenant is swept or outstanding (`Swept`): `ExpiredDataIsGone` and the action property
`DeletionIsDue`.

**Search** (identifiers are numbers, a page holds a row). No version of a row sorts before an older one, an event's
never elsewhere (`VersionsInOrder`), so what the query matches is the newest rows after the cursor, whether it
collapses versions before or after the cut (`MatchedIs`). A page ends at its last row, so the cursor parts what was
listed from what stood still and is to come (`CursorParts`), and what arrives, is amended or deleted between two
pages moves no row that stood still across it, and none that was listed back behind it (`TableKeeps`):
`ListingsOfConsoleAreFaithful`.

**Sessions**. A token's age and the age of the authority in it grow together (`TabIsRecent`); a refresh token that
is used up is named in Redis for as long as it lasts (`TokensAreNamed`).

**Vendors** (no hypothesis, any set of requests). What a hop logs says whose request it is by an identifier that
was logged before it (`TellsItsHop`, `Carries`); a request has left every hop it was logged at (`BehindIt`), so only
the last of its events can have refused it (`Verdicts`).

How a theorem of a component becomes one of a composition: `scenario` never changes, so the invariant of the
instance under `scenario = …` is an invariant of the composition. Where the component has a proof module it is
instantiated as the MC module instantiates the component, and lemmas `Same…` say that the two instances mean the
same, because the prover does not see through an instance of an instance.

### What is only model-checked, and why

- *Liveness* (`DurableInTheEnd`, `EveryoneGetsThrough`, `NoStageStaysDown`, `NothingIsLost`, `PulledInTheEnd`,
  `EveryAlertSettles`, `NamesCatchUp`): fairness and ENABLED are outside the prover.
- `HealthIsTold`, `FiguresAgree`, `RecordsAreRead`, `AnswersAreTold`, `EvidenceIsComplete`: their statements, or the
  operators they are about, sum, filter or fold (`MapThenSumSet`, `SelectSeq`, `FoldLeft`, `FoldSeq`), which the
  library defines by recursion over data; what such a definition computes needs an induction theorem that takes an
  operator, and the installed provers cannot instantiate one. The parts of them that do not are in the plan.
- Properties of a `violation` run are false.

## 6. Plan

1. `FeedHealth!CountedOnce` with the table as a function of the minute, so that the sum has two summands a step.
2. The parts of `EvidenceIsComplete` and `HealthIsTold` that count nothing, each as a theorem of its component.

## 7. Not modelled

Network owners and the F5 catalogue (a public list replaced as a whole, a table compiled in), query consistency (a
setting of a query), the WAF rule engines (external) and the test of an expression, which only reads, the generated
API code and the web console (a client without state the pipeline depends on), the seed and evaluation commands,
the text of SQL, cryptography, rendering and logging. Partly modelled, with the rest abstracted or constant: the
scoring of joins (it decides no membership), the decode cache of the windows, configuration, the projection of
storage growth. `PROJECT.json` lists every component with its status and reason.
