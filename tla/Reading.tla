-------------------------------- MODULE Reading --------------------------------
(* How the records of a delivery are read, twice: by the receiver, which   *)
(* only asks whether each can be read (vendors/*/adapter.go,               *)
(* ingest/publisher.go, ingest/filter), and by the normalizer, which reads *)
(* each again by itself and writes its row (normalize/batch.go, drift.go,  *)
(* redact.go, deadletter.go). Ingest and Pipeline model what fails and is  *)
(* repeated around it, and Vendors what a record means.                    *)
EXTENDS Naturals, Sequences, SequencesExt, FiniteSets

CONSTANTS
    Pool,       \* deliveries by id: vendor, shape, gzip, and items: kind, lines, size, stamp, at, unknown, host, spelled
    MaxBatchEvents, \* records of a delivery
    MaxAge, MaxFuture, Year,
    Share,      \* a feed drifts when more than one event in Share has unknown fields
    DriftWindow,
    Policies,   \* sets of fields a tenant may mask
    Offered,    \* filter rules an operator may ask for
    MaxTime,    \* bound: the clock
    MaxDeliveries, MaxBatch, MaxChanges, MaxFaults  \* bounds

VARIABLES
    now,
    answers,   \* answers[d]: what the sender of d was told
    filtered,  \* records a rule dropped. The code only counts them
    queue,     \* the raw topic: envelopes
    dlq,       \* the dead-letter topic
    raw,       \* raw_events
    rows,      \* normalized_events: rows[id]
    rejected,  \* rejected_events
    policy,    \* what the tenant masks
    rules,     \* the tenant's filters
    drift,     \* the processor's window of the feed
    warnings,  \* how often it warned of drift
    changes, faults

vars == <<now, answers, filtered, queue, dlq, raw, rows, rejected, policy, rules, drift,
          warnings, changes, faults>>

-----------------------------------------------------------------------------
(* Reading a delivery, or the bytes of one record: a payload is a shape    *)
(* and its items. Nothing is {}.                                           *)

Json(p) == CASE p.shape = "array" -> {"json"} [] p.shape = "lines" -> {"ndjson"} [] OTHER -> {}

CloudflareDetect(p) == Json(p)
DataDomeDetect(p) == IF p.gzip THEN {} ELSE Json(p)
NginxDetect(p) == IF p.gzip THEN {} ELSE Json(p)
F5Detect(p) ==
    CASE p.gzip -> {}
      [] ~p.gzip /\ p.shape \in {"cef", "syslog"} -> {p.shape}
      [] OTHER -> Json(p)

(* A record whose fields could not be read still has its bytes.            *)
DecodeRecord(item) ==
    [bytes |-> item, format |-> "ndjson", fields |-> item.kind = "json" /\ item.lines = 1]
DecodeCEFRecord(item) == [bytes |-> item, format |-> "cef", fields |-> item.kind = "cef"]
DecodeSyslogRecord(item) ==
    [bytes |-> item, format |-> "syslog", fields |-> item.kind \in {"pairs", "cef"}]

(* The items of an array are read whatever lines they take, but one that   *)
(* is no JSON spoils the array.                                            *)
ParseJSONArray(p) ==
    IF p.shape # "array" \/ \E i \in DOMAIN p.items : p.items[i].kind # "json" THEN {}
    ELSE {[i \in DOMAIN p.items |-> [DecodeRecord(p.items[i]) EXCEPT !.fields = TRUE]]}

AsJSON(p) == [i \in DOMAIN p.items |-> DecodeRecord(p.items[i])]
AsCEF(p) == [i \in DOMAIN p.items |-> DecodeCEFRecord(p.items[i])]
AsSyslog(p) == [i \in DOMAIN p.items |-> DecodeSyslogRecord(p.items[i])]

(* The lines of an item are taken for records each, and a line that is too *)
(* long ends the reading of all.                                           *)
ParseLines(p, decoded, maxLineBytes) ==
    IF p.items = <<>> \/ \E i \in DOMAIN p.items : p.items[i].size > maxLineBytes THEN {}
    ELSE {FlattenSeq([i \in DOMAIN p.items |-> [l \in 1..p.items[i].lines |-> decoded[i]]])}

CloudflareParse(p, format) ==
    IF format = "json" THEN ParseJSONArray(p) ELSE ParseLines(p, AsJSON(p), 4)
DataDomeParse(p, format) ==
    IF format = "json" THEN ParseJSONArray(p) ELSE ParseLines(p, AsJSON(p), 4)
NginxParse(p, format) ==
    IF format = "json" THEN ParseJSONArray(p) ELSE ParseLines(p, AsJSON(p), 1)
F5Parse(p, format) ==
    CASE format = "json" -> ParseJSONArray(p)
      [] format = "ndjson" -> ParseLines(p, AsJSON(p), 4)
      [] format = "cef" -> ParseLines(p, AsCEF(p), 4)
      [] format = "syslog" -> ParseLines(p, AsSyslog(p), 4)

Detect(vendor, p) ==
    CASE vendor = "cloudflare" -> CloudflareDetect(p) [] vendor = "datadome" -> DataDomeDetect(p)
      [] vendor = "nginx" -> NginxDetect(p) [] vendor = "f5" -> F5Detect(p)
Parse(vendor, p, format) ==
    CASE vendor = "cloudflare" -> CloudflareParse(p, format)
      [] vendor = "datadome" -> DataDomeParse(p, format)
      [] vendor = "nginx" -> NginxParse(p, format) [] vendor = "f5" -> F5Parse(p, format)

(* A stamp without a year is of the year it is read in.                    *)
ParseTime(item) ==
    CASE item.stamp = "full" -> {item.at}
      [] item.stamp = "noyear" -> {(item.at % Year) + now - (now % Year)}
      [] OTHER -> {}

(* The event of a record, or why there is none. The vendor's own spelling  *)
(* of a value stays among the extra fields.                                *)
Normalize(record) ==
    LET item == record.bytes
    IN  IF ~record.fields \/ item.stamp = "absent" THEN [error |-> "parse_error"]
        ELSE IF item.stamp = "implausible" THEN [error |-> "timestamp_out_of_range"]
        ELSE [error |-> "", time |-> CHOOSE t \in ParseTime(item) : TRUE, host |-> item.host,
              path |-> "p", extra |-> {<<"uri", IF item.spelled THEN "p" ELSE "P">>, <<"ja3", "j">>},
              unknown |-> item.unknown]

-----------------------------------------------------------------------------
(* Filters. A host is the sequence of its labels.                          *)

Matches(rule, host) ==
    CASE rule.op = "equals" -> host = rule.value
      [] rule.op = "prefix" -> IsPrefix(rule.value, host)
      [] rule.op = "suffix" -> IsSuffix(rule.value, host)

(* A rule of nothing would match everything, and is refused.               *)
Compile(rs) == \A r \in rs : r.value # <<>>

(* What has no host is about no host.                                      *)
Drops(event) == event.host # <<>> /\ \E r \in rules : Matches(r, event.host)

-----------------------------------------------------------------------------
Init ==
    /\ now = 0
    /\ answers = <<>> /\ filtered = {}
    /\ queue = <<>> /\ dlq = {}
    /\ raw = {} /\ rows = <<>> /\ rejected = {}
    /\ policy \in Policies /\ rules = {}
    /\ drift = [start |-> 0, total |-> 0, unknown |-> 0, warned |-> FALSE]
    /\ warnings = 0
    /\ changes = 0 /\ faults = 0

Detected(d) == CHOOSE f \in Detect(Pool[d].vendor, Pool[d]) : TRUE

(* A mutant: the format is the delivery's.                                 *)
EnvelopeOfDelivery(d, i, record) ==
    [id |-> <<d, i>>, vendor |-> Pool[d].vendor, format |-> Detected(d), bytes |-> record.bytes,
     received |-> now]

(* The format is the record's.                                             *)
Envelope(d, i, record) ==
    [id |-> <<d, i>>, vendor |-> Pool[d].vendor, format |-> record.format, bytes |-> record.bytes,
     received |-> now]

Answer(status, made) ==
    [at |-> now, status |-> status, accepted |-> Len(made.accepted),
     rejected |-> Cardinality(made.rejections), filtered |-> Cardinality(made.filtered)]
Nothing == [accepted |-> <<>>, rejections |-> {}, filtered |-> {}]

(* What is made of the records of a delivery.                              *)
BuildEnvelopes(d, records) ==
    LET outcome == [i \in DOMAIN records |-> Normalize(records[i])]
        bad == {i \in DOMAIN records : outcome[i].error # ""}
        dropped == {i \in DOMAIN records \ bad : Drops(outcome[i])}
        kept == SelectSeq([i \in DOMAIN records |-> i], LAMBDA i : i \notin bad \cup dropped)
    IN  [accepted |-> [k \in DOMAIN kept |-> Envelope(d, kept[k], records[kept[k]])],
         rejections |-> {[envelope |-> Envelope(d, i, records[i]), code |-> outcome[i].error] : i \in bad},
         filtered |-> {<<d, i>> : i \in dropped}]

(* A delivery that cannot be read at all, or is too much, is refused and   *)
(* nothing of it stays.                                                    *)
Accept(d) ==
    LET parsed == UNION {Parse(Pool[d].vendor, Pool[d], f) : f \in Detect(Pool[d].vendor, Pool[d])}
    IN  /\ d \notin DOMAIN answers /\ Cardinality(DOMAIN answers) < MaxDeliveries
        /\ \A i \in DOMAIN Pool[d].items : Pool[d].items[i].at <= now
        /\ \/ /\ \A records \in parsed : Len(records) > MaxBatchEvents
              /\ answers' = answers @@ (d :> Answer(400, Nothing))
              /\ UNCHANGED <<filtered, queue, dlq>>
           \/ \E records \in parsed :
                 LET made == BuildEnvelopes(d, records)
                 IN  /\ Len(records) <= MaxBatchEvents
                     /\ queue' = queue \o made.accepted
                     /\ dlq' = dlq \cup made.rejections
                     /\ filtered' = filtered \cup made.filtered
                     /\ answers' = answers @@ (d :> Answer(IF made.rejections = {} THEN 202 ELSE 207, made))
        /\ UNCHANGED <<now, raw, rows, rejected, policy, rules, drift, warnings, changes, faults>>

-----------------------------------------------------------------------------
(* The normalizer.                                                         *)

checkEventAge(time, received) == received <= time + MaxAge /\ time <= received + MaxFuture

Marker == "[REDACTED]"

(* What is masked in the event is masked among the extra fields by its     *)
(* value, whatever the vendor calls it.                                    *)
Redact(event, masked) ==
    LET leaked == IF "request_path" \in masked THEN {event.path} ELSE {}
    IN  [event EXCEPT !.path = IF "request_path" \in masked THEN Marker ELSE @,
                      !.extra = {<<x[1], IF "raw_extra" \in masked \/ x[1] \in masked \/ x[2] \in leaked
                                         THEN Marker ELSE x[2]>> : x \in @}]

(* An envelope is read as a delivery of its own.                           *)
NormalizeOne(e, policyRead) ==
    LET parsed == Parse(e.vendor, [shape |-> "lines", gzip |-> FALSE, items |-> <<e.bytes>>], e.format)
        event == Normalize((CHOOSE records \in parsed : TRUE)[1])
    IN  CASE parsed = {} -> [error |-> "parse_error"]
          [] parsed # {} /\ event.error # "" -> event
          [] parsed # {} /\ event.error = "" /\ ~checkEventAge(event.time, e.received) ->
                [error |-> "timestamp_out_of_range"]
          [] parsed # {} /\ event.error = "" /\ checkEventAge(event.time, e.received) ->
                IF policyRead THEN Redact(event, policy) ELSE [error |-> "parse_error"]

(* One event of a feed is observed: the window, and whether it warns.      *)
Observe(w, event) ==
    LET fresh == IF now > w.start + DriftWindow
                 THEN [start |-> now, total |-> 0, unknown |-> 0, warned |-> FALSE] ELSE w
        next == [fresh EXCEPT !.total = @ + 1, !.unknown = @ + IF event.unknown THEN 1 ELSE 0]
    IN  [next EXCEPT !.warned = @ \/ Share * next.unknown > next.total]

Crossed(before, after) == after.warned /\ ~(before.warned /\ before.start = after.start)

(* A batch is the head of the topic. It is read again when its offset      *)
(* could not be committed. The policy is read once, if it can be.          *)
HandleBatch ==
    \E n \in 1..MaxBatch, committed, policyRead \in BOOLEAN :
        LET batch == SubSeq(queue, 1, n)
            read == [k \in 1..n |-> NormalizeOne(batch[k], policyRead)]
            good == SelectSeq([k \in 1..n |-> k], LAMBDA k : read[k].error = "")
            windows == [k \in 0..Len(good) |->
                            FoldLeft(LAMBDA w, j : Observe(w, read[j]), drift, SubSeq(good, 1, k))]
        IN  /\ n <= Len(queue)
            /\ faults + (IF committed THEN 0 ELSE 1) + (IF policyRead THEN 0 ELSE 1) <= MaxFaults
            /\ faults' = faults + (IF committed THEN 0 ELSE 1) + IF policyRead THEN 0 ELSE 1
            /\ queue' = IF committed THEN SubSeq(queue, n + 1, Len(queue)) ELSE queue
            /\ raw' = raw \cup {batch[k].id : k \in 1..n}
            /\ rows' = [id \in {batch[k].id : k \in Range(good)} |->
                            [event |-> read[CHOOSE k \in Range(good) : batch[k].id = id], under |-> policy]] @@ rows
            /\ rejected' = rejected \cup {[id |-> batch[k].id, code |-> read[k].error, read |-> policyRead] :
                                            k \in (1..n) \ Range(good)}
            /\ drift' = windows[Len(good)]
            /\ warnings' = warnings + Cardinality({k \in 1..Len(good) : Crossed(windows[k - 1], windows[k])})
            /\ UNCHANGED <<now, answers, filtered, dlq, policy, rules, changes>>

(* The dead-letter worker takes a rejection down, again if need be.        *)
Park(x) ==
    /\ rejected' = rejected \cup {[id |-> x.envelope.id, code |-> x.code, read |-> TRUE]}
    /\ dlq' = dlq \ {x}
    /\ UNCHANGED <<now, answers, filtered, queue, raw, rows, policy, rules, drift, warnings, changes, faults>>

-----------------------------------------------------------------------------
ChangePolicy(p) ==
    /\ changes < MaxChanges /\ changes' = changes + 1
    /\ p # policy /\ policy' = p
    /\ UNCHANGED <<now, answers, filtered, queue, dlq, raw, rows, rejected, rules, drift, warnings, faults>>

ChangeRules(rs) ==
    /\ changes < MaxChanges /\ changes' = changes + 1
    /\ Compile(rs) /\ rs # rules /\ rules' = rs
    /\ UNCHANGED <<now, answers, filtered, queue, dlq, raw, rows, rejected, policy, drift, warnings, faults>>

(* The processor is started again.                                         *)
Restart ==
    /\ faults < MaxFaults /\ faults' = faults + 1
    /\ drift.total > 0
    /\ drift' = [start |-> now, total |-> 0, unknown |-> 0, warned |-> FALSE]
    /\ UNCHANGED <<now, answers, filtered, queue, dlq, raw, rows, rejected, policy, rules, warnings, changes>>

Tick ==
    /\ now < MaxTime /\ now' = now + 1
    /\ UNCHANGED <<answers, filtered, queue, dlq, raw, rows, rejected, policy, rules, drift, warnings,
                   changes, faults>>

Next ==
    \/ \E d \in DOMAIN Pool : Accept(d)
    \/ HandleBatch
    \/ \E x \in dlq : Park(x)
    \/ \E p \in Policies : ChangePolicy(p)
    \/ \E rs \in SUBSET Offered : ChangeRules(rs)
    \/ Restart \/ Tick

Spec == Init /\ [][Next]_vars

-----------------------------------------------------------------------------
RecordsOf(d) == CHOOSE records \in Parse(Pool[d].vendor, Pool[d], Detected(d)) : TRUE
RecordOf(id) == RecordsOf(id[1])[id[2]]
ReceivedAt(id) == answers[id[1]].at
Of(ids, d) == {id \in ids : id[1] = d}

Accepted == {queue[k].id : k \in DOMAIN queue} \cup raw
Refused == {x.envelope.id : x \in dlq} \cup ({x.id : x \in rejected} \ raw)

(* Each record of a delivery that was taken is in one of three places, and *)
(* the sender was told how many are in each; what reached the store has a  *)
(* row or a rejection ("nothing [is] dropped silently", FR-006). A filter  *)
(* drops what could be read and names its host, and nothing else.          *)
EveryRecordIsTold ==
    /\ \A d \in DOMAIN answers :
          LET told == answers[d]
          IN  /\ told.accepted = Cardinality(Of(Accepted, d))
              /\ told.rejected = Cardinality(Of(Refused, d))
              /\ told.filtered = Cardinality(Of(filtered, d))
              /\ told.status # 400 =>
                     told.accepted + told.rejected + told.filtered = Len(RecordsOf(d))
              /\ told.status = 202 <=> (told.status # 400 /\ told.rejected = 0)
    /\ raw \subseteq DOMAIN rows \cup {x.id : x \in rejected}
    /\ \A id \in filtered : RecordOf(id).fields /\ RecordOf(id).bytes.host # <<>>

(* What can be read again: alone on its line, which is not too long.       *)
Compact(id) ==
    LET item == RecordOf(id).bytes
    IN  item.lines = 1 /\ item.size <= IF Pool[id[1]].vendor = "nginx" THEN 1 ELSE 4

(* A stamp that is of the time the record is about, and is recent.         *)
Timely(id) ==
    LET item == RecordOf(id).bytes
    IN  /\ item.stamp \in {"full", "noyear"}
        /\ ReceivedAt(id) <= item.at + MaxAge
        /\ item.stamp = "noyear" => now < Year

(* A record the receiver took and that is alone on its line is read by the *)
(* normalizer too, whatever delivery it came in, unless it is too old or   *)
(* the tenant's policy could not be read; and a rejection says which: the  *)
(* time when it is about the time, the bytes when they could not be read.  *)
TakenIsRead ==
    \A x \in rejected :
        /\ x.id \in raw /\ x.read /\ Compact(x.id) => ~Timely(x.id)
        /\ x.read /\ Compact(x.id) =>
               (x.code = "timestamp_out_of_range" <=>
                    RecordOf(x.id).fields /\ RecordOf(x.id).bytes.stamp # "absent")

(* What was masked when a record was read is in its row nowhere, under     *)
(* whatever name the vendor has for it, as long as it is spelled alike.    *)
MaskedIsMasked ==
    \A id \in DOMAIN rows :
        LET event == rows[id].event
        IN  "request_path" \in rows[id].under =>
                /\ event.path = Marker
                /\ RecordOf(id).bytes.spelled => \A x \in event.extra : x[2] # "p"

(* A feed whose events all have unknown fields is warned of, and once in a *)
(* window ("a drifting feed would otherwise raise a warning on every       *)
(* batch", drift.go), however often batches come again.                    *)
DriftIsTold ==
    /\ DOMAIN rows # {} /\ (\A id \in DOMAIN rows : rows[id].event.unknown) => warnings > 0
    /\ warnings <= 1 + faults + (now \div (DriftWindow + 1))

(* All of them.                                                            *)
RecordsAreRead == EveryRecordIsTold /\ TakenIsRead /\ MaskedIsMasked /\ DriftIsTold
=============================================================================
