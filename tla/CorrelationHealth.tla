--------------------------- MODULE CorrelationHealth ---------------------------
(* How a stalled correlation is noticed: the consumer and the closer count *)
(* what they do in memory (correlate/batch.go, closer.go, health.go), the  *)
(* counters of each minute are written once a minute, and the console asks *)
(* for one word about the last minutes                                     *)
(* (data/clickhouse/correlation_health.go). One tenant. Closer models what *)
(* closing a window does; here a window is when it is due and when its     *)
(* members expire.                                                         *)
EXTENDS Naturals, FiniteSets, FiniteSetsExt

CONSTANTS
    Processors,  \* processes, each with a consumer, a closer and an aggregator
    TTL,         \* minutes the members of a window live
    Claim,       \* windows a tick claims at most: MaxPassesPerTick batches
    Assessed,    \* CorrelationAssessmentWindow, in minutes
    MaxTime,     \* bound: minutes
    MaxWindows,  \* bound: windows
    MaxTicks,    \* bound: ticks of a closer in a minute
    MaxFaults    \* bound: calls that fail, and processes that die

BehindWindowsFloor == Claim

VARIABLES
    now,
    windows,   \* the schedule: [id, due, expires]
    buckets,   \* buckets[p][m]: what p has counted and not written
    backlog,   \* backlog[p]: the schedule when p last looked
    flushed,   \* flushed[p]: the minute of its last flush
    ticks,     \* ticks[p]: ticks in this minute
    table,     \* correlation_health: table[m], what it sums and what it takes the most of
    happened,  \* happened[m]: what was done in a minute, and how many windows waited after a tick
    lost,      \* minutes of which something counted was not written
    faults

vars == <<now, windows, buckets, backlog, flushed, ticks, table, happened, lost, faults>>

Minutes == 0..MaxTime
Nothing == [filed |-> 0, closed |-> 0, emitted |-> 0, dropped |-> 0, failures |-> 0, due |-> 0, lag |-> 0]
Empty == [m \in Minutes |-> Nothing]
Counters == {"filed", "closed", "emitted", "dropped", "failures"}

Bigger(a, b) == IF a > b THEN a ELSE b

(* Counters are summed and levels taken at their highest, in memory as in  *)
(* the table.                                                              *)
Plus(row, sample) ==
    [k \in DOMAIN row |-> IF k \in Counters THEN row[k] + sample[k] ELSE Bigger(row[k], sample[k])]

Init ==
    /\ now = 0
    /\ windows = {}
    /\ buckets = [p \in Processors |-> Empty]
    /\ backlog = [p \in Processors |-> [due |-> 0, lag |-> 0]]
    /\ flushed = [p \in Processors |-> 0]
    /\ ticks = [p \in Processors |-> 0]
    /\ table = Empty
    /\ happened = Empty
    /\ lost = {}
    /\ faults = 0

-----------------------------------------------------------------------------
Record(p, sample) == buckets' = [buckets EXCEPT ![p][now] = Plus(@, sample)]

(* A batch with an event of a request is filed, and the window of the      *)
(* request is due when the event's time has it due: at once, if the feed   *)
(* is late.                                                                *)
HandleBatch(p, due) ==
    LET sample == [Nothing EXCEPT !.filed = 1]
        ids == Max({0} \cup {w.id : w \in windows}) + 1
    IN  /\ MapThenSumSet(LAMBDA m : happened[m].filed, Minutes) < MaxWindows
        /\ windows' = windows \cup {[id |-> ids, due |-> due, expires |-> now + TTL]}
        /\ Record(p, sample)
        /\ happened' = [happened EXCEPT ![now] = Plus(@, sample)]
        /\ UNCHANGED <<now, backlog, flushed, ticks, table, lost, faults>>

Due(W) == {w \in W : w.due <= now}

(* What a tick claims: what has been due for longest.                      *)
Claims ==
    {C \in SUBSET Due(windows) :
        /\ Cardinality(C) = IF Cardinality(Due(windows)) < Claim THEN Cardinality(Due(windows)) ELSE Claim
        /\ \A w \in C, v \in Due(windows) \ C : w.due <= v.due}

(* The schedule, asked once a minute. A failed read keeps the last answer. *)
SampleBacklog(p, W) ==
    LET lags == {now - w.due : w \in Due(W)}
    IN  IF ticks[p] > 0 THEN backlog[p]
        ELSE [due |-> Cardinality(Due(W)), lag |-> IF lags = {} THEN 0 ELSE Max(lags)]

(* What a tick did: windows whose members had expired are counted apart,   *)
(* and what was not inserted was not emitted.                              *)
Tally(C, failed, insertFails) ==
    LET closed == {w \in C \ failed : w.expires > now}
    IN  [Nothing EXCEPT !.closed = Cardinality(closed),
                        !.emitted = IF insertFails THEN 0 ELSE Cardinality(closed),
                        !.dropped = Cardinality((C \ failed) \ closed),
                        !.failures = Cardinality(failed) + IF insertFails THEN 1 ELSE 0]

(* A tick of a closer. One that claims nothing has nothing to report.      *)
CloserTick(p) ==
    /\ ticks[p] < MaxTicks
    /\ ticks' = [ticks EXCEPT ![p] = @ + 1]
    /\ \E C \in Claims, failed \in SUBSET windows, insertFails \in BOOLEAN :
          LET rest == windows \ C
              level == SampleBacklog(p, rest)
              done == Tally(C, failed, insertFails)
              inserted == [Nothing EXCEPT !.closed = done.closed, !.dropped = done.dropped,
                                          !.emitted = IF insertFails THEN 0 ELSE done.closed,
                                          !.due = Cardinality(Due(rest))]
          IN  /\ failed \subseteq C
              /\ insertFails => C \ failed # {}
              /\ faults + Cardinality(failed) + (IF insertFails THEN 1 ELSE 0) <= MaxFaults
              /\ faults' = faults + Cardinality(failed) + IF insertFails THEN 1 ELSE 0
              /\ windows' = rest
              /\ backlog' = [backlog EXCEPT ![p] = level]
              /\ IF C = {} THEN UNCHANGED buckets
                 ELSE Record(p, [done EXCEPT !.due = level.due, !.lag = level.lag])
              /\ happened' = [happened EXCEPT ![now] = Plus(@, inserted)]
    /\ UNCHANGED <<now, flushed, table, lost>>

(* The claim fails, or the members of what was claimed cannot be read:     *)
(* nobody is told, and those windows are off the schedule.                 *)
TickFails(p) ==
    /\ ticks[p] < MaxTicks /\ faults < MaxFaults
    /\ faults' = faults + 1
    /\ ticks' = [ticks EXCEPT ![p] = @ + 1]
    /\ \E C \in Claims \cup {{}} : windows' = windows \ C
    /\ UNCHANGED <<now, buckets, backlog, flushed, table, happened, lost>>

Counted(p) == {m \in Minutes : buckets[p][m] # Nothing}
Sum(rows) == [m \in Minutes |-> Plus(table[m], rows[m])]

(* Run's ticker. What a failed insert was given is gone.                   *)
Flush(p) ==
    /\ flushed[p] < now
    /\ flushed' = [flushed EXCEPT ![p] = now]
    /\ buckets' = [buckets EXCEPT ![p] = Empty]
    /\ \/ table' = Sum(buckets[p]) /\ UNCHANGED <<lost, faults>>
       \/ /\ faults < MaxFaults /\ Counted(p) # {}
          /\ faults' = faults + 1 /\ lost' = lost \cup Counted(p) /\ UNCHANGED table
    /\ UNCHANGED <<now, windows, backlog, ticks, happened>>

(* A process is stopped and started again: it flushes once more.           *)
Restart(p) ==
    /\ buckets[p] # Empty /\ faults < MaxFaults
    /\ faults' = faults + 1
    /\ table' = Sum(buckets[p])
    /\ buckets' = [buckets EXCEPT ![p] = Empty]
    /\ backlog' = [backlog EXCEPT ![p] = [due |-> 0, lag |-> 0]]
    /\ ticks' = [ticks EXCEPT ![p] = 0]
    /\ UNCHANGED <<now, windows, flushed, happened, lost>>

Minute ==
    /\ now < MaxTime
    /\ \A p \in Processors : flushed[p] = now
    /\ now' = now + 1
    /\ ticks' = [p \in Processors |-> 0]
    /\ UNCHANGED <<windows, buckets, backlog, flushed, table, happened, lost, faults>>

Next ==
    \/ \E p \in Processors :
          \/ \E due \in {now + 1} \cup {0} : HandleBatch(p, due)
          \/ CloserTick(p) \/ TickFails(p) \/ Flush(p) \/ Restart(p)
    \/ Minute

Spec == Init /\ [][Next]_vars

-----------------------------------------------------------------------------
(* What is asked.                                                          *)

Recent == {m \in Minutes : m <= now /\ m + Assessed > now}
Total(rows, k) == MapThenSumSet(LAMBDA m : rows[m][k], Recent)
Highest(rows, k) == Max({rows[m][k] : m \in Recent})

(* DroppedShareThreshold is one in twenty.                                 *)
Losing(rows) == 20 * Total(rows, "dropped") > Total(rows, "closed") + Total(rows, "dropped")

(* BehindShareOfTTL is a half.                                             *)
Behind(rows) == Highest(rows, "due") >= BehindWindowsFloor /\ 2 * Highest(rows, "lag") > TTL

(* The worst first, but that nothing filed is idle whatever else there is. *)
Status ==
    LET some(k) == Total(table, k) > 0
        failing == some("failures") /\ ~some("emitted")
    IN  CASE failing -> "failing"
          [] ~failing /\ ~some("filed") -> "idle"
          [] ~failing /\ some("filed") /\ ~some("emitted") -> "stalled"
          [] some("filed") /\ some("emitted") /\ Losing(table) -> "losing"
          [] some("filed") /\ some("emitted") /\ ~Losing(table) /\ Behind(table) -> "behind"
          [] OTHER -> "healthy"

-----------------------------------------------------------------------------
(* All of what was counted in the minutes that are asked about is written. *)
Written == lost \cap Recent = {} /\ \A p \in Processors : Counted(p) \cap Recent = {}

(* Events going in and no records coming out is told whatever its cause: a *)
(* closer that fails, is dead, or loses what it claims. No other word is   *)
(* said of it, and no alarm without a cause: nothing is said to be behind  *)
(* but a closer that left as many windows waiting as it could have         *)
(* claimed, or losing while its windows close with something in them       *)
(* ("events go in, correlated records do not come out", 0023).             *)
StallIsTold ==
    /\ Total(happened, "emitted") = 0 => Status \in {"failing", "stalled", "idle"}
    /\ Total(happened, "emitted") = 0 /\ Total(table, "filed") > 0 => Status # "idle"
    /\ Written /\ Total(happened, "filed") > 0 => Status # "idle"
    /\ Written /\ Total(happened, "emitted") > 0 => Status \notin {"failing", "stalled"}
    /\ Written /\ Total(happened, "filed") > 0 /\ Total(happened, "emitted") > 0 =>
           ((Status = "losing") <=> Losing(happened))
    /\ Status = "behind" => \E m \in Minutes : happened[m].due >= Claim
=============================================================================
