----------------------------- MODULE FeedHealth -----------------------------
(***************************************************************************)
(* How the console knows that a feed is alive.  Processes count deliveries *)
(* per minute in memory (ingest.HealthAggregator), flush the counters to   *)
(* feed_health once a minute, and the console sums the last hour of that   *)
(* table (clickhouse/health.go).                                           *)
(*                                                                         *)
(* One feed.  Of a row the events received and the state of the credential *)
(* are kept: the other counters are summed like the first.  Time is in     *)
(* minutes, minute 0 is before everything.                                 *)
(***************************************************************************)
EXTENDS Naturals, FiniteSets, FiniteSetsExt

CONSTANTS Ingesters,      \* siem-ingest: nothing restarts their flush loop
          Processors,     \* siem-processor: superviseWorker does
          Silence,        \* silenceThreshold
          Recent,         \* credentialWindow
          Hour,           \* how far back the console reads
          MaxTime,        \* bound: minutes
          MaxSamples,     \* bound: samples recorded
          MaxFaults       \* bound: failed flushes and stops

Processes == Ingesters \cup Processors

VARIABLES now,
          buckets,     \* buckets[p]: rows being counted, one per minute
          taken,       \* taken[p]: rows of the flush under way
          flushing,    \* flushing[p]: "loop", "insert" or "stopped"
          table,       \* table[m]: the merged row of minute m, or NoRow
          received,    \* received[m]: events the feed delivered in minute m
          refused,     \* the last minute a delivery failed authentication
          samples, faults

process == <<buckets, taken, flushing>>
feed == <<received, refused, samples>>
vars == <<now, process, table, feed, faults>>

-----------------------------------------------------------------------------
Minutes == 1..MaxTime
NoRow == [events |-> 0, valid |-> TRUE, there |-> FALSE]
Row == [events : 0..MaxSamples, valid : BOOLEAN, there : BOOLEAN]

TypeOK ==
    /\ now \in Minutes
    /\ buckets \in [Processes -> [Minutes -> Row]]
    /\ taken \in [Processes -> [Minutes -> Row]]
    /\ flushing \in [Processes -> {"loop", "insert", "stopped"}]
    /\ table \in [Minutes -> Row]
    /\ received \in [Minutes -> 0..MaxSamples]
    /\ refused \in 0..MaxTime
    /\ samples \in 0..MaxSamples
    /\ faults \in 0..MaxFaults

Nothing == [m \in Minutes |-> NoRow]

Init ==
    /\ now = 1
    /\ buckets = [p \in Processes |-> Nothing]
    /\ taken = [p \in Processes |-> Nothing]
    /\ flushing = [p \in Processes |-> "loop"]
    /\ table = Nothing
    /\ received = [m \in Minutes |-> 0]
    /\ refused = 0
    /\ samples = 0
    /\ faults = 0

-----------------------------------------------------------------------------
(* SummingMergeTree: rows of one minute add up, the credential is the      *)
(* worst of them.                                                          *)
Merged(a, b) == [events |-> a.events + b.events, valid |-> a.valid /\ b.valid, there |-> a.there \/ b.there]
MergedRows(S, T) == [m \in Minutes |-> Merged(S[m], T[m])]

(* A delivery is counted: accepted, empty, refused or not authenticated.   *)
Record(p) ==
    /\ samples < MaxSamples /\ samples' = samples + 1
    /\ \E sample \in [events : 0..1, valid : BOOLEAN, there : {TRUE}] :
          /\ sample.events > 0 => sample.valid
          /\ buckets' = [buckets EXCEPT ![p][now] = Merged(@, sample)]
          /\ received' = [received EXCEPT ![now] = @ + sample.events]
          /\ refused' = IF sample.valid THEN refused ELSE now
    /\ UNCHANGED <<now, taken, flushing, table, faults>>

(* Flush takes the rows and clears them under the mutex, then inserts.     *)
Take(p) ==
    /\ flushing[p] = "loop" /\ buckets[p] # Nothing
    /\ taken' = [taken EXCEPT ![p] = buckets[p]]
    /\ buckets' = [buckets EXCEPT ![p] = Nothing]
    /\ flushing' = [flushing EXCEPT ![p] = "insert"]
    /\ UNCHANGED <<now, table, feed, faults>>

Return(p, state) ==
    /\ flushing[p] = "insert"
    /\ taken' = [taken EXCEPT ![p] = Nothing]
    /\ flushing' = [flushing EXCEPT ![p] = state]
    /\ UNCHANGED <<now, feed>>

Insert(p) ==
    /\ table' = MergedRows(table, taken[p])
    /\ Return(p, "loop")
    /\ UNCHANGED <<buckets, faults>>

Fault == faults < MaxFaults /\ faults' = faults + 1

(* A mistake to detect: rows that could not be stored are kept.            *)
InsertFailsKeeping(p) ==
    /\ Fault
    /\ table' \in {table, MergedRows(table, taken[p])}
    /\ buckets' = [buckets EXCEPT ![p] = MergedRows(@, taken[p])]
    /\ Return(p, "loop")

(* The insert fails, or times out with its rows stored; Run returns the    *)
(* error.                                                                  *)
InsertFails(p) ==
    /\ Fault
    /\ table' \in {table, MergedRows(table, taken[p])}
    /\ Return(p, "stopped")
    /\ UNCHANGED buckets

(* superviseWorker runs the loop again, with the same aggregator.          *)
Restart(p) ==
    /\ p \in Processors
    /\ flushing[p] = "stopped"
    /\ flushing' = [flushing EXCEPT ![p] = "loop"]
    /\ UNCHANGED <<now, buckets, taken, table, feed, faults>>

(* A process is stopped and started: Run flushes once more if it still     *)
(* runs and is given the time.                                             *)
Stop(p) ==
    /\ Fault
    /\ \/ flushing[p] = "loop" /\ table' = MergedRows(table, buckets[p])
       \/ UNCHANGED table
    /\ buckets' = [buckets EXCEPT ![p] = Nothing]
    /\ taken' = [taken EXCEPT ![p] = Nothing]
    /\ flushing' = [flushing EXCEPT ![p] = "loop"]
    /\ UNCHANGED <<now, feed>>

(* A minute passes: loops that run have flushed what is older, and an      *)
(* insert does not take longer.                                            *)
Tick ==
    /\ now < MaxTime
    /\ \A p \in Processes :
          /\ flushing[p] # "insert"
          /\ p \in Processors => flushing[p] = "loop"
          /\ flushing[p] = "loop" => \A m \in 1..now - 1 : buckets[p][m] = NoRow
    /\ now' = now + 1
    /\ UNCHANGED <<process, table, feed, faults>>

Next ==
    \/ Tick
    \/ \E p \in Processes :
          Record(p) \/ Take(p) \/ Insert(p) \/ InsertFails(p) \/ Restart(p) \/ Stop(p)

Spec == Init /\ [][Next]_vars

(* The flush loop runs on a ticker.                                        *)
Flush(p) == Take(p) \/ Insert(p) \/ Restart(p)
FairSpec == Spec /\ WF_vars(Tick) /\ \A p \in Processes : WF_vars(Flush(p))

-----------------------------------------------------------------------------
(* What the console reads.                                                 *)

(* maxIf(minute, events_received > 0) over the rows of the last hour: the  *)
(* epoch where there is none.                                              *)
LastHour == {m \in Minutes : m <= now /\ m + Hour >= now /\ table[m].there}
LastEvent == Max({m \in LastHour : table[m].events > 0} \cup {0})

IsSilent(last) == now - last > Silence

(* ListFeedHealth groups by feed: a feed without rows has no entry, and    *)
(* the tile of a feed without an entry is the zero value.                  *)
SilentInList == LastHour # {} /\ IsSilent(LastEvent)

(* The credential as both queries read it.                                 *)
RecentRows == {m \in LastHour : m + Recent >= now}
CredentialValid == \A m \in RecentRows : table[m].valid

-----------------------------------------------------------------------------
(* No event is counted twice, whatever fails or is stopped while rows are  *)
(* on their way, and none is missed unless something did: the rows taken   *)
(* from the counters reach the table once or not at all.                   *)
CountedOnce ==
    \A m \in Minutes :
       LET pending == MapThenSumSet(LAMBDA p : buckets[p][m].events + taken[p][m].events, Processes)
       IN  /\ table[m].events + pending <= received[m]
           /\ faults = 0 => table[m].events + pending = received[m]

(* A credential shown as broken was refused lately, also when a failed     *)
(* delivery and a good one share a minute or two processes: "short enough  *)
(* that a fixed credential shows as fixed while the operator is still      *)
(* looking at the screen" (clickhouse/health.go:88).                       *)
BrokenWasRefused == ~CredentialValid => refused + Recent >= now

(* "Silence has to be asserted rather than inferred from an empty chart"   *)
(* (ingest/health.go:169-170): a feed that has delivered and has been      *)
(* quiet for longer than the threshold, a minute of flushing included, is  *)
(* silent in the list of feeds.                                            *)
QuietIsShown ==
    \A m \in Minutes :
       /\ received[m] > 0
       /\ \A n \in Minutes : n > m => received[n] = 0
       /\ now > m + Silence + 1
       => SilentInList

(* "A failed write is reported and the service keeps ingesting"            *)
(* (cmd/siem-ingest/main.go:163-164), and health goes on being written: in *)
(* the end no process sits on counters of minutes gone by.                 *)
CountersReachTable ==
    <>[](\A p \in Processes : \A m \in 1..now - 1 : buckets[p][m] = NoRow)
=============================================================================
