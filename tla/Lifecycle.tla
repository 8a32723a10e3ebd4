------------------------------- MODULE Lifecycle -------------------------------
(* How the two unattended services start, keep and stop what runs in them. *)
(* siem-processor runs workers, each restarted when it fails, later and    *)
(* later; siem-ingest answers deliveries and writes its health counters.   *)
(* A signal begins a shutdown: the work is stopped and waited for, then    *)
(* the clients are closed, those registered last first.                    *)
EXTENDS Naturals, Sequences

CONSTANTS
    Workers,      \* the workers of siem-processor
    Requests,     \* deliveries sent to siem-ingest
    MinBackoff,   \* workerRetryMin
    MaxBackoff,   \* workerRetryMax
    MaxFailures,  \* bound on the failures of each worker, 0 for none
    MaxSamples    \* bound on the samples of deliveries not yet written

VARIABLES
    phase,    \* phase[s]: "running", "draining", "closing" or "exited"
    late,     \* services whose thirty seconds of grace are over
    open,     \* open[s]: the clients of service s still open, in the order registered
    worker,   \* worker[w]: "running", "backoff" or "returned"
    backoff,  \* backoff[w]: what it waits for after its next failure
    failures, \* failures[w]: how often it has failed
    request,  \* request[q]: "sent", "handled", "answered" or "lost"
    samples   \* samples siem-ingest has counted and not written

vars == <<phase, late, open, worker, backoff, failures, request, samples>>

Services == {"processor", "ingest"}

Registered == [processor |-> <<"clickhouse", "redis", "producer">>,
               ingest |-> <<"producer", "redis", "clickhouse">>]

Init ==
    /\ phase = [s \in Services |-> "running"]
    /\ late = {}
    /\ open = Registered
    /\ worker = [w \in Workers |-> "running"]
    /\ backoff = [w \in Workers |-> MinBackoff]
    /\ failures = [w \in Workers |-> 0]
    /\ request = [q \in Requests |-> "sent"]
    /\ samples = 0

-----------------------------------------------------------------------------
(* siem-processor: startWorkers and superviseWorker.                       *)

Cancelled == phase["processor"] # "running"

(* A mutant: a worker that fails is not started again.                     *)
FailsForGood(w) ==
    /\ worker[w] = "running" /\ ~Cancelled /\ failures[w] < MaxFailures
    /\ worker' = [worker EXCEPT ![w] = "returned"]
    /\ failures' = [failures EXCEPT ![w] = @ + 1]
    /\ UNCHANGED <<phase, late, open, backoff, request, samples>>

(* A worker returns an error and is put off, twice as long as last time.   *)
Fails(w) ==
    /\ worker[w] = "running" /\ ~Cancelled /\ failures[w] < MaxFailures
    /\ worker' = [worker EXCEPT ![w] = "backoff"]
    /\ failures' = [failures EXCEPT ![w] = @ + 1]
    /\ backoff' = [backoff EXCEPT ![w] = IF 2 * @ < MaxBackoff THEN 2 * @ ELSE MaxBackoff]
    /\ UNCHANGED <<phase, late, open, request, samples>>

Restarts(w) ==
    /\ worker[w] = "backoff"
    /\ worker' = [worker EXCEPT ![w] = IF Cancelled THEN "returned" ELSE "running"]
    /\ UNCHANGED <<phase, late, open, backoff, failures, request, samples>>

(* A worker sees that its context is cancelled, between two calls or in    *)
(* one, and returns. The failure it may return with is not one.            *)
Returns(w) ==
    /\ worker[w] = "running" /\ Cancelled
    /\ worker' = [worker EXCEPT ![w] = "returned"]
    /\ UNCHANGED <<phase, late, open, backoff, failures, request, samples>>

-----------------------------------------------------------------------------
(* siem-ingest: the HTTP server and the health aggregator.                 *)

(* A listener that is closed takes no more deliveries: the sender keeps it.*)
Takes(q) ==
    /\ phase["ingest"] = "running"
    /\ request[q] = "sent"
    /\ request' = [request EXCEPT ![q] = "handled"]
    /\ UNCHANGED <<phase, late, open, worker, backoff, failures, samples>>

(* The answer counts the delivery, in memory. Without a broker it is a 503.*)
Answers(q) ==
    /\ request[q] = "handled" /\ phase["ingest"] # "exited"
    /\ request' = [request EXCEPT ![q] = "answered"]
    /\ samples < MaxSamples
    /\ samples' = samples + 1
    /\ UNCHANGED <<phase, late, open, worker, backoff, failures>>

(* The aggregator's minute. Its context is never cancelled.                *)
Flushes ==
    /\ phase["ingest"] # "exited" /\ samples > 0
    /\ \E i \in DOMAIN open["ingest"] : open["ingest"][i] = "clickhouse"
    /\ samples' = 0
    /\ UNCHANGED <<phase, late, open, worker, backoff, failures, request>>

-----------------------------------------------------------------------------
(* RunUntilSignal.                                                         *)

Signal(s) ==
    /\ phase[s] = "running"
    /\ phase' = [phase EXCEPT ![s] = "draining"]
    /\ UNCHANGED <<late, open, worker, backoff, failures, request, samples>>

GraceEnds(s) ==
    /\ phase[s] \in {"draining", "closing"} /\ s \notin late
    /\ late' = late \cup {s}
    /\ UNCHANGED <<phase, open, worker, backoff, failures, request, samples>>

(* A mutant: nobody is waited for.                                         *)
DrainedAtOnce(s) == TRUE

(* The workers are waited for as long as they take, the deliveries that    *)
(* are being handled for the grace period.                                 *)
Drained(s) ==
    \/ s = "processor" /\ \A w \in Workers : worker[w] = "returned"
    \/ s = "ingest" /\ (s \in late \/ \A q \in Requests : request[q] # "handled")

Drains(s) ==
    /\ phase[s] = "draining" /\ Drained(s)
    /\ phase' = [phase EXCEPT ![s] = "closing"]
    /\ UNCHANGED <<late, open, worker, backoff, failures, request, samples>>

(* Deps.Close, one client after the other.                                 *)
Closes(s) ==
    /\ phase[s] = "closing" /\ open[s] # <<>>
    /\ open' = [open EXCEPT ![s] = SubSeq(@, 1, Len(@) - 1)]
    /\ UNCHANGED <<phase, late, worker, backoff, failures, request, samples>>

(* What is still being handled when the process ends gets no answer.       *)
Exits(s) ==
    /\ phase[s] = "closing" /\ open[s] = <<>>
    /\ phase' = [phase EXCEPT ![s] = "exited"]
    /\ request' = [q \in Requests |-> IF s = "ingest" /\ request[q] = "handled" THEN "lost"
                                      ELSE request[q]]
    /\ UNCHANGED <<late, open, worker, backoff, failures, samples>>

Proceeds(w) == Restarts(w) \/ Returns(w)
ShutsDown(s) == Drains(s) \/ Closes(s) \/ Exits(s)

Next ==
    \/ \E w \in Workers : Fails(w) \/ Proceeds(w)
    \/ \E q \in Requests : Takes(q) \/ Answers(q)
    \/ Flushes
    \/ \E s \in Services : Signal(s) \/ GraceEnds(s) \/ ShutsDown(s)

(* A backoff ends, workers heed their context, and a shutdown proceeds.    *)
Fairness ==
    /\ \A w \in Workers : WF_vars(Proceeds(w))
    /\ \A s \in Services : WF_vars(GraceEnds(s)) /\ WF_vars(ShutsDown(s))

Spec == Init /\ [][Next]_vars /\ Fairness

-----------------------------------------------------------------------------
(* Nothing works with a client that has been closed under it: the workers  *)
(* of the processor have all returned by then, and within the grace period *)
(* every delivery taken has been answered, so that a 202 is sent for what  *)
(* was written and nothing written goes without one.                       *)
ClosedAfterUse ==
    /\ Len(open["processor"]) < 3 => \A w \in Workers : worker[w] = "returned"
    /\ Len(open["ingest"]) < 3 /\ "ingest" \notin late =>
           \A q \in Requests : request[q] # "handled"

(* No stage of the pipeline stays down while its process runs: however     *)
(* often a worker fails it runs again, and a signal ends the process even  *)
(* while workers are waiting to run again.                                 *)
NoStageStaysDown ==
    /\ \A w \in Workers : []<>(worker[w] = "running" \/ Cancelled)
    /\ <>[](\A s \in Services : phase[s] \in {"running", "exited"})

(* What the aggregator promises, and siem-ingest does not keep: health.go  *)
(* flushes once more when its context is cancelled, which siem-ingest      *)
(* never does.                                                             *)
LastMinuteIsWritten == phase["ingest"] = "exited" => samples = 0
=============================================================================
