------------------------------- MODULE Puller -------------------------------
(***************************************************************************)
(* The pull worker (ingest/puller): every siem-ingest process polls the    *)
(* vendors that cannot push.  A poll fetches what lies after the feed's    *)
(* watermark and commits it batch by batch; the watermark in the feed's    *)
(* row moves past a batch once the batch is durable.                       *)
(*                                                                         *)
(* One feed.  A position is an object, a page or a window of the vendor's  *)
(* log, in the vendor's order; a batch is all the records at a position,   *)
(* of which the tenant's rules filter some and no adapter can normalize    *)
(* others.                                                                 *)
(***************************************************************************)
EXTENDS Naturals, Sequences, FiniteSets, FiniteSetsExt

CONSTANTS Processes,    \* processes that run the worker
          Feeds,        \* what the feed may be: [kind, length, records, garbage]
          MaxBatches,   \* Config.MaxBatches
          Lookback,     \* positions in the hour a new feed starts back
          MaxFaults     \* bound: failed calls and crashes

Kinds == {"objects", "pages", "windows"}
RecordKinds == {"fit", "filtered", "rejected"}

ASSUME PullerAssumption ==
    /\ MaxBatches \in Nat \ {0} /\ Lookback \in Nat /\ MaxFaults \in Nat
    /\ \A f \in Feeds : /\ f.kind \in Kinds
                        /\ f.length \in Nat
                        /\ f.records \in [1..f.length -> Seq(RecordKinds)]
                        /\ f.garbage \subseteq 1..f.length
                        /\ \A n \in f.garbage : f.records[n] = <<>>

VARIABLES
    feed,        \* the feed, and what its vendor will log
    top,         \* the last position the vendor offers
    watermark,   \* the feed's row; 0 for none
    begun,       \* where the last fetch without a watermark began
    durable,     \* the records of a position that are in the stream
    marked,      \* the records of a position that have dedup markers
    at,          \* where a process is in its poll
    from,        \* how far it knows the log to be committed
    hand,        \* positions it has fetched and not yet committed
    tail,        \* the fetched page that carries no cursor
    accepted,    \* the records it is about to publish, or has published
    faults

local == <<at, from, hand, tail, accepted>>
vars == <<feed, top, watermark, begun, durable, marked, local, faults>>

-----------------------------------------------------------------------------
Places == {"idle", "listed", "batch", "publish", "mark", "advance"}

(* What the vendor has at a position.                                      *)
Records(n) == feed.records[n]
IsGarbage(n) == n \in feed.garbage
IsEmpty(n) == Records(n) = <<>> /\ ~IsGarbage(n)

TypeOK ==
    /\ feed \in Feeds
    /\ top \in 0..feed.length /\ watermark \in 0..top /\ begun \in 0..top
    /\ durable \in [1..feed.length -> SUBSET Nat] /\ marked \in [1..feed.length -> SUBSET Nat]
    /\ at \in [Processes -> Places]
    /\ from \in [Processes -> 0..top]
    /\ hand \in [Processes -> SUBSET (1..top)]
    /\ tail \in [Processes -> 0..top]
    /\ accepted \in [Processes -> SUBSET Nat]
    /\ faults \in 0..MaxFaults
    /\ \A p \in Processes : at[p] \in {"batch", "publish", "mark", "advance"} => hand[p] # {}

Init ==
    /\ feed \in Feeds
    /\ top = 0 /\ watermark = 0 /\ begun = 0
    /\ durable = [n \in 1..feed.length |-> {}] /\ marked = durable
    /\ at = [p \in Processes |-> "idle"]
    /\ from = [p \in Processes |-> 0]
    /\ hand = [p \in Processes |-> {}]
    /\ tail = [p \in Processes |-> 0]
    /\ accepted = [p \in Processes |-> {}]
    /\ faults = 0

Fault == faults < MaxFaults /\ faults' = faults + 1

Go(p, where) == at' = [at EXCEPT ![p] = where]

(* The poll is over, and nothing of it is kept.                            *)
Return(p) ==
    /\ Go(p, "idle")
    /\ from' = [from EXCEPT ![p] = 0]
    /\ hand' = [hand EXCEPT ![p] = {}]
    /\ tail' = [tail EXCEPT ![p] = 0]
    /\ accepted' = [accepted EXCEPT ![p] = {}]

-----------------------------------------------------------------------------
(* What the vendor answers.                                                *)

Reach(f) == {n \in f + 1 .. top : n <= f + MaxBatches}

(* A listing names every object that has anything in it; an export without *)
(* lines makes no batch; a page without events ends the fetch.             *)
Offered(f) ==
    CASE feed.kind = "objects" -> {n \in f + 1 .. top : ~IsEmpty(n)}
      [] feed.kind = "windows" -> {n \in Reach(f) : ~IsEmpty(n)}
      [] feed.kind = "pages"   -> {n \in Reach(f) : \A k \in f + 1 .. n : ~IsEmpty(k)}

Capped(S) == {n \in S : Cardinality({k \in S : k <= n}) <= MaxBatches}

(* A mistake to detect: the batch that cannot be fetched is left out.      *)
UpToSkipping(S, n) == S \ {n}

(* The first n of the offered batches, when the fetch fails after them.    *)
UpTo(S, n) == {k \in S : k <= n}

(* A feed of time windows that has no watermark starts an hour back.       *)
Start(f) == IF feed.kind = "windows" /\ f = 0 /\ top > Lookback THEN top - Lookback ELSE f

-----------------------------------------------------------------------------
(* Worker.PollDue, Worker.pollFeed.                                        *)

ListFeed(p) ==
    /\ at[p] = "idle"
    /\ from' = [from EXCEPT ![p] = watermark]
    /\ Go(p, "listed")
    /\ UNCHANGED <<feed, top, watermark, begun, durable, marked, hand, tail, accepted, faults>>

Take(p, f, S) ==
    /\ begun' = IF f > from[p] THEN f ELSE begun
    /\ IF S = {} THEN Return(p)
       ELSE /\ hand' = [hand EXCEPT ![p] = S]
            /\ from' = [from EXCEPT ![p] = f]
            /\ tail' = [tail EXCEPT ![p] = IF feed.kind = "pages" /\ top \in S THEN top ELSE 0]
            /\ Go(p, "batch")
            /\ UNCHANGED accepted

Fetch(p) ==
    /\ at[p] = "listed"
    /\ LET f == Start(from[p]) IN Take(p, f, Capped(Offered(f)))
    /\ UNCHANGED <<feed, top, watermark, durable, marked, faults>>

(* Paging stops part-way: what came first is committed.                    *)
FetchFails(p) ==
    /\ at[p] = "listed" /\ Fault
    /\ LET f == Start(from[p]) IN
         \E n \in 0..top : Take(p, f, Capped(UpTo(Offered(f), n)))
    /\ UNCHANGED <<feed, top, watermark, durable, marked>>

(* The configuration or the credential cannot be read.                     *)
PollFails(p) ==
    /\ at[p] = "listed" /\ Fault
    /\ Return(p)
    /\ UNCHANGED <<feed, top, watermark, begun, durable, marked>>

-----------------------------------------------------------------------------
(* Worker.commitBatch.                                                     *)

Batch(p) == Min(hand[p])

(* A mistake to detect: the poll stops at a payload nobody can read.       *)
StopAtGarbage(p) ==
    /\ at[p] = "batch" /\ IsGarbage(Batch(p))
    /\ Return(p)
    /\ UNCHANGED <<feed, top, watermark, begun, durable, marked, faults>>

(* A payload its adapter does not know or cannot parse is passed over.     *)
SkipGarbage(p) ==
    /\ at[p] = "batch" /\ IsGarbage(Batch(p))
    /\ Go(p, "advance")
    /\ UNCHANGED <<feed, top, watermark, begun, durable, marked, from, hand, tail, accepted, faults>>

(* ingest.BuildEnvelopes leaves the filtered records out of the envelopes  *)
(* and tells of the rejected ones by their place in the list of records.   *)
Rejections(n) == {i \in DOMAIN Records(n) : Records(n)[i] = "rejected"}

Carried(n) == {i \in DOMAIN Records(n) : Records(n)[i] # "filtered"}

EnvelopeOf(n, i) == Cardinality({k \in Carried(n) : k <= i})

(* Worker.filter takes such a place for one in the list of envelopes.      *)
Candidates(n) == {i \in Carried(n) : EnvelopeOf(n, i) \notin Rejections(n)}

(* What has a marker is left out, unless Redis does not answer.            *)
Filter(p) ==
    /\ at[p] = "batch" /\ ~IsGarbage(Batch(p))
    /\ LET n == Batch(p) IN
         \/ accepted' = [accepted EXCEPT ![p] = Candidates(n) \ marked[n]] /\ UNCHANGED faults
         \/ accepted' = [accepted EXCEPT ![p] = Candidates(n)] /\ Fault
    /\ Go(p, "publish")
    /\ UNCHANGED <<feed, top, watermark, begun, durable, marked, from, hand, tail>>

Publish(p) ==
    /\ at[p] = "publish"
    /\ durable' = [durable EXCEPT ![Batch(p)] = @ \cup accepted[p]]
    /\ Go(p, IF accepted[p] = {} THEN "advance" ELSE "mark")
    /\ UNCHANGED <<feed, top, watermark, begun, marked, from, hand, tail, accepted, faults>>

(* What did not get through is fetched again, what did may be repeated.    *)
PublishFails(p) ==
    /\ at[p] = "publish" /\ accepted[p] # {} /\ Fault
    /\ \E part \in SUBSET accepted[p] : durable' = [durable EXCEPT ![Batch(p)] = @ \cup part]
    /\ Return(p)
    /\ UNCHANGED <<feed, top, watermark, begun, marked>>

Mark(p) ==
    /\ at[p] = "mark"
    /\ \/ marked' = [marked EXCEPT ![Batch(p)] = @ \cup accepted[p]] /\ UNCHANGED faults
       \/ /\ \E part \in SUBSET accepted[p] : marked' = [marked EXCEPT ![Batch(p)] = @ \cup part]
          /\ Fault
    /\ Go(p, "advance")
    /\ UNCHANGED <<feed, top, watermark, begun, durable, from, hand, tail, accepted>>

NextBatch(p) ==
    IF hand[p] = {Batch(p)} THEN Return(p)
    ELSE /\ hand' = [hand EXCEPT ![p] = @ \ {Batch(p)}]
         /\ from' = [from EXCEPT ![p] = Batch(p)]
         /\ accepted' = [accepted EXCEPT ![p] = {}]
         /\ Go(p, "batch")
         /\ UNCHANGED tail

(* Worker.advance writes its own position, wherever the row stands by now; *)
(* the last page has no cursor and is fetched again.                       *)
Advance(p) ==
    /\ at[p] = "advance"
    /\ watermark' = IF Batch(p) = tail[p] THEN watermark ELSE Batch(p)
    /\ NextBatch(p)
    /\ UNCHANGED <<feed, top, begun, durable, marked, faults>>

AdvanceFails(p) ==
    /\ at[p] = "advance" /\ Batch(p) # tail[p] /\ Fault
    /\ watermark' \in {watermark, Batch(p)}
    /\ Return(p)
    /\ UNCHANGED <<feed, top, begun, durable, marked>>

-----------------------------------------------------------------------------
Crash(p) ==
    /\ at[p] # "idle" /\ Fault
    /\ Return(p)
    /\ UNCHANGED <<feed, top, watermark, begun, durable, marked>>

(* The vendor logs, until the model's log ends.                            *)
Log ==
    /\ top < feed.length
    /\ top' = top + 1
    /\ UNCHANGED <<feed, watermark, begun, durable, marked, local, faults>>

Poll(p) ==
    \/ ListFeed(p) \/ Fetch(p) \/ FetchFails(p) \/ PollFails(p)
    \/ SkipGarbage(p) \/ Filter(p) \/ Publish(p) \/ PublishFails(p) \/ Mark(p)
    \/ Advance(p) \/ AdvanceFails(p)

Next == (\E p \in Processes : Poll(p) \/ Crash(p)) \/ Log

Spec == Init /\ [][Next]_vars

(* The worker is supervised for the life of its process and the vendor     *)
(* keeps logging.                                                          *)
Fairness == (\A p \in Processes : WF_vars(Poll(p))) /\ WF_vars(Log)

FairSpec == Spec /\ Fairness

-----------------------------------------------------------------------------
(* "A watermark advances ONLY after the fetched events are durably         *)
(* committed" (source.go): every fit record the watermark has passed is in *)
(* the stream, whoever moved it, back or forth.  Not owed are windows      *)
(* older than an hour while the feed has never had a watermark, and what   *)
(* the code takes for a rejected record: only a record that comes after a  *)
(* filtered one and after a rejected one behind that can be (FitIsKept     *)
(* says that none is, and does not hold).                                  *)
Fit(n) == {i \in DOMAIN Records(n) : Records(n)[i] = "fit"}

Displaced(n, i) ==
    \E j, k \in 1..(i - 1) : j < k /\ Records(n)[j] = "filtered" /\ Records(n)[k] = "rejected"

Owed(n) == {i \in Fit(n) : ~Displaced(n, i)}

Passed(n) == \A k \in begun + 1 .. n : Owed(k) \subseteq durable[k]

PassedIsDurable == Passed(watermark)

FitIsKept == \A k \in begun + 1 .. watermark : Fit(k) \subseteq durable[k]

(* Everything the vendor logs is pulled in the end, after crashes, failed  *)
(* calls and payloads nobody can read ("an unreadable object must not      *)
(* stall the feed forever"; "the remainder is picked up next cycle").      *)
EverythingPulled == <>[]Passed(feed.length)
=============================================================================
