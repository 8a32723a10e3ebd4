-------------------------------- MODULE Search --------------------------------
(***************************************************************************)
(* A listing is read page by page while events arrive, are redelivered,    *)
(* merged away and purged and correlated records are amended               *)
(* (SearchService, SearchRepo, the keyset cursor of package query); an     *)
(* export walks the same pages up to a cap.                                *)
(*                                                                         *)
(* The table is the rows that the filters and the range select: what they  *)
(* compare never changes in an event, and changes in a record only with an *)
(* amendment.                                                              *)
(***************************************************************************)
EXTENDS Naturals, FiniteSets, Sequences, FiniteSetsExt, SequencesExt

CONSTANTS Ids,            \* identifiers, ordered as numbers
          MaxTime,        \* bound: times of events
          PageSize,       \* rows of a page (100)
          ExportCap,      \* rows an export may hold
          MaxChanges,     \* bound: changes of the tables while a job runs
          MaxFaults       \* bound: queries that fail

VARIABLES
    holds,      \* what the table holds: events, or correlated records
    table,      \* rows: [id, time, version]; versions of one id until a merge drops them
    used,       \* ids ever in the table
    job,        \* the search being read
    steady,     \* history: ids in the table, unchanged, since the job began
    changes, faults

vars == <<holds, table, used, job, steady, changes, faults>>

NoCursor == [time |-> MaxTime + 1, id |-> 0]
NoJob == [kind |-> "none"]

Init ==
    /\ job = NoJob
    /\ holds \in {"events", "records"}
    /\ \E present \in SUBSET Ids, time \in [Ids -> 0..MaxTime] :
           /\ table = {[id |-> i, time |-> time[i], version |-> 1] : i \in present}
           /\ used = present
    /\ steady = {}
    /\ changes = 0 /\ faults = 0

-----------------------------------------------------------------------------
(* The query.                                                              *)

(* (time, id) < (cursor.time, cursor.id): After.                           *)
After(S, c) == {r \in S : r.time < c.time \/ (r.time = c.time /\ r.id < c.id)}

(* ORDER BY time DESC, id DESC.                                            *)
Before(r, s) == r.time > s.time \/ (r.time = s.time /\ r.id > s.id)

(* FINAL, and LIMIT 1 BY id of rows ordered newest version first: one row  *)
(* of each id.                                                             *)
Newest(S) == {r \in S : \A s \in S : s.id = r.id => s.version <= r.version}

(* Events are collapsed after the cursor has cut the table, because the    *)
(* time of an event never moves; records before, because theirs does.      *)
MatchedCutFirst(c) == Newest(After(table, c))
Matched(c) ==
    IF holds = "records" THEN After(Newest(table), c)
    ELSE Newest(After(table, c))

-----------------------------------------------------------------------------
Begin ==
    /\ job = NoJob
    /\ \E kind \in (IF holds = "records" THEN {"records"} ELSE {"events", "export"}) :
           job' = [kind |-> kind, cursor |-> NoCursor, listed |-> <<>>, done |-> FALSE]
    /\ steady' = {r.id : r \in Newest(table)}
    /\ UNCHANGED <<holds, table, used, changes, faults>>

(* The first of the rows S in the order of the listing, a page of them.    *)
FirstOf(items, S) ==
    /\ \A i, j \in DOMAIN items : i < j => Before(items[i], items[j])
    /\ \A r \in S \ Range(items) :
          Len(items) = PageSize /\ \A i \in DOMAIN items : Before(items[i], r)

(* paginate: one row more than the page tells whether there is another.    *)
Page ==
    /\ job # NoJob /\ ~job.done
    /\ \E n \in 0..PageSize : \E items \in [1..n -> Matched(job.cursor)] :
          LET more == Matched(job.cursor) # Range(items)
              listed == job.listed \o [i \in 1..n |-> items[i].id]
          IN  /\ FirstOf(items, Matched(job.cursor))
              /\ job' = [job EXCEPT
                           !.listed = listed,
                           !.cursor = IF more THEN [time |-> items[PageSize].time, id |-> items[PageSize].id]
                                      ELSE @,
                           !.done = ~more \/ (job.kind = "export" /\ Len(listed) >= ExportCap)]
    /\ UNCHANGED <<holds, table, used, steady, changes, faults>>

(* A page that fails is asked for again; an export is abandoned.           *)
PageFails ==
    /\ job # NoJob /\ ~job.done
    /\ faults < MaxFaults /\ faults' = faults + 1
    /\ job' = IF job.kind = "export" THEN NoJob ELSE job
    /\ UNCHANGED <<holds, table, used, steady, changes>>

Truncated == Len(job.listed) > ExportCap
Exported == SubSeq(job.listed, 1, IF Truncated THEN ExportCap ELSE Len(job.listed))

End ==
    /\ job # NoJob /\ job.done
    /\ job' = NoJob /\ steady' = {}
    /\ UNCHANGED <<holds, table, used, changes, faults>>

-----------------------------------------------------------------------------
(* The table changes while a job reads it.                                 *)

Change == job # NoJob /\ ~job.done /\ changes < MaxChanges /\ changes' = changes + 1

Arrive ==
    /\ Change
    /\ \E i \in Ids \ used, t \in 0..MaxTime :
           /\ table' = table \cup {[id |-> i, time |-> t, version |-> 1]}
           /\ used' = used \cup {i}
    /\ UNCHANGED <<holds, job, steady, faults>>

(* An event is ingested again, at its own time.                            *)
Redeliver ==
    /\ Change
    /\ holds = "events"
    /\ \E r \in Newest(table) : table' = table \cup {[r EXCEPT !.version = @ + 1]}
    /\ UNCHANGED <<holds, used, job, steady, faults>>

(* A late event amends a record, and its last time may advance.            *)
Amend ==
    /\ Change
    /\ holds = "records"
    /\ \E r \in Newest(table), t \in 0..MaxTime :
           /\ t >= r.time
           /\ table' = table \cup {[r EXCEPT !.version = @ + 1, !.time = t]}
           /\ steady' = steady \ {r.id}
    /\ UNCHANGED <<holds, used, job, faults>>

(* The engine drops superseded versions.                                   *)
Merge ==
    /\ \E r \in table \ Newest(table) : table' = table \ {r}
    /\ UNCHANGED <<holds, used, job, steady, changes, faults>>

(* Retention and purges.                                                   *)
Delete ==
    /\ Change
    /\ \E i \in {r.id : r \in table} :
           /\ table' = {r \in table : r.id # i}
           /\ steady' = steady \ {i}
    /\ UNCHANGED <<holds, used, job, faults>>

Next ==
    \/ Begin \/ Page \/ PageFails \/ End
    \/ Arrive \/ Redeliver \/ Amend \/ Merge \/ Delete

Spec == Init /\ [][Next]_vars

-----------------------------------------------------------------------------
Times(i) == Cardinality({n \in DOMAIN job.listed : job.listed[n] = i})

(* However the tables change between two pages, nothing is listed twice    *)
(* and nothing that was there all along and did not change is left out,    *)
(* rows of one instant across a page boundary included (cursor.go: "a      *)
(* silent loss exactly where the reader is looking hardest"; SearchRepo:   *)
(* "the record appears twice").                                            *)
ListingIsFaithful ==
    job # NoJob =>
        /\ \A i \in Ids : Times(i) <= 1
        /\ job.done /\ (job.kind = "export" => Len(job.listed) < ExportCap)
             => \A i \in steady : Times(i) = 1

(* Exporter.Truncated: "This has to reach the caller.  An export that      *)
(* silently stops at the cap looks like a complete extract".               *)
TruncationIsTold ==
    job # NoJob /\ job.kind = "export" =>
        (job.done /\ ~Truncated => \A i \in steady : i \in ToSet(Exported))
=============================================================================
