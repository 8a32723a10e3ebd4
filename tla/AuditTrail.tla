----------------------------- MODULE AuditTrail -----------------------------
(***************************************************************************)
(* The audit trail of one tenant (audit/entry.go, clickhouse/audit.go): a  *)
(* table of entries that are only ever added, each with the hash of the    *)
(* one before it, so that the console can tell an untouched trail.  Every  *)
(* process appends, under one lock in Redis.                               *)
(*                                                                         *)
(* An entry's hash covers its id, which is random; the id stands for it.   *)
(* Time is in milliseconds, as an entry's is.  A process's clock is ahead  *)
(* of the slowest by as much throughout.                                   *)
(***************************************************************************)
EXTENDS Naturals, FiniteSets

CONSTANTS Writers,      \* requests that append
          Nobody,       \* nobody holds the lock
          MaxEntries,   \* bound: entries, and their ids
          MaxSkew,      \* how far ahead a process's clock may be
          MaxFaults     \* bound: failed calls and crashes

VARIABLES
    now,
    skew,      \* skew[w]: how far the clock of w's process is ahead
    entries,   \* ClickHouse
    lock,      \* Redis
    at,
    entry,     \* entry[w]: the entry w is about to insert
    late,      \* entries that were listed before another when they came
    faults

vars == <<now, skew, entries, lock, at, entry, late, faults>>

-----------------------------------------------------------------------------
GenesisHash == 0
Entry == [id : 1..MaxEntries, time : Nat, prev : 0..MaxEntries]
NoEntry == [id |-> 0, time |-> 0, prev |-> 0]

TypeOK ==
    /\ now \in Nat
    /\ skew \in [Writers -> 0..MaxSkew]
    /\ entries \subseteq Entry
    /\ lock \in Writers \cup {Nobody}
    /\ at \in [Writers -> {"idle", "chain", "insert"}]
    /\ entry \in [Writers -> [id : 0..MaxEntries, time : Nat, prev : 0..MaxEntries]]
    /\ late \subseteq entries
    /\ faults \in 0..MaxFaults

Init ==
    /\ now = 0
    /\ skew \in [Writers -> 0..MaxSkew]
    /\ entries = {}
    /\ lock = Nobody
    /\ at = [w \in Writers |-> "idle"]
    /\ entry = [w \in Writers |-> NoEntry]
    /\ late = {} /\ faults = 0

(* ORDER BY occurred_at, entry_id.                                         *)
Earlier(e, f) == e.time < f.time \/ (e.time = f.time /\ e.id < f.id)

Latest(e) == e \in entries /\ \A f \in entries \ {e} : Earlier(f, e)

(* A listing shows f right after e.                                        *)
Follows(f, e) == Earlier(e, f) /\ ~\E g \in entries : Earlier(e, g) /\ Earlier(g, f)

Fault == faults < MaxFaults /\ faults' = faults + 1

Ids == {e.id : e \in entries \cup {entry[w] : w \in Writers}}

-----------------------------------------------------------------------------
LatestHash == IF entries = {} THEN GenesisHash ELSE (CHOOSE e \in entries : Latest(e)).id

(* A mistake to detect: the latest entry is read without the lock.         *)
ReadLatest(w) ==
    /\ at[w] = "idle" /\ Cardinality(Ids \ {0}) < MaxEntries
    /\ entry' = [entry EXCEPT ![w] = [NoEntry EXCEPT !.prev = LatestHash]]
    /\ at' = [at EXCEPT ![w] = "chain"]
    /\ UNCHANGED <<now, skew, entries, lock, late, faults>>

(* The lock and the read it protects.                                      *)
LockTrail(w) ==
    /\ at[w] = "idle" /\ lock = Nobody /\ Cardinality(Ids \ {0}) < MaxEntries
    /\ lock' = w
    /\ entry' = [entry EXCEPT ![w] = [NoEntry EXCEPT !.prev = LatestHash]]
    /\ at' = [at EXCEPT ![w] = "chain"]
    /\ UNCHANGED <<now, skew, entries, late, faults>>

(* audit.Chain: a random id and the process's own time.                    *)
Chain(w) ==
    /\ at[w] = "chain"
    /\ \E id \in 1..MaxEntries \ Ids :
          entry' = [entry EXCEPT ![w] = [id |-> id, time |-> now + skew[w], prev |-> @.prev]]
    /\ at' = [at EXCEPT ![w] = "insert"]
    /\ UNCHANGED <<now, skew, entries, lock, late, faults>>

Return(w) ==
    /\ at' = [at EXCEPT ![w] = "idle"]
    /\ entry' = [entry EXCEPT ![w] = NoEntry]
    /\ lock' = IF lock = w THEN Nobody ELSE lock

Append(e) ==
    /\ entries' = entries \cup {e}
    /\ late' = IF \E f \in entries : Earlier(e, f) THEN late \cup {e} ELSE late

(* The answer to an insert takes a millisecond.                            *)
Insert(w) ==
    /\ at[w] = "insert"
    /\ Append(entry[w])
    /\ now' = now + 1
    /\ Return(w)
    /\ UNCHANGED <<skew, faults>>

(* The insert or its process fails, before or after the entry is there.    *)
AppendFails(w) ==
    /\ at[w] # "idle" /\ Fault
    /\ \/ UNCHANGED <<entries, late>>
       \/ at[w] = "insert" /\ Append(entry[w])
    /\ now' = now + 1
    /\ Return(w)
    /\ UNCHANGED skew

Next == \E w \in Writers : LockTrail(w) \/ Chain(w) \/ Insert(w) \/ AppendFails(w)

Spec == Init /\ [][Next]_vars

-----------------------------------------------------------------------------
(* VerifyRange: an entry names the one before it.                          *)
Linked(f, e) == f.prev = e.id

(* The console finds an untouched trail intact ("an integrity indicator    *)
(* that cries wolf is worse than none", entry.go), all of it from its      *)
(* first entry on (VerifyChain), but for entries that came out of order:   *)
(* it errs at one that was listed before another the moment it came, and   *)
(* between what is next to it, nowhere else.  None comes out of order      *)
(* where the processes' clocks agree.                                      *)
TrailVerifies ==
    /\ \A e, f \in entries \ late : Follows(f, e) => Linked(f, e)
    /\ \A e \in entries \ late :
          (\A f \in entries \ {e} : Earlier(e, f)) => e.prev = GenesisHash
    /\ (\A v, w \in Writers : skew[v] = skew[w]) => late = {}

(* What an auditor is told of an untouched trail; TLC refutes it, for the  *)
(* time in an entry is its own process's and the listing goes by it.       *)
NeverCriesWolf == \A e, f \in entries : Follows(f, e) => Linked(f, e)
=============================================================================
