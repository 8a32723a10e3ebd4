-------------------------------- MODULE Caches --------------------------------
(***************************************************************************)
(* The caches between a table an operator edits and the processes that     *)
(* work by it: correlation settings (correlate.SettingsCache), ingest      *)
(* filters (filter.Cache) and the names of networks and rules              *)
(* (asnowner.Resolver, cfrules.Resolver).                                  *)
(*                                                                         *)
(* They differ in what a failed read gives and whether it is remembered.   *)
(* One key; two callers may miss at once.                                  *)
(***************************************************************************)
EXTENDS Integers, FiniteSets

CONSTANTS Callers,      \* goroutines that ask
          TTL,          \* how long an entry answers
          MaxRead,      \* bound: how long a read takes
          MaxTime,      \* bound
          MaxEdits,     \* bound: changes of the stored value
          MaxFaults     \* bound: reads that fail

Kinds == {"settings", "filters", "names"}

VARIABLES
    kind,       \* which cache
    time,
    stored,     \* the value in the table: the number of the edit that wrote it
    until,      \* history: when each value was replaced
    unusable,   \* values that do not compile, or name nothing
    entry,      \* [value, at] or NoEntry
    at, got, begun,
    answer,     \* history: the last answer, while time stands still
    failed,     \* history: when a read last failed
    faults

vars == <<kind, time, stored, until, unusable, entry, at, got, begun, answer, failed, faults>>

Values == 0..MaxEdits
Default == -1       \* DefaultResolved, no filters, no name
NoEntry == [value |-> Default, at |-> -TTL - 1]
Never == -TTL - MaxRead - 1
NoAnswer == [value |-> -2, failed |-> FALSE]

Init ==
    /\ kind \in Kinds
    /\ time = 0
    /\ stored = 0 /\ until = [v \in Values |-> IF v = 0 THEN MaxTime ELSE Never]
    /\ unusable \in SUBSET {1}
    /\ entry = NoEntry
    /\ at = [c \in Callers |-> "idle"]
    /\ got = [c \in Callers |-> Default]
    /\ begun = [c \in Callers |-> 0]
    /\ answer = NoAnswer /\ failed = Never /\ faults = 0

-----------------------------------------------------------------------------
(* UpdateCorrelationSettings and its like: the row changes, then the entry *)
(* is dropped.  Only the settings cache has an Invalidate, and only        *)
(* siem-api's own cache hears of it.                                       *)
Edit ==
    /\ stored < MaxEdits
    /\ stored' = stored + 1
    /\ until' = [until EXCEPT ![stored] = time, ![stored + 1] = MaxTime]
    /\ UNCHANGED <<kind, time, unusable, entry, at, got, begun, answer, failed, faults>>

Invalidate ==
    /\ kind = "settings" /\ entry # NoEntry
    /\ entry' = NoEntry
    /\ UNCHANGED <<kind, time, stored, until, unusable, at, got, begun, answer, failed, faults>>

-----------------------------------------------------------------------------
(* lookup, cached.                                                         *)
FreshOnceRead == entry # NoEntry
Fresh == time <= entry.at + TTL

Reply(value, fault) == answer' = [value |-> value, failed |-> fault]

Hit(c) ==
    /\ at[c] = "idle" /\ Fresh
    /\ Reply(entry.value, FALSE)
    /\ UNCHANGED <<kind, time, stored, until, unusable, entry, at, got, begun, failed, faults>>

Miss(c) ==
    /\ at[c] = "idle" /\ ~Fresh
    /\ at' = [at EXCEPT ![c] = "read"]
    /\ begun' = [begun EXCEPT ![c] = time]
    /\ UNCHANGED <<kind, time, stored, until, unusable, entry, got, answer, failed, faults>>

(* What a value read from the table means to the cache: settings out of    *)
(* range fall back to the defaults, a network or rule not listed is        *)
(* remembered as having no name.                                           *)
Meaning(value) == IF value \in unusable THEN Default ELSE value

Read(c) ==
    /\ at[c] = "read"
    /\ got' = [got EXCEPT ![c] = stored]
    /\ at' = [at EXCEPT ![c] = "store"]
    /\ UNCHANGED <<kind, time, stored, until, unusable, entry, begun, answer, failed, faults>>

Done(c) ==
    /\ at' = [at EXCEPT ![c] = "idle"]
    /\ got' = [got EXCEPT ![c] = Default] /\ begun' = [begun EXCEPT ![c] = 0]

(* The answer goes into the cache; filters that do not compile do not.     *)
Store(c) ==
    /\ at[c] = "store"
    /\ entry' = IF kind = "filters" /\ got[c] \in unusable THEN entry
                ELSE [value |-> Meaning(got[c]), at |-> time]
    /\ Reply(Meaning(got[c]), FALSE)
    /\ Done(c)
    /\ UNCHANGED <<kind, time, stored, until, unusable, failed, faults>>

(* A read that fails: the settings cache keeps the defaults like an        *)
(* answer, the others keep nothing.                                        *)
ReadFails(c) ==
    /\ at[c] = "read"
    /\ faults < MaxFaults /\ faults' = faults + 1
    /\ entry' = IF kind = "settings" THEN [value |-> Default, at |-> time] ELSE entry
    /\ failed' = time
    /\ Reply(Default, TRUE)
    /\ Done(c)
    /\ UNCHANGED <<kind, time, stored, until, unusable>>

(* A read is over within MaxRead.                                          *)
Tick ==
    /\ time < MaxTime
    /\ \A c \in Callers : at[c] # "idle" => time < begun[c] + MaxRead
    /\ time' = time + 1
    /\ answer' = NoAnswer
    /\ UNCHANGED <<kind, stored, until, unusable, entry, at, got, begun, failed, faults>>

Next ==
    \/ Edit \/ Invalidate \/ Tick
    \/ \E c \in Callers : Hit(c) \/ Miss(c) \/ Read(c) \/ Store(c) \/ ReadFails(c)

Spec == Init /\ [][Next]_vars

-----------------------------------------------------------------------------
InForce(v) == until[v] >= time - TTL - MaxRead

(* Whatever edits, invalidations and reads that overtake each other do, an *)
(* answer is a value the table held within the last TTL and one read.  The *)
(* defaults are the answer only if such a value means them or a read       *)
(* failed: for the settings one within the TTL, whose defaults are kept,   *)
(* for filters and names this very read, because a filter set must come    *)
(* back with the table.                                                    *)
AnswersAreRecent ==
    answer # NoAnswer =>
        \/ \E v \in Values : InForce(v) /\ answer.value = Meaning(v)
        \/ answer.value = Default /\
           IF kind = "settings" THEN time <= failed + TTL ELSE answer.failed
=============================================================================
