------------------------------ MODULE Retention ------------------------------
(***************************************************************************)
(* How long data is kept: the tables' own TTLs, the retention worker that  *)
(* deletes what is past a tenant's configured period (retention.Worker),   *)
(* the settings an administrator changes meanwhile, and the purge of a     *)
(* range on request.                                                       *)
(*                                                                         *)
(* A unit of time is a day.  The worker passes every hour, so a day does   *)
(* not end without a pass; every statement it sends is a step.             *)
(***************************************************************************)
EXTENDS Integers, FiniteSets, Sequences, SequencesExt

CONSTANTS Tenants,
          Periods,        \* values an administrator asks for
          TableTTL,       \* TableTTL[table]: the TTL its migration gives a table
          DefaultDays,    \* a period of 0 means this (30)
          MaxDays,        \* retention.MaxRetentionDays
          Founded,        \* the tenants' settings at first
          MaxTime,        \* bound: days
          MaxRows,        \* bound: rows ever written
          MaxEdits,       \* bound: changes of settings, and purges
          MaxFaults       \* bound: failing statements and crashes

Tables == {"normalized_events", "raw_events", "rejected_events", "correlated_requests", "alerts"}

VARIABLES
    time,
    rows,       \* [table, tenant, at, filed]: "at" is the column a deletion compares
    written,    \* rows written so far
    settings,   \* settings[t]: the periods in a tenant's row, [raw, correlated, alert]
    edits,
    \* the retention worker
    todo,       \* tenants of this pass still to do, as ListAll read them
    work,       \* statements left for the tenant in hand, or <<>>
    passed,     \* a pass has ended today
    \* a purge
    purge,      \* [step, tenant, from, to]
    faults,
    \* history
    inForce,    \* inForce[t]: settings in force at some moment of this pass
    steady,     \* steady[t]: 1 once a whole day passed since t's settings last changed
                \* or a statement of t failed
    attempts    \* purges whose start went to the audit trail, or could not

worker == <<todo, work, passed>>
vars == <<time, rows, written, settings, edits, worker, purge, faults, inForce, steady, attempts>>

-----------------------------------------------------------------------------
(* clampDays, of the worker, and clampRetention, of the settings page.     *)
ClampDays(days) ==
    IF days = 0 THEN DefaultDays ELSE IF days > MaxDays THEN MaxDays ELSE days
ClampRetention(days) ==
    IF days < 1 THEN 1 ELSE IF days > MaxDays THEN MaxDays ELSE days

(* The statements of applyTenant, in order: table and period.              *)
Statement(table, days) == [table |-> table, days |-> days]
Statements(s) ==
    <<Statement("normalized_events", ClampDays(s.raw)),
      Statement("raw_events", ClampDays(s.raw)),
      Statement("rejected_events", ClampDays(s.raw)),
      Statement("correlated_requests", ClampDays(s.correlated))>>

Idle == [step |-> "idle"]
NoWork == [tenant |-> "none", left |-> <<>>]

Init ==
    /\ time = 0
    /\ rows = {} /\ written = 0
    /\ settings = Founded
    /\ edits = 0
    /\ todo = <<>> /\ work = NoWork /\ passed = FALSE
    /\ purge = Idle
    /\ faults = 0
    /\ inForce = [t \in Tenants |-> {}]
    /\ steady = [t \in Tenants |-> 0]
    /\ attempts = {}

Fail == faults < MaxFaults /\ faults' = faults + 1

-----------------------------------------------------------------------------
(* A row is written; an event may be a day old when it arrives.            *)
Write ==
    /\ written < MaxRows
    /\ \E table \in Tables, t \in Tenants, at \in {time - 1, time} :
           /\ at < time => table \in {"normalized_events", "correlated_requests"}
           /\ rows' = rows \cup {[table |-> table, tenant |-> t, at |-> at, filed |-> time]}
    /\ written' = written + 1
    /\ UNCHANGED <<time, settings, edits, worker, purge, faults, inForce, steady, attempts>>

(* ClickHouse drops rows whose table's TTL has run out.                    *)
Expire ==
    /\ \E r \in rows : r.at + TableTTL[r.table] < time /\ rows' = rows \ {r}
    /\ UNCHANGED <<time, written, settings, edits, worker, purge, faults, inForce, steady, attempts>>

(* UpdateTenantSettings, under the tenant's lock.                          *)
UpdateTenantSettings ==
    /\ edits < MaxEdits /\ edits' = edits + 1
    /\ \E t \in Tenants, field \in {"raw", "correlated", "alert"}, days \in Periods :
           /\ LET asked == [settings[t] EXCEPT ![field] = ClampRetention(days)]
              IN  /\ settings' = [settings EXCEPT ![t] = asked]
                  /\ inForce' = [inForce EXCEPT ![t] = @ \cup {asked}]
           /\ steady' = [steady EXCEPT ![t] = -1]
    /\ UNCHANGED <<time, rows, written, worker, purge, faults, attempts>>

-----------------------------------------------------------------------------
(* Reconcile.                                                              *)

ListAll ==
    /\ todo = <<>> /\ work = NoWork /\ ~passed
    /\ LET oldestFirst == SetToSeq(Tenants)
       IN  todo' = [i \in DOMAIN oldestFirst |->
                       [tenant |-> oldestFirst[i], settings |-> settings[oldestFirst[i]]]]
    /\ inForce' = [t \in Tenants |-> {settings[t]}]
    /\ UNCHANGED <<time, rows, written, settings, edits, work, passed, purge, faults, steady, attempts>>

(* The tenant list cannot be read, or the processor stops: the pass ends   *)
(* and no tenant is served.                                                *)
PassFails ==
    /\ ~passed
    /\ Fail
    /\ todo' = <<>> /\ work' = NoWork
    /\ passed' \in {FALSE, TRUE}
    /\ steady' = [t \in Tenants |-> -1]
    /\ UNCHANGED <<time, rows, written, settings, edits, purge, inForce, attempts>>

ApplyTenant ==
    /\ work = NoWork /\ todo # <<>>
    /\ work' = [tenant |-> Head(todo).tenant, left |-> Statements(Head(todo).settings)]
    /\ todo' = Tail(todo)
    /\ UNCHANGED <<time, rows, written, settings, edits, passed, purge, faults, inForce, steady, attempts>>

(* DELETE FROM table WHERE tenant_id = ? AND at < now - days.              *)
DueOfAnyone(tenant, s) == {r \in rows : r.table = s.table /\ r.at < time - s.days}
Due(tenant, s) ==
    {r \in rows : r.tenant = tenant /\ r.table = s.table /\ r.at < time - s.days}

DeleteFirst ==
    /\ work # NoWork
    /\ rows' = rows \ Due(work.tenant, Head(work.left))
    /\ work' = NoWork /\ passed' = (todo = <<>>)
    /\ UNCHANGED <<time, written, settings, edits, todo, purge, faults, inForce, steady, attempts>>
DeleteBefore ==
    /\ work # NoWork
    /\ rows' = rows \ Due(work.tenant, Head(work.left))
    /\ LET left == Tail(work.left)
       IN  /\ work' = IF left = <<>> THEN NoWork ELSE [work EXCEPT !.left = left]
           /\ passed' = (left = <<>> /\ todo = <<>>)
    /\ UNCHANGED <<time, written, settings, edits, todo, purge, faults, inForce, steady, attempts>>

(* A statement that fails ends the work for its tenant and nobody else's.  *)
DeleteFails ==
    /\ work # NoWork
    /\ Fail
    /\ steady' = [steady EXCEPT ![work.tenant] = -1]
    /\ work' = NoWork /\ passed' = (todo = <<>>)
    /\ UNCHANGED <<time, rows, written, settings, edits, todo, purge, inForce, attempts>>

NextDay ==
    /\ passed /\ time < MaxTime
    /\ time' = time + 1
    /\ passed' = FALSE
    /\ steady' = [t \in Tenants |-> IF steady[t] < 1 THEN steady[t] + 1 ELSE 1]
    /\ UNCHANGED <<rows, written, settings, edits, todo, work, purge, faults, inForce, attempts>>

-----------------------------------------------------------------------------
(* Purge: a record of the attempt, two statements, a record of the end.    *)
(* A record that cannot be written is logged and the purge goes on.        *)

StartPurge ==
    /\ purge = Idle
    /\ edits < MaxEdits /\ edits' = edits + 1
    /\ \E t \in Tenants, from \in 0..time, to \in 1..(time + 1) :
           /\ from < to
           /\ LET request == [tenant |-> t, from |-> from, to |-> to]
              IN  /\ purge' = [step |-> "normalized_events", of |-> request]
                  /\ attempts' = attempts \cup {request}
    /\ UNCHANGED <<time, rows, written, settings, worker, faults, inForce, steady>>

InRange(table, p) ==
    {r \in rows : r.table = table /\ r.tenant = p.tenant /\ p.from <= r.at /\ r.at < p.to}

DeleteInRange ==
    /\ purge # Idle
    /\ rows' = rows \ InRange(purge.step, purge.of)
    /\ purge' = IF purge.step = "normalized_events"
                THEN [purge EXCEPT !.step = "raw_events"] ELSE Idle
    /\ UNCHANGED <<time, written, settings, edits, worker, faults, inForce, steady, attempts>>

(* The statement fails or siem-api stops: what is deleted stays deleted.   *)
PurgeFails ==
    /\ purge # Idle
    /\ Fail
    /\ purge' = Idle
    /\ UNCHANGED <<time, rows, written, settings, edits, worker, inForce, steady, attempts>>

Next ==
    \/ Write \/ Expire \/ UpdateTenantSettings
    \/ ListAll \/ ApplyTenant \/ DeleteBefore \/ DeleteFails \/ PassFails \/ NextDay
    \/ StartPurge \/ DeleteInRange \/ PurgeFails

Spec == Init /\ [][Next]_vars

-----------------------------------------------------------------------------
PeriodOf(s, table) ==
    ClampDays(CASE table = "correlated_requests" -> s.correlated
                [] table = "alerts" -> s.alert
                [] OTHER -> s.raw)

Deletion ==
    \A r \in rows \ rows' :
        \/ r.at + TableTTL[r.table] < time
        \/ /\ r.table # "alerts"
           /\ \E s \in inForce[r.tenant] : r.at < time - PeriodOf(s, r.table)
        \/ \E p \in attempts :
               /\ r.table \in {"normalized_events", "raw_events"}
               /\ p.tenant = r.tenant /\ p.from <= r.at /\ r.at < p.to

(* A row goes for one of three reasons, whatever happens to the settings   *)
(* while a pass is at work and however many tenants it serves: its table's *)
(* TTL ran out, it is past a period its own tenant had during this pass,   *)
(* or a purge that asked for it was put on record before.                  *)
OnlyDueIsDeleted == [][Deletion]_rows

Overdue(r) == r.filed < time /\ time - r.at > PeriodOf(settings[r.tenant], r.table) + 1

(* Whatever befalls the other tenants, data of one whose settings stand    *)
(* and whose statements succeed is gone a day after its period ends        *)
(* (SC-010).  Alerts are not in this: see AlertsExpire.                    *)
ExpiredIsGone ==
    \A r \in rows :
        Overdue(r) /\ steady[r.tenant] = 1 => r.table = "alerts"

(* FR-036 gives alerts a period of their own.                              *)
AlertsExpire ==
    \A r \in rows : Overdue(r) /\ steady[r.tenant] = 1 => r.table # "alerts"
=============================================================================
