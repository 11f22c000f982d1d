---------------------------- MODULE SagaRecovery ----------------------------
(***************************************************************************)
(* _saga_recovery_tick of nce/cron.py, run by several cron instances under  *)
(* the Redis lock "saga_recovery" (nce/cron_lock.py, TTL 600 s).            *)
(*                                                                          *)
(* A tick lists the saga_execution_log rows that have been pg_committed for *)
(* five minutes, and finalises them one by one, each in a transaction of    *)
(* its own that appends a saga_recovered event and moves the row to         *)
(* completed if it is still pg_committed.                                   *)
(***************************************************************************)
EXTENDS MemorySaga

CONSTANTS
    Workers,     \* cron instances
    NoWorker,    \* the lock is free
    LockExpires  \* may the lock expire under a tick that is still running?

ASSUME RecoveryAssumption ==
    /\ NoWorker \notin Workers
    /\ LockExpires \in BOOLEAN

VARIABLES
    overdue,   \* rows that have been pg_committed for five minutes
    holder,    \* instance whose token is in the lock key
    ticking,   \* instances inside a tick
    listed,    \* rows an instance has listed and not handled yet
    recovered  \* number of saga_recovered events of a saga

recVars == <<overdue, holder, ticking, listed, recovered>>

RecoveryInit ==
    /\ overdue = {}
    /\ holder = NoWorker
    /\ ticking = {}
    /\ listed = [w \in Workers |-> {}]
    /\ recovered = [s \in Sagas |-> 0]

\* Five minutes pass since the row's last update.
Overdue(s) ==
    /\ log[s] = "pg_committed"
    /\ s \notin overdue
    /\ overdue' = overdue \cup {s}
    /\ UNCHANGED <<holder, ticking, listed, recovered, sagaVars>>

\* Mutant: the tick does not look at the lock.
RecoveryStart_NoLock(w) ==
    /\ w \notin ticking
    /\ holder' = w
    /\ ticking' = ticking \cup {w}
    /\ listed' = [listed EXCEPT ![w] = {s \in overdue : log[s] = "pg_committed"}]
    /\ UNCHANGED <<overdue, recovered, sagaVars>>

\* Mutant: the query asks for the wrong state.
RecoveryStart_WrongState(w) ==
    /\ w \notin ticking
    /\ holder = NoWorker
    /\ holder' = w
    /\ ticking' = ticking \cup {w}
    /\ listed' = [listed EXCEPT ![w] = {s \in overdue : log[s] = "started"}]
    /\ UNCHANGED <<overdue, recovered, sagaVars>>

\* acquire_cron_lock (SET NX EX), then the listing query.  Its LIMIT 100 is left
\* out: fewer sagas are stuck at a time.
RecoveryStart(w) ==
    /\ w \notin ticking
    /\ holder = NoWorker
    /\ holder' = w
    /\ ticking' = ticking \cup {w}
    /\ listed' = [listed EXCEPT ![w] = {s \in overdue : log[s] = "pg_committed"}]
    /\ UNCHANGED <<overdue, recovered, sagaVars>>

\* Mutant: the tick compensates instead of finalising.
RecoverOne_RollBack(w, s) ==
    /\ w \in ticking
    /\ s \in listed[w]
    /\ listed' = [listed EXCEPT ![w] = @ \ {s}]
    /\ log' = [log EXCEPT ![s] = IF @ = "pg_committed" THEN "rolled_back" ELSE @]
    /\ NoFault
    /\ UNCHANGED <<recovered, overdue, holder, ticking, pc, docs, objs, mem, indoubt, aged>>

\* The verifying read and the finalising transaction, in one step because
\* memories rows are never deleted.  The branches for a missing row and for a
\* payload without memory_id cannot be reached: RecordedSagaHasRow says so.
\* The append is not conditional on the UPDATE finding the row.
RecoverOne(w, s) ==
    /\ w \in ticking
    /\ s \in listed[w]
    /\ mem[s] # "none"
    /\ listed' = [listed EXCEPT ![w] = @ \ {s}]
    /\ \/ /\ recovered' = [recovered EXCEPT ![s] = @ + 1]
          /\ log' = [log EXCEPT ![s] = IF @ = "pg_committed" THEN "completed" ELSE @]
          /\ NoFault
       \/ /\ Fault
          /\ UNCHANGED <<recovered, log>>
    /\ UNCHANGED <<overdue, holder, ticking, pc, docs, objs, mem, indoubt, aged>>

\* release_cron_lock deletes the key only if it still holds w's token.
Release(w) == holder' = IF holder = w THEN NoWorker ELSE holder

RecoveryEnd(w) ==
    /\ w \in ticking
    /\ listed[w] = {}
    /\ ticking' = ticking \ {w}
    /\ Release(w)
    /\ UNCHANGED <<overdue, listed, recovered, sagaVars>>

RecoveryCrash(w) ==
    /\ w \in ticking
    /\ Fault
    /\ ticking' = ticking \ {w}
    /\ listed' = [listed EXCEPT ![w] = {}]
    /\ UNCHANGED <<overdue, holder, recovered>>
    /\ UNCHANGED <<pc, log, docs, objs, mem, indoubt, aged>>

\* The key's TTL runs out: always once its owner is gone, and under a running
\* tick if a tick can outlast 600 seconds.
LockExpiry ==
    /\ holder # NoWorker
    /\ holder \notin ticking \/ LockExpires
    /\ holder' = NoWorker
    /\ UNCHANGED <<overdue, ticking, listed, recovered, sagaVars>>

RecoveryStep(w) ==
    RecoveryStart(w) \/ (\E s \in Sagas : RecoverOne(w, s)) \/ RecoveryEnd(w)

RecoveryNext ==
    \/ \E s \in Sagas : Overdue(s)
    \/ \E w \in Workers : RecoveryStep(w) \/ RecoveryCrash(w)
    \/ LockExpiry

RecoveryTypeOK ==
    /\ overdue \subseteq Sagas
    /\ holder \in Workers \cup {NoWorker}
    /\ ticking \subseteq Workers
    /\ listed \in [Workers -> SUBSET Sagas]
    /\ recovered \in [Sagas -> Nat]
=============================================================================
