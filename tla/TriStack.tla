------------------------------ MODULE TriStack ------------------------------
(***************************************************************************)
(* The stores of NCE under all their writers: store_memory sagas, the saga  *)
(* recovery cron and the orphan garbage collector.                          *)
(***************************************************************************)
EXTENDS SagaRecovery, GarbageCollector

vars == <<sagaVars, recVars, gcVars>>

Init == SagaInit /\ RecoveryInit /\ GcInit

Next ==
    \/ SagaNext /\ UNCHANGED <<recVars, gcVars>>
    \/ RecoveryNext /\ UNCHANGED gcVars
    \/ GcNext /\ UNCHANGED recVars

Spec == Init /\ [][Next]_vars

\* A call that has begun goes on until it ends or its task dies, PG settles the
\* transactions it holds, time passes, the cron scheduler starts a recovery tick
\* at every interval on some instance, and run_gc_loop repeats its pass.
Fairness ==
    /\ \A s \in Sagas :
        /\ WF_vars(pc[s] # "idle" /\ SagaStep(s) /\ UNCHANGED <<recVars, gcVars>>)
        /\ WF_vars(SettleInDoubt(s) /\ UNCHANGED <<recVars, gcVars>>)
        /\ WF_vars(Age(s) /\ UNCHANGED <<recVars, gcVars>>)
        /\ WF_vars(Overdue(s) /\ UNCHANGED gcVars)
    /\ WF_vars((\E w \in Workers : RecoveryStep(w)) /\ UNCHANGED gcVars)
    /\ WF_vars(LockExpiry /\ UNCHANGED gcVars)
    /\ WF_vars(GcStep /\ UNCHANGED recVars)

FairSpec == Spec /\ Fairness

-----------------------------------------------------------------------------
TypeOK == SagaTypeOK /\ RecoveryTypeOK /\ GcTypeOK

\* A memory whose caller saw the PG transaction commit stays whole: its row is
\* live, its document is in MongoDB and its object in MinIO.  The collector
\* reads candidates, references and deletes in separate steps while the saga
\* runs, and the reverse sweep retires rows, yet neither touches it.
CommittedIsWhole ==
    \A s \in Sagas : pc[s] \in Committed =>
        /\ mem[s] = "live"
        /\ s \in docs
        /\ s \in Artifacts => s \in objs

\* The log never claims more than PG holds: a saga recorded as pg_committed or
\* completed has its memories row, so the recovery tick's "MISSING from memories
\* table" branch is never taken.
RecordedSagaHasRow ==
    \A s \in Sagas : log[s] \in {"pg_committed", "completed"} => mem[s] # "none"

\* One saga_recovered event per saga, although several cron instances tick and
\* a tick may die half way, as long as a tick fits in the lock's TTL.
RecoveredOnce == ~LockExpires => \A s \in Sagas : recovered[s] <= 1

\* The log's final states are final: the recovery tick and the saga itself
\* write the same row without a common lock, yet a finished saga never goes back.
FinalLogIsFinal ==
    [][\A s \in Sagas : log[s] \in {"completed", "rolled_back"} => log'[s] = log[s]]_vars

\* Once the log says pg_committed, it will say completed: by the saga, or by a
\* later recovery tick if the saga died.
PgCommittedIsCompleted ==
    \A s \in Sagas : log[s] = "pg_committed" ~> log[s] = "completed"

\* The collector reclaims the documents and objects that failed and crashed
\* calls leave in MongoDB and MinIO.
OrphansAreReclaimed ==
    \A s \in Sagas :
        (mem[s] = "none" /\ pc[s] \in Ended /\ s \notin indoubt)
            ~> (s \notin docs /\ s \notin objs)

\* docs/database_architecture.md 4c: sagas that a crash leaves pending are found
\* by the recovery worker and driven to a final state.
CrashedSagaIsResolved ==
    \A s \in Sagas :
        (pc[s] = "crashed" /\ log[s] = "started") ~> log[s] \in {"completed", "rolled_back"}
=============================================================================
