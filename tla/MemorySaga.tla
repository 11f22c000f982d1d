----------------------------- MODULE MemorySaga -----------------------------
(***************************************************************************)
(* The write path of nce/orchestrators/memory.py: store_artifact and        *)
(* store_memory, the saga that writes one memory to MinIO, MongoDB and      *)
(* PostgreSQL and logs its progress in saga_execution_log.                  *)
(*                                                                          *)
(* A saga is one call.  Its Mongo document, its MinIO object and its row    *)
(* of `memories' carry fresh identifiers, so each store is modelled by the  *)
(* set of sagas whose item it holds.  Payload text, embeddings, PII         *)
(* redaction and the Redis cache (advisory: its errors are swallowed and    *)
(* nothing reads it back into another store) are left out.                  *)
(*                                                                          *)
(* Every call to a store may fail.  A failed insert, commit or upload may   *)
(* have taken effect on the server or not.  A failure, like a crash of the  *)
(* calling task, is paid for from a budget of MaxFaults.                    *)
(***************************************************************************)
EXTENDS Naturals

CONSTANTS
    Sagas,      \* calls of store_memory / store_artifact
    Artifacts,  \* the calls that come through store_artifact
    MaxFaults   \* bound: store errors and crashes in one behaviour

ASSUME SagaAssumption ==
    /\ Artifacts \subseteq Sagas
    /\ MaxFaults \in Nat

VARIABLES
    pc,      \* where the call is
    log,     \* its row in saga_execution_log
    docs,    \* sagas whose document is in MongoDB
    objs,    \* sagas whose object is in MinIO
    mem,     \* its row in memories: none, live (valid_to IS NULL) or retired
    indoubt, \* sagas whose COMMIT was sent and not answered
    aged,    \* sagas whose items are older than GC_ORPHAN_AGE_SECONDS
    faults   \* failures so far

sagaVars == <<pc, log, docs, objs, mem, indoubt, aged, faults>>

LogStates == {"none", "started", "pg_committed", "completed", "rolled_back"}

MemStates == {"none", "live", "retired"}

\* After the first external write and before the outcome of the PG transaction.
Writing == {"called", "started", "mongo"}

\* The PG transaction committed and the caller knows it.
Committed == {"committed", "logged", "done"}

RollingBack == {"rbMongo", "rbPg", "rbLog", "rmObj"}

\* The call has returned, raised or died.
Ended == {"done", "quarantined", "failed", "crashed"}

PcStates == {"idle"} \cup Writing \cup Committed \cup RollingBack \cup Ended

SagaInit ==
    /\ pc = [s \in Sagas |-> "idle"]
    /\ log = [s \in Sagas |-> "none"]
    /\ docs = {}
    /\ objs = {}
    /\ mem = [s \in Sagas |-> "none"]
    /\ indoubt = {}
    /\ aged = {}
    /\ faults = 0

-----------------------------------------------------------------------------
Fault == faults < MaxFaults /\ faults' = faults + 1

NoFault == faults' = faults

Goto(s, from, to) == pc[s] = from /\ pc' = [pc EXCEPT ![s] = to]

LogTo(s, state) == log' = [log EXCEPT ![s] = state]

\* Where an exception of store_memory goes: store_artifact's except clause
\* removes the MinIO object, a plain call just raises.
Raised(s) == IF s \in Artifacts THEN "rmObj" ELSE "failed"

-----------------------------------------------------------------------------
\* store_artifact uploads the file first; a failed upload raises before the
\* try block, so nothing is removed.
StoreArtifact(s) ==
    /\ s \in Artifacts
    /\ \/ /\ Goto(s, "idle", "called")
          /\ objs' = objs \cup {s}
          /\ NoFault
       \/ /\ Goto(s, "idle", "failed")
          /\ objs' \in {objs, objs \cup {s}}
          /\ Fault
    /\ UNCHANGED <<log, docs, mem, indoubt, aged>>

StoreMemory(s) ==
    /\ s \notin Artifacts
    /\ Goto(s, "idle", "called")
    /\ NoFault
    /\ UNCHANGED <<log, docs, objs, mem, indoubt, aged>>

\* R below the actor's threshold: the request is parked in the active-learning
\* queue.  store_artifact then fails on res["payload_ref"], outside its try.
QuarantineIfNeeded(s) ==
    /\ Goto(s, "called", "quarantined")
    /\ NoFault
    /\ UNCHANGED <<log, docs, objs, mem, indoubt, aged>>

\* The failing branch also stands for an error while scoring or quarantining.
SagaLogStart(s) ==
    /\ \/ /\ Goto(s, "called", "started")
          /\ LogTo(s, "started")
          /\ NoFault
       \/ /\ Goto(s, "called", Raised(s))
          /\ log' \in {log, [log EXCEPT ![s] = "started"]}
          /\ Fault
    /\ UNCHANGED <<docs, objs, mem, indoubt, aged>>

\* On failure inserted_mongo_id is still None, so the Mongo and PG steps of the
\* rollback are skipped even if the server applied the insert.
StoreEpisodicMongodb(s) ==
    /\ \/ /\ Goto(s, "started", "mongo")
          /\ docs' = docs \cup {s}
          /\ NoFault
       \/ /\ Goto(s, "started", "rbLog")
          /\ docs' \in {docs, docs \cup {s}}
          /\ Fault
    /\ UNCHANGED <<log, objs, mem, indoubt, aged>>

\* Mutant: an error of the PG transaction is swallowed.
StoreSemanticGraphPg_Swallow(s) ==
    /\ Goto(s, "mongo", "committed")
    /\ \/ mem' = [mem EXCEPT ![s] = "live"] /\ NoFault
       \/ UNCHANGED mem /\ Fault
    /\ UNCHANGED <<log, docs, objs, indoubt, aged>>

\* One PG transaction: the memories row, the graph, the store_memory event and
\* the memory.stored outbox row.  On failure (embedding, SQL, connection) the
\* transaction is aborted, or its COMMIT is left in doubt.
StoreSemanticGraphPg(s) ==
    /\ \/ /\ Goto(s, "mongo", "committed")
          /\ mem' = [mem EXCEPT ![s] = "live"]
          /\ NoFault
          /\ UNCHANGED indoubt
       \/ /\ Goto(s, "mongo", "rbMongo")
          /\ indoubt' \in {indoubt, indoubt \cup {s}}
          /\ Fault
          /\ UNCHANGED mem
    /\ UNCHANGED <<log, docs, objs, aged>>

\* The server ends a transaction whose client no longer listens.
SettleInDoubt(s) ==
    /\ s \in indoubt
    /\ indoubt' = indoubt \ {s}
    /\ mem' \in {mem, [mem EXCEPT ![s] = "live"]}
    /\ UNCHANGED <<pc, log, docs, objs, aged, faults>>

\* Failures of the two log updates after the commit are only logged.
LogPgCommitted(s) ==
    /\ Goto(s, "committed", "logged")
    /\ \/ LogTo(s, "pg_committed") /\ NoFault
       \/ UNCHANGED log /\ Fault
    /\ UNCHANGED <<docs, objs, mem, indoubt, aged>>

LogCompleted(s) ==
    /\ Goto(s, "logged", "done")
    /\ \/ LogTo(s, "completed") /\ NoFault
       \/ UNCHANGED log /\ Fault
    /\ UNCHANGED <<docs, objs, mem, indoubt, aged>>

-----------------------------------------------------------------------------
\* _apply_rollback_on_failure: each step is tried once and its failure is
\* swallowed.  memory_id and pg_committed are never set when it runs, so its
\* second step is always the safety cleanup by payload_ref.
RollbackMongo(s) ==
    /\ Goto(s, "rbMongo", "rbPg")
    /\ \/ docs' = docs \ {s} /\ NoFault
       \/ UNCHANGED docs /\ Fault
    /\ UNCHANGED <<log, objs, mem, indoubt, aged>>

\* The UPDATE sees committed rows only: an in-doubt row escapes it.
RollbackPg(s) ==
    /\ Goto(s, "rbPg", "rbLog")
    /\ \/ /\ mem' = [mem EXCEPT ![s] = IF @ = "live" THEN "retired" ELSE @]
          /\ NoFault
       \/ UNCHANGED mem /\ Fault
    /\ UNCHANGED <<log, docs, objs, indoubt, aged>>

\* Mutant: a state the table's CHECK constraint does not know.
RollbackLog_UnknownState(s) ==
    /\ Goto(s, "rbLog", Raised(s))
    /\ LogTo(s, "failed")
    /\ NoFault
    /\ UNCHANGED <<docs, objs, mem, indoubt, aged>>

RollbackLog(s) ==
    /\ Goto(s, "rbLog", Raised(s))
    /\ \/ LogTo(s, "rolled_back") /\ NoFault
       \/ UNCHANGED log /\ Fault
    /\ UNCHANGED <<docs, objs, mem, indoubt, aged>>

RemoveObject(s) ==
    /\ Goto(s, "rmObj", "failed")
    /\ \/ objs' = objs \ {s} /\ NoFault
       \/ UNCHANGED objs /\ Fault
    /\ UNCHANGED <<log, docs, mem, indoubt, aged>>

-----------------------------------------------------------------------------
\* The process dies or the task is cancelled (CancelledError is no Exception):
\* no rollback runs.  A transaction in flight may still commit.
Crash(s) ==
    /\ pc[s] \notin Ended \cup {"idle"}
    /\ pc' = [pc EXCEPT ![s] = "crashed"]
    /\ indoubt' \in IF pc[s] = "mongo" THEN {indoubt, indoubt \cup {s}} ELSE {indoubt}
    /\ Fault
    /\ UNCHANGED <<log, docs, objs, mem, aged>>

\* The orphan-age window (24 hours by default) passes.  Assumed: it is longer
\* than the time from a call's first write to the end of its PG transaction.
Age(s) ==
    /\ s \notin aged
    /\ pc[s] \notin Writing \cup {"idle"}
    /\ s \notin indoubt
    /\ aged' = aged \cup {s}
    /\ UNCHANGED <<pc, log, docs, objs, mem, indoubt, faults>>

\* The steps the caller's own task takes.
SagaStep(s) ==
    \/ StoreArtifact(s) \/ StoreMemory(s) \/ QuarantineIfNeeded(s)
    \/ SagaLogStart(s) \/ StoreEpisodicMongodb(s) \/ StoreSemanticGraphPg(s)
    \/ LogPgCommitted(s) \/ LogCompleted(s)
    \/ RollbackMongo(s) \/ RollbackPg(s) \/ RollbackLog(s) \/ RemoveObject(s)

SagaNext ==
    \E s \in Sagas : SagaStep(s) \/ SettleInDoubt(s) \/ Crash(s) \/ Age(s)

SagaTypeOK ==
    /\ pc \in [Sagas -> PcStates]
    /\ log \in [Sagas -> LogStates]
    /\ docs \subseteq Sagas
    /\ objs \subseteq Artifacts
    /\ mem \in [Sagas -> MemStates]
    /\ indoubt \subseteq Sagas
    /\ aged \subseteq Sagas
    /\ faults \in 0..MaxFaults
=============================================================================
