--------------------------- MODULE TriStackProofs ---------------------------
(***************************************************************************)
(* Proofs about TriStack, for any sets of calls and cron instances and any  *)
(* number of failures.                                                      *)
(***************************************************************************)
EXTENDS TriStack, TLAPS

\* Until its PG transaction ends, a call has no row, its items are young, and
\* what it has written is still there.
BeforeCommit ==
    /\ \A s \in Sagas : pc[s] \in {"idle"} \cup Writing =>
        s \notin aged /\ s \notin indoubt /\ mem[s] = "none"
    /\ \A s \in Artifacts : pc[s] \in Writing => s \in objs
    /\ \A s \in Sagas : pc[s] = "mongo" => s \in docs

\* Only a failed call leaves a transaction in doubt, and it is settled before
\* the orphan-age window ends.
InDoubtIsYoung ==
    \A s \in indoubt :
        pc[s] \in RollingBack \cup {"failed", "crashed"} /\ s \notin aged /\ mem[s] = "none"

\* The row of saga_execution_log follows the call.
LogFollowsCall ==
    \A s \in Sagas :
        /\ pc[s] \in {"idle", "called"} => log[s] = "none"
        /\ pc[s] \in {"started", "mongo", "committed", "rbMongo", "rbPg", "rbLog"} =>
            log[s] = "started"
        /\ pc[s] = "logged" => log[s] # "rolled_back"

\* What the collector is about to delete is old and has no row; nothing can
\* give it one any more.
TodoIsGarbage ==
    /\ gcPc = "refs" => gcTodo \subseteq aged
    /\ gcPc \in {"delete", "minioDelete"} =>
        \A s \in gcTodo : s \in aged /\ mem[s] = "none"

StoresInv ==
    /\ TypeOK /\ BeforeCommit /\ InDoubtIsYoung /\ LogFollowsCall /\ TodoIsGarbage
    /\ CommittedIsWhole /\ RecordedSagaHasRow

\* With a lock that outlasts a tick, one instance ticks at a time, and what it
\* has listed is not recovered yet.
RecoveryInv ==
    /\ \A w \in Workers : listed[w] # {} => w \in ticking
    /\ ~LockExpires => \A w \in ticking : holder = w
    /\ \A w \in Workers : \A s \in listed[w] : log[s] \in {"pg_committed", "completed"}
    /\ \A s \in Sagas : recovered[s] > 0 => log[s] = "completed"
    /\ ~LockExpires => \A w \in Workers : \A s \in listed[w] : recovered[s] = 0
    /\ RecoveredOnce
-----------------------------------------------------------------------------
\* The sagas' own steps keep the stores' invariant.
LEMMA SagaKeepsStores ==
    ASSUME StoresInv, SagaNext, UNCHANGED <<recVars, gcVars>>
    PROVE  StoresInv'
  <1> USE SagaAssumption DEF PcStates, LogStates, MemStates, Writing, Committed,
        RollingBack,
          Ended, StoresInv, TypeOK, SagaTypeOK, RecoveryTypeOK, GcTypeOK, GcStates,
          BeforeCommit, InDoubtIsYoung, LogFollowsCall, TodoIsGarbage,
          CommittedIsWhole, RecordedSagaHasRow, recVars, gcVars
  <1>0. PICK s \in Sagas : SagaStep(s) \/ SettleInDoubt(s) \/ Crash(s) \/ Age(s)
    BY DEF SagaNext
  <1>1. CASE StoreArtifact(s)
    BY <1>1 DEF StoreArtifact, Goto, Fault, NoFault
  <1>2. CASE StoreMemory(s)
    BY <1>2 DEF StoreMemory, Goto, NoFault
  <1>3. CASE QuarantineIfNeeded(s)
    BY <1>3 DEF QuarantineIfNeeded, Goto, NoFault
  <1>4. CASE SagaLogStart(s)
    BY <1>4 DEF SagaLogStart, Goto, LogTo, Raised, Fault, NoFault
  <1>5. CASE StoreEpisodicMongodb(s)
    BY <1>5 DEF StoreEpisodicMongodb, Goto, Fault, NoFault
  <1>6. CASE StoreSemanticGraphPg(s)
    BY <1>6 DEF StoreSemanticGraphPg, Goto, Fault, NoFault
  <1>7. CASE SettleInDoubt(s)
    BY <1>7 DEF SettleInDoubt
  <1>8. CASE LogPgCommitted(s)
    BY <1>8 DEF LogPgCommitted, Goto, LogTo, Fault, NoFault
  <1>9. CASE LogCompleted(s)
    BY <1>9 DEF LogCompleted, Goto, LogTo, Fault, NoFault
  <1>10. CASE RollbackMongo(s)
    BY <1>10 DEF RollbackMongo, Goto, Fault, NoFault
  <1>11. CASE RollbackPg(s)
    BY <1>11 DEF RollbackPg, Goto, Fault, NoFault
  <1>12. CASE RollbackLog(s)
    BY <1>12 DEF RollbackLog, Goto, LogTo, Raised, Fault, NoFault
  <1>13. CASE RemoveObject(s)
    BY <1>13 DEF RemoveObject, Goto, Fault, NoFault
  <1>14. CASE Crash(s)
    BY <1>14 DEF Crash, Fault
  <1>15. CASE Age(s)
    BY <1>15 DEF Age
  <1> QED
    BY <1>0, <1>1, <1>2, <1>3, <1>4, <1>5, <1>6, <1>7, <1>8, <1>9, <1>10, <1>11,
          <1>12, <1>13, <1>14, <1>15 DEF SagaStep

\* The recovery tick writes nothing but its own state and the saga log.
LEMMA RecoveryKeepsStores ==
    ASSUME StoresInv, RecoveryNext, UNCHANGED gcVars
    PROVE  StoresInv'
  <1> USE SagaAssumption, RecoveryAssumption DEF PcStates, LogStates, MemStates,
        Writing, Committed, RollingBack,
          Ended, StoresInv, TypeOK, SagaTypeOK, RecoveryTypeOK, GcTypeOK, GcStates,
          BeforeCommit, InDoubtIsYoung, LogFollowsCall, TodoIsGarbage,
          CommittedIsWhole, RecordedSagaHasRow, sagaVars, gcVars
  <1>1. ASSUME NEW s \in Sagas, Overdue(s) PROVE StoresInv'
    BY <1>1 DEF Overdue
  <1>2. ASSUME NEW w \in Workers, RecoveryStart(w) PROVE StoresInv'
    BY <1>2 DEF RecoveryStart
  <1>3. ASSUME NEW w \in Workers, NEW s \in Sagas, RecoverOne(w, s) PROVE StoresInv'
    BY <1>3 DEF RecoverOne, Fault, NoFault
  <1>4. ASSUME NEW w \in Workers, RecoveryEnd(w) PROVE StoresInv'
    BY <1>4 DEF RecoveryEnd, Release
  <1>5. ASSUME NEW w \in Workers, RecoveryCrash(w) PROVE StoresInv'
    BY <1>5 DEF RecoveryCrash, Fault
  <1>6. CASE LockExpiry
    BY <1>6 DEF LockExpiry
  <1> QED
    BY <1>1, <1>2, <1>3, <1>4, <1>5, <1>6 DEF RecoveryNext, RecoveryStep

\* The collector only deletes garbage.
LEMMA GcKeepsStores ==
    ASSUME StoresInv, GcNext, UNCHANGED recVars
    PROVE  StoresInv'
  <1> USE SagaAssumption DEF PcStates, LogStates, MemStates, Writing, Committed,
        RollingBack,
          Ended, StoresInv, TypeOK, SagaTypeOK, RecoveryTypeOK, GcTypeOK, GcStates,
          BeforeCommit, InDoubtIsYoung, LogFollowsCall, TodoIsGarbage,
          CommittedIsWhole, RecordedSagaHasRow, sagaVars, recVars
  <1>1. CASE GcCandidates
    BY <1>1 DEF GcCandidates, OldDocs
  <1>2. CASE GcFetchPgRefs
    <2>1. gcFull' \in BOOLEAN
      BY <1>2, Zenon DEF GcFetchPgRefs
    <2> QED
      BY <1>2, <2>1 DEF GcFetchPgRefs, GcGoto, PgRefs, Fault, NoFault
  <1>3. CASE GcDeleteDone
    BY <1>3 DEF GcDeleteDone, GcGoto
  <1>4. CASE GcFetchMinioRefs
    BY <1>4 DEF GcFetchMinioRefs, GcGoto, AfterMinio, PgRefs, Fault, NoFault
  <1>5. CASE GcMinioDone
    BY <1>5 DEF GcMinioDone, GcGoto, AfterMinio
  <1>6. CASE GcReverseCandidates
    BY <1>6 DEF GcReverseCandidates, GcGoto, Fault, NoFault
  <1>7. CASE GcReverseDone
    BY <1>7 DEF GcReverseDone, GcGoto
  <1>8. CASE GcCrash
    <2>1. gcFull' \in BOOLEAN
      BY <1>8, Zenon DEF GcCrash
    <2> QED
      BY <1>8, <2>1 DEF GcCrash, Fault
  <1>9. ASSUME NEW s \in Sagas, GcDeleteDoc(s) PROVE StoresInv'
    BY <1>9 DEF GcDeleteDoc, Fault, NoFault
  <1>10. ASSUME NEW s \in Sagas, GcDeleteObject(s) PROVE StoresInv'
    BY <1>10 DEF GcDeleteObject, Fault, NoFault
  <1>11. ASSUME NEW s \in Sagas, GcReverseOne(s) PROVE StoresInv'
    BY <1>11 DEF GcReverseOne, Fault, NoFault
  <1> QED
    BY <1>1, <1>2, <1>3, <1>4, <1>5, <1>6, <1>7, <1>8, <1>9, <1>10, <1>11 DEF GcNext,
          GcStep

\* Empty stores are consistent.
LEMMA StoresInit == Init => StoresInv
  <1>1. Init => gcFull \in BOOLEAN
    BY Zenon DEF Init, GcInit
  <1> QED
    BY <1>1, SagaAssumption, RecoveryAssumption
     DEF Init, SagaInit, RecoveryInit, GcInit, PcStates, LogStates, MemStates,
           Writing, Committed, RollingBack, Ended,
         StoresInv, TypeOK, SagaTypeOK, RecoveryTypeOK, GcTypeOK, GcStates,
         BeforeCommit, InDoubtIsYoung,
         LogFollowsCall, TodoIsGarbage, CommittedIsWhole, RecordedSagaHasRow

\* Every step of any of the three writers keeps the stores consistent.
LEMMA StoresStep == StoresInv /\ [Next]_vars => StoresInv'
  <1> SUFFICES ASSUME StoresInv, [Next]_vars PROVE StoresInv'
    OBVIOUS
  <1>1. CASE Next
    BY <1>1, SagaKeepsStores, RecoveryKeepsStores, GcKeepsStores DEF Next
  <1>2. CASE UNCHANGED vars
    BY <1>2 DEF vars, sagaVars, recVars, gcVars, PcStates, LogStates, MemStates,
          Writing, Committed,
                RollingBack, Ended,
                StoresInv, TypeOK, SagaTypeOK, RecoveryTypeOK, GcTypeOK, GcStates,
                BeforeCommit, InDoubtIsYoung,
                LogFollowsCall, TodoIsGarbage, CommittedIsWhole, RecordedSagaHasRow
  <1> QED
    BY <1>1, <1>2

\* The inductive invariant: the stores, the log and the collector's work list
\* agree with where each call is.
THEOREM StoresAreConsistent == Spec => []StoresInv
  BY StoresInit, StoresStep, PTL DEF Spec

\* Every variable of the stores, the recovery tick and the collector keeps its
\* type, whatever fails: in particular saga_execution_log only ever holds states
\* that its CHECK constraint admits.
THEOREM TypeCorrect == Spec => []TypeOK
  BY StoresAreConsistent, PTL DEF StoresInv

\* The collector and the rollback never damage a committed memory.
THEOREM CommittedStaysWhole == Spec => []CommittedIsWhole
  BY StoresAreConsistent, PTL DEF StoresInv

\* The log never claims a row that PG does not hold.
THEOREM LogIsTruthful == Spec => []RecordedSagaHasRow
  BY StoresAreConsistent, PTL DEF StoresInv

-----------------------------------------------------------------------------
\* A saga's own step never takes its row back from a state the tick relies on.
LEMMA SagaKeepsRecovered ==
    ASSUME StoresInv, RecoveryInv, SagaNext, UNCHANGED recVars
    PROVE  RecoveryInv'
  <1>1. /\ UNCHANGED recVars
        /\ \A s \in Sagas :
             /\ log[s] \in {"pg_committed", "completed"} => log'[s] \in {"pg_committed", "completed"}
             /\ log[s] = "completed" => log'[s] = "completed"
    BY DEF SagaNext, SagaStep, StoreArtifact, StoreMemory, QuarantineIfNeeded,
          SagaLogStart,
           StoreEpisodicMongodb, StoreSemanticGraphPg, LogPgCommitted, LogCompleted,
           RollbackMongo,
           RollbackPg, RollbackLog, RemoveObject, SettleInDoubt, Crash, Age, Goto,
           LogTo,
           StoresInv, TypeOK, SagaTypeOK, LogFollowsCall
  <1> QED
    BY <1>1 DEF RecoveryInv, RecoveredOnce, recVars, StoresInv, TypeOK, RecoveryTypeOK

\* One instance at a time handles a row, and only once.
LEMMA RecoveryKeepsRecovered ==
    ASSUME StoresInv, RecoveryInv, RecoveryNext
    PROVE  RecoveryInv'
  <1> USE RecoveryAssumption
      DEF StoresInv, TypeOK, SagaTypeOK, RecoveryTypeOK, RecoveryInv, RecoveredOnce,
            sagaVars
  <1>1. ASSUME NEW s \in Sagas, Overdue(s) PROVE RecoveryInv'
    BY <1>1 DEF Overdue
  <1>2. ASSUME NEW w \in Workers, RecoveryStart(w) PROVE RecoveryInv'
    BY <1>2 DEF RecoveryStart
  <1>3. ASSUME NEW w \in Workers, NEW s \in Sagas, RecoverOne(w, s) PROVE RecoveryInv'
    BY <1>3 DEF RecoverOne
  <1>4. ASSUME NEW w \in Workers, RecoveryEnd(w) PROVE RecoveryInv'
    BY <1>4 DEF RecoveryEnd, Release
  <1>5. ASSUME NEW w \in Workers, RecoveryCrash(w) PROVE RecoveryInv'
    BY <1>5 DEF RecoveryCrash
  <1>6. CASE LockExpiry
    BY <1>6 DEF LockExpiry
  <1> QED
    BY <1>1, <1>2, <1>3, <1>4, <1>5, <1>6 DEF RecoveryNext, RecoveryStep

\* Before the first tick nothing is listed or recovered.
LEMMA RecoveryInvInit == Init => RecoveryInv
  BY DEF Init, SagaInit, RecoveryInit, RecoveryInv, RecoveredOnce

\* Steps of sagas, ticks and the collector keep the recovery invariant.
LEMMA RecoveryInvStep == StoresInv /\ RecoveryInv /\ [Next]_vars => RecoveryInv'
  <1> SUFFICES ASSUME StoresInv, RecoveryInv, [Next]_vars PROVE RecoveryInv'
    OBVIOUS
  <1>1. CASE SagaNext /\ UNCHANGED <<recVars, gcVars>>
    BY <1>1, SagaKeepsRecovered
  <1>2. CASE RecoveryNext
    BY <1>2, RecoveryKeepsRecovered
  <1>3. CASE GcNext /\ UNCHANGED recVars
    <2>1. UNCHANGED <<log, recVars>>
      BY <1>3 DEF GcNext, GcStep, GcCandidates, GcFetchPgRefs, GcDeleteDone,
            GcFetchMinioRefs,
                  GcMinioDone, GcReverseCandidates, GcReverseDone, GcCrash, GcDeleteDoc,
                  GcDeleteObject, GcReverseOne, sagaVars
    <2> QED
      BY <2>1 DEF RecoveryInv, RecoveredOnce, recVars
  <1>4. CASE UNCHANGED vars
    BY <1>4 DEF RecoveryInv, RecoveredOnce, vars, recVars, sagaVars
  <1> QED
    BY <1>1, <1>2, <1>3, <1>4 DEF Next

\* However many cron instances run and whichever of them die, a saga gets one
\* saga_recovered event at most, if no tick outlives its lock.
THEOREM RecoveredAtMostOnce == Spec => []RecoveredOnce
  <1>1. Spec => []RecoveryInv
    BY StoresAreConsistent, RecoveryInvInit, RecoveryInvStep, PTL DEF Spec
  <1> QED
    BY <1>1, PTL DEF RecoveryInv

\* No step changes a final log row.
LEMMA LogStep ==
    ASSUME StoresInv, [Next]_vars, NEW s \in Sagas, log[s] \in {"completed",
    "rolled_back"}
    PROVE  log'[s] = log[s]
  <1> USE DEF StoresInv, TypeOK, SagaTypeOK, LogFollowsCall
  <1>1. CASE SagaNext
    BY <1>1 DEF SagaNext, SagaStep, StoreArtifact, StoreMemory, QuarantineIfNeeded,
          SagaLogStart,
           StoreEpisodicMongodb, StoreSemanticGraphPg, LogPgCommitted, LogCompleted,
           RollbackMongo,
           RollbackPg, RollbackLog, RemoveObject, SettleInDoubt, Crash, Age, Goto, LogTo
  <1>2. CASE RecoveryNext
    BY <1>2 DEF RecoveryNext, RecoveryStep, Overdue, RecoveryStart, RecoverOne,
          RecoveryEnd,
           RecoveryCrash, LockExpiry, sagaVars
  <1>3. CASE GcNext
    BY <1>3 DEF GcNext, GcStep, GcCandidates, GcFetchPgRefs, GcDeleteDone,
          GcFetchMinioRefs,
           GcMinioDone, GcReverseCandidates, GcReverseDone, GcCrash, GcDeleteDoc,
           GcDeleteObject, GcReverseOne, sagaVars
  <1>4. CASE UNCHANGED vars
    BY <1>4 DEF vars, sagaVars
  <1> QED
    BY <1>1, <1>2, <1>3, <1>4 DEF Next

\* Two writers without a common lock, the saga and the recovery tick, never take
\* a row of saga_execution_log out of a final state.
THEOREM FinalStatesAreFinal == Spec => FinalLogIsFinal
  <1>1. StoresInv /\ [Next]_vars =>
          [\A s \in Sagas : log[s] \in {"completed",
          "rolled_back"} => log'[s] = log[s]]_vars
    BY LogStep
  <1> QED
    BY <1>1, StoresAreConsistent, PTL DEF Spec, FinalLogIsFinal
=============================================================================
