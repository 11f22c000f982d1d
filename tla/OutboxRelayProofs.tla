-------------------------- MODULE OutboxRelayProofs --------------------------
(***************************************************************************)
(* Proofs about OutboxRelay, for any number of events and relays, any batch *)
(* size and attempt limit, and any number of faults.                        *)
(***************************************************************************)
EXTENDS OutboxRelay, FiniteSetTheorems, TLAPS

\* A row locked by an open transaction is still to be settled, no two
\* transactions lock it, and what is left of a batch is locked.
LocksHeld ==
    /\ \A r \in Relays, e \in Events :
          /\ out[r][e] # "none" => /\ rpc[r] = "tx" /\ e \notin published
                                   /\ attempts[e] < MaxAttempts
          /\ e \in batch[r] => out[r][e] = "polled"
          /\ \A q \in Relays \ {r} : out[r][e] = "none" \/ out[q][e] = "none"

\* Outcomes agree with the kind of event: a handled one is only drained if it
\* was processed before, and processed is published.
OutcomesAgree ==
    /\ processed = published
    /\ \A r \in Relays, e \in Events :
          /\ out[r][e] \in {"delivered", "failed"} => e \in Handled
          /\ out[r][e] = "drained" => e \in Unconsumed
          /\ out[r][e] = "delivered" /\ e \in OwnConn => ownApplied[e] >= 1

\* A collected action has not run, is in one relay's hands only, and belongs to
\* an event that this relay has delivered, or published if it drains.
ActionsPending ==
    \A r \in Relays : \A e \in actions[r] :
          /\ fired[e] = 0
          /\ rpc[r] = "tx" => out[r][e] = "delivered"
          /\ rpc[r] # "idle" /\ (rpc[r] # "tx" => e \in published)
          /\ \A q \in Relays \ {r} : e \notin actions[q]

IInv ==
    /\ TypeOK /\ LocksHeld /\ OutcomesAgree /\ ActionsPending
    /\ EventAccounted /\ OwnConnAtLeastOnce /\ ActionAtMostOnce

USE OutboxAssumption

LEMMA IInit == Init => IInv
<1> SUFFICES ASSUME Init PROVE IInv
  OBVIOUS
<1> USE DEF Init, NoOutcome
<1>1. TypeOK
  BY DEF TypeOK, Outcomes
<1>2. LocksHeld /\ OutcomesAgree /\ ActionsPending
  BY DEF LocksHeld, OutcomesAgree, ActionsPending
<1>3. EventAccounted /\ OwnConnAtLeastOnce /\ ActionAtMostOnce
  BY DEF EventAccounted, OwnConnAtLeastOnce, ActionAtMostOnce
<1> QED
  BY <1>1, <1>2, <1>3 DEF IInv

\* Steps that leave the settled part of the tables alone.
LEMMA Producers ==
    ASSUME IInv, NEW e \in Events, ProducerInsert(e) \/ ProducerCommit(e)
    PROVE  IInv'
<1> USE DEF ProducerInsert, ProducerCommit, tables
<1>1. created' \in [Events -> Nat]
  <2>1. CASE ProducerInsert(e)
    <3>1. Cardinality({f \in Events : created[f] > 0}) \in Nat
      <4>1. IsFiniteSet({f \in Events : created[f] > 0})
        BY FS_Subset
      <4> QED
        BY <4>1, FS_CardinalityType
    <3> QED
      BY <2>1, <3>1 DEF IInv, TypeOK
  <2>2. CASE ProducerCommit(e)
    BY <2>2 DEF IInv, TypeOK
  <2> QED
    BY <2>1, <2>2
<1>2. TypeOK'
  BY <1>1 DEF IInv, TypeOK
<1>3. LocksHeld' /\ OutcomesAgree' /\ ActionsPending'
  BY DEF IInv, LocksHeld, OutcomesAgree, ActionsPending
<1>4. EventAccounted' /\ OwnConnAtLeastOnce' /\ ActionAtMostOnce'
  BY DEF IInv, EventAccounted, OwnConnAtLeastOnce, ActionAtMostOnce
<1> QED
  BY <1>2, <1>3, <1>4 DEF IInv

LEMMA Poll ==
    ASSUME IInv, NEW r \in Relays, NEW rows \in SUBSET Events, PollOutbox(r, rows)
    PROVE  IInv'
<1> USE DEF PollOutbox, tables
<1>1. TypeOK'
  BY DEF IInv, TypeOK, Outcomes
<1>2. LocksHeld'
  BY DEF IInv, TypeOK, LocksHeld, Pollable, Locked
<1>3. OutcomesAgree'
  BY DEF IInv, TypeOK, OutcomesAgree
<1>4. ActionsPending'
  BY DEF IInv, TypeOK, ActionsPending, LocksHeld
<1>5. EventAccounted' /\ OwnConnAtLeastOnce' /\ ActionAtMostOnce'
  BY DEF IInv, EventAccounted, OwnConnAtLeastOnce, ActionAtMostOnce
<1> QED
  BY <1>1, <1>2, <1>3, <1>4, <1>5 DEF IInv

LEMMA Deliver ==
    ASSUME IInv, NEW r \in Relays, NEW e \in Events,
           \/ DeliverOk(r, e) \/ DeliverFails(r, e)
           \/ DrainUnconsumed(r, e) \/ RejectMisrouted(r, e)
    PROVE  IInv'
<1>0. (First(e, batch[r]) => e \notin processed) /\ ownApplied \in [Events -> Nat]
  BY DEF IInv, First, LocksHeld, OutcomesAgree, TypeOK
<1>1. \E o \in Outcomes \ {"none", "polled"} :
         /\ Outcome(r, e, o)
         /\ o \in {"delivered", "failed"} => e \in Handled
         /\ o = "drained" => e \in Unconsumed
         /\ o = "delivered" /\ e \in OwnConn => ownApplied'[e] >= 1
  <2>1. CASE DeliverOk(r, e)
    <3>1. Outcome(r, e, "delivered")
      BY <1>0, <2>1 DEF DeliverOk, Outcome
    <3>2. e \in Handled /\ (e \in OwnConn => ownApplied'[e] >= 1)
      BY <1>0, <2>1, <3>1 DEF DeliverOk, Outcome
    <3> QED
      BY <3>1, <3>2 DEF Outcomes
  <2>2. CASE DeliverFails(r, e)
    BY <2>2 DEF DeliverFails, Outcomes
  <2>3. CASE DrainUnconsumed(r, e)
    BY <2>3 DEF DrainUnconsumed, Outcomes
  <2>4. CASE RejectMisrouted(r, e)
    BY <2>4 DEF RejectMisrouted, Outcomes
  <2> QED
    BY <2>1, <2>2, <2>3, <2>4
<1>2. PICK o \in Outcomes \ {"none", "polled"} :
         /\ Outcome(r, e, o)
         /\ o \in {"delivered", "failed"} => e \in Handled
         /\ o = "drained" => e \in Unconsumed
         /\ o = "delivered" /\ e \in OwnConn => ownApplied'[e] >= 1
  BY <1>1
<1>3. /\ ownApplied' \in [Events -> Nat]
      /\ \A f \in Events : ownApplied'[f] >= ownApplied[f]
  BY <1>0 DEF DeliverOk, DeliverFails, DrainUnconsumed, RejectMisrouted
<1>4. /\ rpc[r] = "tx" /\ e \in batch[r] /\ out[r][e] = "polled" /\ e \notin published
      /\ batch' = [batch EXCEPT ![r] = @ \ {e}]
      /\ out' = [out EXCEPT ![r][e] = o]
      /\ actions' = IF o = "delivered" /\ e \in Deferred
                    THEN [actions EXCEPT ![r] = @ \cup {e}] ELSE actions
      /\ UNCHANGED <<created, visible, tables, fired, rpc, faults>>
  BY <1>2 DEF IInv, LocksHeld, Outcome, First
<1>5. TypeOK'
  BY <1>3, <1>4 DEF IInv, TypeOK, tables
<1>6. LocksHeld'
  BY <1>4 DEF IInv, TypeOK, LocksHeld, tables
<1>7. OutcomesAgree'
  BY <1>2, <1>3, <1>4 DEF IInv, TypeOK, OutcomesAgree, tables
<1>8. ActionsPending'
  <2>1. e \notin actions[r] /\ \A q \in Relays \ {r} : e \notin actions[q]
    BY <1>4 DEF IInv, ActionsPending, LocksHeld, TypeOK
  <2>2. fired[e] = 0
    BY <1>4 DEF IInv, ActionAtMostOnce, TypeOK
  <2> QED
    BY <1>4, <2>1, <2>2 DEF IInv, TypeOK, ActionsPending, tables
<1>9. EventAccounted' /\ OwnConnAtLeastOnce' /\ ActionAtMostOnce'
  <2>1. EventAccounted' /\ ActionAtMostOnce'
    BY <1>4 DEF IInv, EventAccounted, ActionAtMostOnce, tables
  <2>2. OwnConnAtLeastOnce'
    BY <1>3, <1>4 DEF IInv, TypeOK, OwnConnAtLeastOnce, tables
  <2> QED
    BY <2>1, <2>2
<1> QED
  BY <1>5, <1>6, <1>7, <1>8, <1>9 DEF IInv

\* The tables after the transaction of r has taken effect, whatever becomes of
\* its actions.
LEMMA Commit ==
    ASSUME IInv, NEW r \in Relays, CommitTx(r) \/ CommitUnseen(r)
    PROVE  IInv'
<1> DEFINE acked == {e \in Events : out[r][e] \in {"delivered", "drained"}}
<1>1. PICK to \in {"idle", "drain"}, kept \in SUBSET actions[r] :
         /\ LeaveTx(r, to, kept) /\ (to = "idle" => kept = {})
         /\ rpc[r] = "tx"
  BY DEF CommitTx, CommitUnseen
<1>2. ApplyTx(r) /\ UNCHANGED <<created, visible, ownApplied, fired>> /\ faults' \in 0..MaxFaults
  BY DEF CommitTx, CommitUnseen, Fault, IInv, TypeOK
<1>3. /\ published' = published \cup acked /\ processed' = processed \cup acked
      /\ \A e \in Events : /\ attempts'[e] = NewAttempts(r, e)
                           /\ applied'[e] = IF out[r][e] = "delivered" THEN applied[e] + 1 ELSE applied[e]
                           /\ dead'[e] = IF Exhausted(r, e) THEN dead[e] + 1 ELSE dead[e]
  BY <1>2 DEF ApplyTx, Marked
<1>4. \A e \in Events : out[r][e] # "none" => attempts[e] < MaxAttempts /\ e \notin published
  BY DEF IInv, LocksHeld
<1>5. TypeOK'
  <2>1. attempts' \in [Events -> 0..MaxAttempts]
    BY <1>2, <1>4 DEF ApplyTx, NewAttempts, IInv, TypeOK
  <2>2. applied' \in [Events -> Nat] /\ dead' \in [Events -> Nat]
    BY <1>2 DEF ApplyTx, IInv, TypeOK
  <2>3. published' \subseteq Events /\ processed' \subseteq Events
    BY <1>3 DEF IInv, TypeOK
  <2>4. /\ rpc' \in [Relays -> {"idle", "tx", "drain"}] /\ batch' \in [Relays -> SUBSET Events]
        /\ out' \in [Relays -> [Events -> Outcomes]] /\ actions' \in [Relays -> SUBSET Events]
    BY <1>1 DEF LeaveTx, NoOutcome, Outcomes, IInv, TypeOK
  <2> QED
    BY <1>2, <2>1, <2>2, <2>3, <2>4 DEF IInv, TypeOK
<1>6. /\ rpc' = [rpc EXCEPT ![r] = to] /\ batch' = [batch EXCEPT ![r] = {}]
      /\ out' = [out EXCEPT ![r] = [e \in Events |-> "none"]]
      /\ actions' = [actions EXCEPT ![r] = kept]
  BY <1>1 DEF LeaveTx, NoOutcome
<1>7. \A q \in Relays \ {r}, e \in Events : out[q][e] # "none" =>
         out[r][e] = "none" /\ e \notin acked /\ attempts'[e] = attempts[e]
  BY <1>3 DEF IInv, LocksHeld, NewAttempts
<1>8. LocksHeld'
  BY <1>3, <1>6, <1>7 DEF IInv, TypeOK, LocksHeld
<1>9. OutcomesAgree'
  BY <1>2, <1>3, <1>6 DEF IInv, TypeOK, OutcomesAgree
<1>10. ActionsPending'
  <2>1. \A e \in kept : e \in acked
    BY <1>1 DEF IInv, TypeOK, ActionsPending
  <2> QED
    BY <1>1, <1>2, <1>3, <1>6, <2>1 DEF IInv, TypeOK, ActionsPending
<1>11. EventAccounted'
  <2> SUFFICES ASSUME NEW e \in Events
               PROVE  (IF e \in published
                       THEN dead[e] = 0 /\ applied[e] = (IF e \in Handled THEN 1 ELSE 0)
                       ELSE applied[e] = 0 /\ dead[e] = (IF attempts[e] = MaxAttempts THEN 1 ELSE 0))'
    BY DEF EventAccounted
  <2>0. /\ out[r][e] \in Outcomes /\ attempts[e] \in 0..MaxAttempts /\ MaxAttempts \in Nat \ {0}
        /\ IF e \in published
           THEN dead[e] = 0 /\ applied[e] = (IF e \in Handled THEN 1 ELSE 0)
           ELSE applied[e] = 0 /\ dead[e] = (IF attempts[e] = MaxAttempts THEN 1 ELSE 0)
        /\ out[r][e] \in {"delivered", "failed"} => e \in Handled
        /\ out[r][e] = "drained" => e \notin Handled
    BY DEF IInv, TypeOK, EventAccounted, OutcomesAgree, Handled
  <2>1. CASE out[r][e] \in {"none", "polled"}
    BY <1>3, <2>0, <2>1 DEF NewAttempts, Exhausted
  <2>2. CASE out[r][e] \in {"delivered", "drained"}
    BY <1>3, <1>4, <2>0, <2>2 DEF NewAttempts, Exhausted
  <2>3. CASE out[r][e] = "failed"
    BY <1>3, <1>4, <2>0, <2>3 DEF NewAttempts, Exhausted
  <2>4. CASE out[r][e] = "misrouted"
    BY <1>3, <1>4, <2>0, <2>4 DEF NewAttempts, Exhausted
  <2> QED
    BY <2>0, <2>1, <2>2, <2>3, <2>4 DEF Outcomes
<1>12. OwnConnAtLeastOnce'
  BY <1>2, <1>3 DEF IInv, OwnConnAtLeastOnce, OutcomesAgree
<1>13. ActionAtMostOnce'
  BY <1>2, <1>3 DEF IInv, TypeOK, ActionAtMostOnce
<1> QED
  BY <1>5, <1>8, <1>9, <1>10, <1>11, <1>12, <1>13 DEF IInv

\* Steps that touch neither tables nor locks of others.
LEMMA Leave ==
    ASSUME IInv, NEW r \in Relays, AbortTx(r) \/ DrainDone(r) \/ DrainCrash(r)
    PROVE  IInv'
<1>1. /\ UNCHANGED <<created, visible, tables, ownApplied, fired>> /\ faults' \in 0..MaxFaults
      /\ rpc' = [rpc EXCEPT ![r] = "idle"]
      /\ actions' = [actions EXCEPT ![r] = {}]
  BY DEF AbortTx, LeaveTx, DrainDone, DrainCrash, Fault, IInv, TypeOK
<1>2. /\ batch' \in [Relays -> SUBSET Events] /\ out' \in [Relays -> [Events -> Outcomes]]
      /\ \A q \in Relays \ {r} : batch'[q] = batch[q] /\ out'[q] = out[q]
      /\ \A e \in Events : out'[r][e] = "none" /\ e \notin batch'[r]
  <2>1. CASE AbortTx(r)
    BY <2>1 DEF AbortTx, LeaveTx, NoOutcome, IInv, TypeOK, Outcomes
  <2>2. CASE DrainDone(r) \/ DrainCrash(r)
    BY <2>2 DEF DrainDone, DrainCrash, IInv, TypeOK, LocksHeld
  <2> QED
    BY <2>1, <2>2
<1>3. TypeOK'
  BY <1>1, <1>2 DEF IInv, TypeOK, tables
<1>4a. LocksHeld'
  BY <1>1, <1>2 DEF IInv, TypeOK, LocksHeld, tables
<1>4. LocksHeld' /\ OutcomesAgree'
  BY <1>1, <1>2, <1>4a DEF IInv, OutcomesAgree, tables
<1>5. ActionsPending'
  BY <1>1, <1>2 DEF IInv, TypeOK, ActionsPending, tables
<1>6. EventAccounted' /\ OwnConnAtLeastOnce' /\ ActionAtMostOnce'
  BY <1>1 DEF IInv, EventAccounted, OwnConnAtLeastOnce, ActionAtMostOnce, tables
<1> QED
  BY <1>3, <1>4, <1>5, <1>6 DEF IInv

LEMMA Fire ==
    ASSUME IInv, NEW r \in Relays, NEW e \in Events, FireAction(r, e)
    PROVE  IInv'
<1> USE DEF FireAction, First
<1>1. fired[e] = 0 /\ e \in published /\ \A q \in Relays \ {r} : e \notin actions[q]
  BY DEF IInv, ActionsPending
<1>2a. fired' \in [Events -> Nat] /\ faults' \in 0..MaxFaults
  BY DEF IInv, TypeOK, Fault
<1>2. TypeOK'
  BY <1>2a DEF IInv, TypeOK, tables
<1>3. LocksHeld' /\ OutcomesAgree'
  BY DEF IInv, LocksHeld, OutcomesAgree, tables
<1>4. ActionsPending'
  BY <1>1 DEF IInv, TypeOK, ActionsPending, tables
<1>5. EventAccounted' /\ OwnConnAtLeastOnce'
  BY DEF IInv, EventAccounted, OwnConnAtLeastOnce, tables
<1>6. ActionAtMostOnce'
  BY <1>1 DEF IInv, TypeOK, ActionAtMostOnce, tables
<1> QED
  BY <1>2, <1>3, <1>4, <1>5, <1>6 DEF IInv

LEMMA IStep == IInv /\ [Next]_vars => IInv'
<1> SUFFICES ASSUME IInv, [Next]_vars PROVE IInv'
  OBVIOUS
<1>1. CASE Next
  BY <1>1, Producers, Poll, Deliver, Commit, Leave, Fire DEF Next, RelayStep
<1>2. CASE UNCHANGED vars
  BY <1>2 DEF vars, IInv, TypeOK, LocksHeld, OutcomesAgree, ActionsPending, EventAccounted,
              OwnConnAtLeastOnce, ActionAtMostOnce
<1> QED
  BY <1>1, <1>2

\* The locks, outcomes and pending actions are as described in every state.
THEOREM Inductive == Spec => []IInv
BY IInit, IStep, PTL DEF Spec

\* The outbox tables and the relays keep their types.
THEOREM RelayTypeCorrect == Spec => []TypeOK
<1>1. IInv => TypeOK
  BY DEF IInv
<1> QED
  BY <1>1, Inductive, PTL

\* An event's writes are committed exactly once or it is dead-lettered once,
\* with any number of relays, batch sizes, aborts and unseen commits.
THEOREM ExactlyOnceOrDead == Spec => []EventAccounted
<1>1. IInv => EventAccounted
  BY DEF IInv
<1> QED
  BY <1>1, Inductive, PTL

\* A handler on a connection of its own has run for every published event.
THEOREM OwnConnRuns == Spec => []OwnConnAtLeastOnce
<1>1. IInv => OwnConnAtLeastOnce
  BY DEF IInv
<1> QED
  BY <1>1, Inductive, PTL

\* A post-commit action never runs twice, nor for an event that may be
\* delivered again.
THEOREM ActionsRunOnce == Spec => []ActionAtMostOnce
<1>1. IInv => ActionAtMostOnce
  BY DEF IInv
<1> QED
  BY <1>1, Inductive, PTL

\* No relay touches a row that another one has settled.
THEOREM SettledStays == Spec => SettledIsFinal
<1> DEFINE Kept(e) == /\ (e \in published') = (e \in published)
                      /\ attempts'[e] = attempts[e] /\ dead'[e] = dead[e] /\ applied'[e] = applied[e]
<1>1. ASSUME IInv, Next, NEW e \in Events, e \in published \/ attempts[e] = MaxAttempts
      PROVE  Kept(e)
  <2>1. \A r \in Relays : out[r][e] = "none"
    BY <1>1 DEF IInv, LocksHeld, TypeOK
  <2>2. ASSUME NEW r \in Relays, ApplyTx(r)
        PROVE  Kept(e)
    BY <2>1, <2>2 DEF ApplyTx, NewAttempts, Exhausted
  <2>3. (\E r \in Relays : ApplyTx(r)) \/ UNCHANGED tables
    <3>1. \A f \in Events : ProducerInsert(f) \/ ProducerCommit(f) => UNCHANGED tables
      BY DEF ProducerInsert, ProducerCommit
    <3>2. \A r \in Relays : CommitTx(r) \/ CommitUnseen(r) => ApplyTx(r)
      BY DEF CommitTx, CommitUnseen
    <3>3. \A r \in Relays : DrainDone(r) \/ AbortTx(r) \/ DrainCrash(r) => UNCHANGED tables
      BY DEF DrainDone, AbortTx, DrainCrash
    <3>4. \A r \in Relays, rows \in SUBSET Events : PollOutbox(r, rows) => UNCHANGED tables
      BY DEF PollOutbox
    <3>5. \A r \in Relays, f \in Events :
             \/ DeliverOk(r, f) \/ DeliverFails(r, f) \/ DrainUnconsumed(r, f)
             \/ RejectMisrouted(r, f) \/ FireAction(r, f)
             => UNCHANGED tables
      BY DEF DeliverOk, DeliverFails, DrainUnconsumed, RejectMisrouted, FireAction, Outcome
    <3> QED
      BY <1>1, <3>1, <3>2, <3>3, <3>4, <3>5 DEF Next, RelayStep
  <2>4. UNCHANGED tables => Kept(e)
    BY DEF tables
  <2> QED
    BY <2>2, <2>3, <2>4
<1>2. IInv /\ [Next]_vars =>
         [\A e \in Events : e \in published \/ attempts[e] = MaxAttempts => Kept(e)]_vars
  BY <1>1 DEF vars
<1> QED
  BY <1>2, Inductive, PTL DEF Spec, SettledIsFinal
=============================================================================
