---------------------------- MODULE OutboxRelay -----------------------------
(***************************************************************************)
(* The transactional outbox: nce/events/bus.py and memory.py insert rows    *)
(* into outbox_events, nce/outbox_relay.py delivers them.  The relay runs   *)
(* in the cron process and as a loop of the MCP server, so several relays   *)
(* may poll at once; FOR UPDATE SKIP LOCKED keeps their batches disjoint.   *)
(*                                                                          *)
(* A relay pass is one PG transaction over a batch.  What it writes is      *)
(* determined by the outcome of each event, so the open transaction of a    *)
(* relay is the function out[r] from the events it has locked to outcomes,  *)
(* applied to the tables at COMMIT and forgotten otherwise.                 *)
(***************************************************************************)
EXTENDS Naturals, FiniteSets

CONSTANTS
    Events,       \* outbox rows
    Relays,       \* concurrent relay loops
    OwnConn,      \* events with a handler that writes on a connection of its own
    Deferred,     \* events whose handlers return a post-commit action
    Unconsumed,   \* no subscriber, and the catalogue declares none
    Misrouted,    \* no subscriber although one is declared
    MaxAttempts,  \* MAX_OUTBOX_ATTEMPTS
    BatchSize,    \* LIMIT of the poll
    MaxFaults     \* bound: lost transactions, crashes and failing actions

ASSUME OutboxAssumption ==
    /\ IsFiniteSet(Events)
    /\ OwnConn \subseteq Events /\ Deferred \subseteq Events
    /\ Unconsumed \subseteq Events /\ Misrouted \subseteq Events
    /\ Unconsumed \cap Misrouted = {}
    /\ (OwnConn \cup Deferred) \cap (Unconsumed \cup Misrouted) = {}
    /\ MaxAttempts \in Nat \ {0}
    /\ BatchSize \in Nat \ {0}
    /\ MaxFaults \in Nat

VARIABLES
    created,     \* rank of created_at, 0 before the insert
    visible,     \* events whose producing transaction has committed
    published,   \* rows with published_at
    attempts,    \* attempt_count
    processed,   \* event ids in processed_outbox_events
    applied,     \* times the handlers' writes on the relay's connection committed
    ownApplied,  \* times the handlers' writes on their own connection committed
    dead,        \* dead_letter_queue rows of an event
    fired,       \* times the event's post-commit action ran
    rpc,         \* idle, tx (transaction open) or drain (firing actions)
    batch,       \* polled events not delivered yet
    out,         \* outcomes so far in the open transaction
    actions,     \* events whose post-commit actions were collected
    faults

vars == <<created, visible, published, attempts, processed, applied, ownApplied,
          dead, fired, rpc, batch, out, actions, faults>>

tables == <<published, attempts, processed, applied, dead>>

Handled == Events \ (Unconsumed \cup Misrouted)

Outcomes == {"none", "polled", "delivered", "drained", "failed", "misrouted"}

NoOutcome == [e \in Events |-> "none"]

Init ==
    /\ created = [e \in Events |-> 0]
    /\ visible = {}
    /\ published = {}
    /\ attempts = [e \in Events |-> 0]
    /\ processed = {}
    /\ applied = [e \in Events |-> 0]
    /\ ownApplied = [e \in Events |-> 0]
    /\ dead = [e \in Events |-> 0]
    /\ fired = [e \in Events |-> 0]
    /\ rpc = [r \in Relays |-> "idle"]
    /\ batch = [r \in Relays |-> {}]
    /\ out = [r \in Relays |-> NoOutcome]
    /\ actions = [r \in Relays |-> {}]
    /\ faults = 0

Fault == faults < MaxFaults /\ faults' = faults + 1

-----------------------------------------------------------------------------
\* created_at is now(), the start of the producer's transaction.
ProducerInsert(e) ==
    /\ created[e] = 0
    /\ created' = [created EXCEPT ![e] = Cardinality({f \in Events : created[f] > 0}) + 1]
    /\ UNCHANGED <<visible, tables, ownApplied, fired, rpc, batch, out, actions, faults>>

ProducerCommit(e) ==
    /\ created[e] > 0
    /\ e \notin visible
    /\ visible' = visible \cup {e}
    /\ UNCHANGED <<created, tables, ownApplied, fired, rpc, batch, out, actions, faults>>

-----------------------------------------------------------------------------
\* Row locks of the open transactions.
Locked == {e \in Events : \E r \in Relays : out[r][e] # "none"}

\* Mutant: the poll does not exclude exhausted rows.
Pollable_Exhausted(e) ==
    /\ e \in visible
    /\ e \notin published
    /\ e \notin Locked

Pollable(e) ==
    /\ e \in visible
    /\ e \notin published
    /\ attempts[e] < MaxAttempts
    /\ e \notin Locked

\* ORDER BY created_at: e comes first in S.
First(e, S) == e \in S /\ \A f \in S : created[e] <= created[f]

\* rows is the result of the poll: the oldest due rows, as many as the limit allows.
PollOutbox(r, rows) ==
    LET due == {e \in Events : Pollable(e)}
    IN  /\ rpc[r] = "idle"
        /\ rows # {} /\ rows \subseteq due
        /\ \A e \in rows, f \in due \ rows : created[e] < created[f]
        /\ Cardinality(rows) = BatchSize \/ (Cardinality(rows) < BatchSize /\ rows = due)
        /\ rpc' = [rpc EXCEPT ![r] = "tx"]
        /\ batch' = [batch EXCEPT ![r] = rows]
        /\ out' = [out EXCEPT ![r] = [e \in Events |-> IF e \in rows THEN "polled" ELSE "none"]]
        /\ UNCHANGED <<created, visible, tables, ownApplied, fired, actions, faults>>

\* Next event of the batch gets outcome o, and its action is kept for later.
Outcome(r, e, o) ==
    /\ rpc[r] = "tx"
    /\ First(e, batch[r])
    /\ batch' = [batch EXCEPT ![r] = @ \ {e}]
    /\ out' = [out EXCEPT ![r][e] = o]
    /\ actions' = IF o = "delivered" /\ e \in Deferred
                  THEN [actions EXCEPT ![r] = @ \cup {e}] ELSE actions
    /\ UNCHANGED <<created, visible, tables, fired, rpc, faults>>

\* Mutant: the handler with its own connection is never called.
DeliverOk_SkipsOwn(r, e) ==
    /\ e \in Handled
    /\ Outcome(r, e, IF e \in processed THEN "drained" ELSE "delivered")
    /\ UNCHANGED ownApplied

\* deliver_one, all handlers succeed.  If the event is already marked in
\* processed_outbox_events, no handler runs and the row is marked published.
DeliverOk(r, e) ==
    /\ e \in Handled
    /\ Outcome(r, e, IF e \in processed THEN "drained" ELSE "delivered")
    /\ ownApplied' = IF e \in OwnConn \ processed
                      THEN [ownApplied EXCEPT ![e] = @ + 1] ELSE ownApplied

\* Some handler raises: the savepoint undoes the dedup row and the writes on
\* the relay's connection; a handler with its own connection, run before the
\* one that raised, has committed its writes.
DeliverFails(r, e) ==
    /\ e \in Handled \ processed
    /\ Outcome(r, e, "failed")
    /\ ownApplied' \in {ownApplied} \cup
          (IF e \in OwnConn THEN {[ownApplied EXCEPT ![e] = @ + 1]} ELSE {})

DrainUnconsumed(r, e) ==
    /\ e \in Unconsumed
    /\ Outcome(r, e, "drained")
    /\ UNCHANGED ownApplied

\* OutboxDeliveryError: no retry, straight to the dead-letter queue.
RejectMisrouted(r, e) ==
    /\ e \in Misrouted
    /\ Outcome(r, e, "misrouted")
    /\ UNCHANGED ownApplied

-----------------------------------------------------------------------------
\* Mutant: a rejected event overshoots the limit.
NewAttempts_Overshoot(r, e) ==
    CASE out[r][e] = "failed"    -> attempts[e] + 1
      [] out[r][e] = "misrouted" -> MaxAttempts + 1
      [] OTHER                   -> attempts[e]

\* Mutant: a failed delivery is not counted.
NewAttempts_NotCounted(r, e) ==
    IF out[r][e] = "misrouted" THEN MaxAttempts ELSE attempts[e]

NewAttempts(r, e) ==
    CASE out[r][e] = "failed"    -> attempts[e] + 1
      [] out[r][e] = "misrouted" -> MaxAttempts
      [] OTHER                   -> attempts[e]

\* move_to_dead_letter_if_exhausted, called with the count before this attempt.
Exhausted(r, e) ==
    \/ out[r][e] = "failed" /\ attempts[e] + 1 >= MaxAttempts
    \/ out[r][e] = "misrouted"

\* Mutant: no savepoint, so a failed delivery leaves its dedup row.
Marked_NoSavepoint(r) == {e \in Events : out[r][e] \in {"delivered", "drained", "failed"}}

\* Events whose savepoint was released, with the dedup row in it.
Marked(r) == {e \in Events : out[r][e] \in {"delivered", "drained"}}

\* The transaction of relay r takes effect.
ApplyTx(r) ==
    LET acked == {e \in Events : out[r][e] \in {"delivered", "drained"}}
    IN  /\ published' = published \cup acked
        /\ processed' = processed \cup Marked(r)
        /\ attempts' = [e \in Events |-> NewAttempts(r, e)]
        /\ applied' = [e \in Events |-> IF out[r][e] = "delivered"
                                        THEN applied[e] + 1 ELSE applied[e]]
        /\ dead' = [e \in Events |-> IF Exhausted(r, e) THEN dead[e] + 1 ELSE dead[e]]

\* The relay leaves its transaction for state `to', keeping the actions kept.
LeaveTx(r, to, kept) ==
    /\ rpc' = [rpc EXCEPT ![r] = to]
    /\ batch' = [batch EXCEPT ![r] = {}]
    /\ out' = [out EXCEPT ![r] = NoOutcome]
    /\ actions' = [actions EXCEPT ![r] = kept]

CommitTx(r) ==
    /\ rpc[r] = "tx" /\ batch[r] = {}
    /\ ApplyTx(r)
    /\ LeaveTx(r, "drain", actions[r])
    /\ UNCHANGED <<created, visible, ownApplied, fired, faults>>

\* COMMIT takes effect but the process dies, or sees a connection error, before
\* `committed = True': the actions are dropped.
CommitUnseen(r) ==
    /\ rpc[r] = "tx" /\ batch[r] = {}
    /\ Fault
    /\ ApplyTx(r)
    /\ LeaveTx(r, "idle", {})
    /\ UNCHANGED <<created, visible, ownApplied, fired>>

\* Mutant: the drain is not gated on `committed'.
AbortTx_DrainsAnyway(r) ==
    /\ rpc[r] = "tx"
    /\ Fault
    /\ LeaveTx(r, "drain", actions[r])
    /\ UNCHANGED <<created, visible, tables, ownApplied, fired>>

\* Error, cancellation or crash inside the transaction; `committed' is False.
AbortTx(r) ==
    /\ rpc[r] = "tx"
    /\ Fault
    /\ LeaveTx(r, "idle", {})
    /\ UNCHANGED <<created, visible, tables, ownApplied, fired>>

\* The synchronous drain after the commit: an action that raises is only logged.
FireAction(r, e) ==
    /\ rpc[r] = "drain" /\ First(e, actions[r])
    /\ actions' = [actions EXCEPT ![r] = @ \ {e}]
    /\ \/ fired' = [fired EXCEPT ![e] = @ + 1] /\ UNCHANGED faults
       \/ Fault /\ UNCHANGED fired
    /\ UNCHANGED <<created, visible, tables, ownApplied, rpc, batch, out>>

DrainDone(r) ==
    /\ rpc[r] = "drain" /\ actions[r] = {}
    /\ rpc' = [rpc EXCEPT ![r] = "idle"]
    /\ UNCHANGED <<created, visible, tables, ownApplied, fired, batch, out, actions, faults>>

\* The process dies while draining.
DrainCrash(r) ==
    /\ rpc[r] = "drain"
    /\ Fault
    /\ rpc' = [rpc EXCEPT ![r] = "idle"]
    /\ actions' = [actions EXCEPT ![r] = {}]
    /\ UNCHANGED <<created, visible, tables, ownApplied, fired, batch, out>>

RelayStep(r) ==
    \/ (\E rows \in SUBSET Events : PollOutbox(r, rows)) \/ CommitTx(r) \/ DrainDone(r)
    \/ \E e \in Events :
        \/ DeliverOk(r, e) \/ DeliverFails(r, e) \/ DrainUnconsumed(r, e) \/ RejectMisrouted(r, e)
        \/ FireAction(r, e)

Next ==
    \/ \E e \in Events : ProducerInsert(e) \/ ProducerCommit(e)
    \/ \E r \in Relays : RelayStep(r) \/ CommitUnseen(r) \/ AbortTx(r) \/ DrainCrash(r)

Spec == Init /\ [][Next]_vars

\* Each relay loop keeps polling, and a pass it began goes on.  Handlers may
\* fail every time: the attempt count bounds them.
Fairness == \A r \in Relays : WF_vars(RelayStep(r))

FairSpec == Spec /\ Fairness

-----------------------------------------------------------------------------
TypeOK ==
    /\ created \in [Events -> Nat]
    /\ visible \subseteq Events
    /\ published \subseteq Events
    /\ attempts \in [Events -> 0..MaxAttempts]
    /\ processed \subseteq Events
    /\ applied \in [Events -> Nat]
    /\ ownApplied \in [Events -> Nat]
    /\ dead \in [Events -> Nat]
    /\ fired \in [Events -> Nat]
    /\ rpc \in [Relays -> {"idle", "tx", "drain"}]
    /\ batch \in [Relays -> SUBSET Events]
    /\ out \in [Relays -> [Events -> Outcomes]]
    /\ actions \in [Relays -> SUBSET Events]
    /\ faults \in 0..MaxFaults

\* Every outbox row is accounted for, whatever aborts, crashes and concurrent
\* relays do: published with its handlers' writes committed exactly once, or
\* not published with none of them committed, and dead-lettered (once) exactly
\* when its attempts are used up.
EventAccounted ==
    \A e \in Events :
        IF e \in published
        THEN dead[e] = 0 /\ applied[e] = (IF e \in Handled THEN 1 ELSE 0)
        ELSE applied[e] = 0 /\ dead[e] = (IF attempts[e] = MaxAttempts THEN 1 ELSE 0)

\* A handler with its own connection runs at least once for a published event.
OwnConnAtLeastOnce == \A e \in OwnConn \cap published : ownApplied[e] >= 1

\* A post-commit action (the RQ enqueue of memory.stored) runs at most once, and
\* only for an event that is published for good.
ActionAtMostOnce == \A e \in Events : fired[e] <= (IF e \in published THEN 1 ELSE 0)

\* A row that left the relay (published, or attempts used up) stays as it is.
SettledIsFinal ==
    [][\A e \in Events : e \in published \/ attempts[e] = MaxAttempts =>
          /\ (e \in published') = (e \in published)
          /\ attempts'[e] = attempts[e] /\ dead'[e] = dead[e] /\ applied'[e] = applied[e]]_vars

\* Every committed event is published or dead-lettered in the end.
EventSettles == \A e \in Events : e \in visible ~> (e \in published \/ dead[e] = 1)
=============================================================================
