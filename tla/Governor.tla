------------------------------ MODULE Governor ------------------------------
(***************************************************************************)
(* The autonomy gate: the decorator @governed (autonomy/governor.py), the   *)
(* approval queue's administrators (admin_handlers/muscles.py), the kill    *)
(* switch (admin_handlers/tools.py), and the hourly recount of actor_trust  *)
(* (cron.py:_actor_trust_tick) that shares its counters with the            *)
(* administrators.                                                          *)
(*                                                                          *)
(* A governed call runs inside its caller's transaction (scoped_pg_session, *)
(* READ COMMITTED), open already when the switch is read: what it writes is *)
(* visible when that commits.  Handlers are taken as writing to that        *)
(* transaction only.  An idempotency key is used for one action type, as    *)
(* the modules that derive keys do; the namespace is fixed.  An item is     *)
(* proposed by one agent, whose row of actor_trust is modelled.             *)
(***************************************************************************)
EXTENDS Integers, FiniteSets

CONSTANTS
    Clients,    \* callers of governed handlers
    Unwired,    \* those that pass no redis_client
    Admins,     \* administrators resolving items
    Keys,       \* idempotency keys
    MaxItems,   \* bound: rows of action_approval_queue
    MaxEvents,  \* bound: quarantine verdicts on the agent's memories
    MaxFaults   \* bound: transactions rolled back

ASSUME GovernorAssumption ==
    /\ Unwired \subseteq Clients /\ Keys # {}
    /\ MaxItems \in Nat /\ MaxEvents \in Nat /\ MaxFaults \in Nat

VARIABLES
    disabled,    \* fields of the hash nce:tools:disabled
    keys,        \* keys in action_idempotency
    effects,     \* times a key's handler took effect
    audits,      \* its entries in event_log
    itemKey,     \* action_approval_queue: the key in proposed_payload
    status,      \* its status, none before the INSERT
    resolvedBy,  \* whether resolved_by is set
    confirmations, rejections,    \* actor_trust
    pc,          \* where a caller is; the answer already or executed when it has one
    key,         \* its key
    marked,      \* items it has set to executed
    seen,        \* the pending item an administrator has read, and the verdict on it
    confirmed, rejected,   \* event_log: the agent's quarantine_confirmed and _rejected
    tick,        \* their counts as the trust tick has read them
    base,        \* history: the counts the last tick wrote
    erased,      \* history: items whose verdict it wrote over
    faults

tables == <<keys, effects, audits, itemKey, status, resolvedBy, confirmations, rejections>>
callVars == <<pc, key, marked>>
trustVars == <<confirmed, rejected, tick, base, erased>>
vars == <<disabled, tables, callVars, seen, trustVars, faults>>

Fields == {"tool", "all"}     \* the action type's field and the field "*"
Items == 1..MaxItems

Nothing == <<0, "none">>
Verdicts == Items \X {"approved", "rejected"}
NoTick == <<0, 0>>     \* a tick that reads no event writes nothing

Answers == {"idle", "already", "executed"}
Checking == {"called", "toolChecked"}
\* Past the switch.
Admitted == {"open", "propose", "insert", "exec", "take", "holding", "ran", "marking"}

AnyKey == CHOOSE k \in Keys : TRUE    \* of rows and callers that have none yet

Init ==
    /\ disabled = {}
    /\ keys = {}
    /\ effects = [k \in Keys |-> 0] /\ audits = [k \in Keys |-> 0]
    /\ itemKey = [i \in Items |-> AnyKey]
    /\ status = [i \in Items |-> "none"]
    /\ resolvedBy = [i \in Items |-> FALSE]
    /\ confirmations = 0 /\ rejections = 0
    /\ pc = [c \in Clients |-> "idle"]
    /\ key = [c \in Clients |-> AnyKey]
    /\ marked = [c \in Clients |-> {}]
    /\ seen = [m \in Admins |-> Nothing]
    /\ confirmed = 0 /\ rejected = 0
    /\ tick = NoTick /\ base = <<0, 0>> /\ erased = {}
    /\ faults = 0

(***************************************************************************)
(* The kill switch                                                          *)
(***************************************************************************)

\* api_admin_tools_toggle: HSET or HDEL of one field.
Toggle(f) ==
    /\ disabled' = IF f \in disabled THEN disabled \ {f} ELSE disabled \cup {f}
    /\ UNCHANGED <<tables, callVars, seen, trustVars, faults>>

Goto(c, place) == pc' = [pc EXCEPT ![c] = place]

Call(c) ==
    /\ pc[c] \in Answers
    /\ Goto(c, IF c \in Unwired THEN "open" ELSE "called")
    /\ UNCHANGED <<disabled, tables, key, marked, seen, trustVars, faults>>

Frame == UNCHANGED <<disabled, tables, key, marked, seen, trustVars, faults>>

\* _check_kill_switch: two reads, each of which may fail, which blocks too; the
\* caller's transaction, which has written nothing yet, ends.
CheckTool(c) ==
    /\ pc[c] = "called"
    /\ \/ "tool" \notin disabled /\ Goto(c, "toolChecked")
       \/ Goto(c, "idle")
    /\ Frame

CheckAll_Skipped(c) == pc[c] = "toolChecked" /\ Goto(c, "open") /\ Frame

CheckAll(c) ==
    /\ pc[c] = "toolChecked"
    /\ \/ "all" \notin disabled /\ Goto(c, "open")
       \/ Goto(c, "idle")
    /\ Frame

(***************************************************************************)
(* The call's transaction                                                   *)
(***************************************************************************)

\* Bound: a call may propose while there is room for its item.
Room == Cardinality({i \in Items : status[i] = "none"})
          > Cardinality({c \in Clients : pc[c] \in {"propose", "insert"}})

\* The first _idempotency_key_exists for the call's key.  After it a call that
\* has confirm set, and that evaluate_policy lets pass, executes; any other
\* proposes.
CheckKey(c, k) ==
    /\ pc[c] = "open"
    /\ key' = [key EXCEPT ![c] = k]
    /\ \/ k \in keys /\ Goto(c, "already")
       \/ k \notin keys /\ Goto(c, "exec")
       \/ k \notin keys /\ Room /\ Goto(c, "propose")
    /\ UNCHANGED <<disabled, tables, marked, seen, trustVars, faults>>

\* _record_pending_approval looks for a pending item of the action.
FindPending(c) ==
    /\ pc[c] = "propose"
    /\ Goto(c, IF \E i \in Items : status[i] = "pending" /\ itemKey[i] = key[c]
               THEN "idle" ELSE "insert")
    /\ Frame

FirstFree(i) == status[i] = "none" /\ \A j \in Items : j < i => status[j] # "none"

\* Its INSERT, and the COMMIT.
InsertPending(c) ==
    /\ pc[c] = "insert"
    /\ \E i \in Items :
         /\ FirstFree(i)
         /\ status' = [status EXCEPT ![i] = "pending"]
         /\ itemKey' = [itemKey EXCEPT ![i] = key[c]]
    /\ Goto(c, "idle")
    /\ UNCHANGED <<disabled, keys, effects, audits, resolvedBy, confirmations, rejections,
                   key, marked, seen, trustVars, faults>>

\* _execute_governed looks at the key again.
CheckAgain(c) ==
    /\ pc[c] = "exec"
    /\ Goto(c, IF key[c] \in keys THEN "already" ELSE "take")
    /\ Frame

\* The key is inserted by a transaction that has not ended.
Inserted(d, k) == pc[d] \in {"holding", "ran", "marking"} /\ key[d] = k

\* _record_idempotency_key: the INSERT waits for a transaction that has
\* inserted the key, and is a UniqueViolationError if that commits.
RecordKey_NoWait(c) ==
    /\ pc[c] = "take"
    /\ Goto(c, IF key[c] \in keys \/ \E d \in Clients : Inserted(d, key[c])
               THEN "already" ELSE "holding")
    /\ Frame

RecordKey(c) ==
    /\ pc[c] = "take"
    /\ \A d \in Clients : ~Inserted(d, key[c])
    /\ Goto(c, IF key[c] \in keys THEN "already" ELSE "holding")
    /\ Frame

RunHandler(c) ==
    /\ pc[c] = "holding"
    /\ Goto(c, "ran")
    /\ Frame

\* Items that _mark_approval_queue_executed updates, and keeps locked.
Resolvable(k) == {i \in Items : itemKey[i] = k /\ status[i] \in {"pending", "approved"}}

MarkExecuted(c) ==
    /\ pc[c] = "ran"
    /\ marked' = [marked EXCEPT ![c] = Resolvable(key[c])]
    /\ Goto(c, "marking")
    /\ UNCHANGED <<disabled, tables, key, seen, trustVars, faults>>

\* _audit_execution, and the COMMIT.
Commit(c) ==
    /\ pc[c] = "marking"
    /\ keys' = keys \cup {key[c]}
    /\ effects' = [effects EXCEPT ![key[c]] = @ + 1]
    /\ audits' = [audits EXCEPT ![key[c]] = @ + 1]
    /\ status' = [i \in Items |-> IF i \in marked[c] THEN "executed" ELSE status[i]]
    /\ marked' = [marked EXCEPT ![c] = {}]
    /\ Goto(c, "executed")
    /\ UNCHANGED <<disabled, itemKey, resolvedBy, confirmations, rejections,
                   key, seen, trustVars, faults>>

Fail_PoisonKey(c) ==
    /\ pc[c] \in Admitted /\ faults < MaxFaults
    /\ faults' = faults + 1
    /\ keys' = IF Inserted(c, key[c]) THEN keys \cup {key[c]} ELSE keys
    /\ marked' = [marked EXCEPT ![c] = {}]
    /\ Goto(c, "idle")
    /\ UNCHANGED <<disabled, effects, audits, itemKey, status, resolvedBy, confirmations,
                   rejections, key, seen, trustVars>>

\* The handler, the audit or the connection fails: everything is rolled back.
Fail(c) ==
    /\ pc[c] \in Admitted /\ faults < MaxFaults
    /\ faults' = faults + 1
    /\ marked' = [marked EXCEPT ![c] = {}]
    /\ Goto(c, "idle")
    /\ UNCHANGED <<disabled, tables, key, seen, trustVars>>

(***************************************************************************)
(* Administrators: api_admin_approval_queue_approve and _reject             *)
(***************************************************************************)

\* The status read decides: what was resolved before is answered at once.
ReadItem(m, i, v) ==
    /\ seen[m] = Nothing /\ status[i] = "pending"
    /\ seen' = [seen EXCEPT ![m] = <<i, v>>]
    /\ UNCHANGED <<disabled, tables, callVars, trustVars, faults>>

Locked_Never(i) == FALSE

Locked(i) == \E c \in Clients : i \in marked[c]

\* WHERE id = $1 AND status = 'pending'
StillPending(i) == status[i] = "pending"

NewStatus_NotRejected(i, v) ==
    IF StillPending(i) \/ (v = "approved" /\ status[i] # "rejected") THEN v ELSE status[i]

NewStatus(i, v) == IF StillPending(i) THEN v ELSE status[i]

Tally_Unchecked(i, v, w) == IF v = w THEN 1 ELSE 0

\* What verdict v on item i adds to the counter of w.
Tally(i, v, w) == IF StillPending(i) /\ v = w THEN 1 ELSE 0

\* The UPDATE, which waits for a call that has marked the item, the upsert of
\* actor_trust, and the COMMIT; or a 409 if the item is no longer pending.
ResolveItem(m) ==
    LET i == seen[m][1]
        v == seen[m][2]
    IN
    /\ seen[m] # Nothing /\ ~Locked(i)
    /\ seen' = [seen EXCEPT ![m] = Nothing]
    /\ status' = [status EXCEPT ![i] = NewStatus(i, v)]
    /\ resolvedBy' = [resolvedBy EXCEPT ![i] = @ \/ StillPending(i)]
    /\ confirmations' = confirmations + Tally(i, v, "approved")
    /\ rejections' = rejections + Tally(i, v, "rejected")
    /\ UNCHANGED <<disabled, keys, effects, audits, itemKey, callVars, trustVars, faults>>

\* An error on the way: the transaction is rolled back.
ResolveFails(m) ==
    /\ seen[m] # Nothing
    /\ seen' = [seen EXCEPT ![m] = Nothing]
    /\ UNCHANGED <<disabled, tables, callVars, trustVars, faults>>

(***************************************************************************)
(* _actor_trust_tick                                                        *)
(***************************************************************************)

\* confirm_memory and reject_memory: a WORM event, actor_trust is not touched.
ConfirmMemory ==
    /\ confirmed + rejected < MaxEvents
    /\ confirmed' = confirmed + 1
    /\ UNCHANGED <<disabled, tables, callVars, seen, rejected, tick, base, erased, faults>>

RejectMemory ==
    /\ confirmed + rejected < MaxEvents
    /\ rejected' = rejected + 1
    /\ UNCHANGED <<disabled, tables, callVars, seen, confirmed, tick, base, erased, faults>>

\* The tick, one at a time under its CronLock, counts the agent's events; an
\* agent without any is left alone.
CountEvents ==
    /\ tick = NoTick
    /\ tick' = <<confirmed, rejected>>
    /\ UNCHANGED <<disabled, tables, callVars, seen, confirmed, rejected, base, erased, faults>>

\* The upsert: SET confirmations = EXCLUDED.confirmations, and so for rejections,
\* and the COMMIT.  The administrators' verdicts are not among the events.
WriteTrust ==
    /\ tick # NoTick
    /\ confirmations' = tick[1] /\ rejections' = tick[2]
    /\ base' = tick /\ tick' = NoTick
    /\ erased' = {i \in Items : resolvedBy[i]}
    /\ UNCHANGED <<disabled, keys, effects, audits, itemKey, status, resolvedBy, callVars,
                   seen, confirmed, rejected, faults>>

\* _CRON_TICK_ERRORS: logged, and the transaction rolled back.
TickFails ==
    /\ tick # NoTick
    /\ tick' = NoTick
    /\ UNCHANGED <<disabled, tables, callVars, seen, confirmed, rejected, base, erased, faults>>

TrustTick == ConfirmMemory \/ RejectMemory \/ CountEvents \/ WriteTrust \/ TickFails

Step(c) ==
    \/ CheckTool(c) \/ CheckAll(c) \/ FindPending(c) \/ InsertPending(c)
    \/ \E k \in Keys : CheckKey(c, k)
    \/ CheckAgain(c) \/ RecordKey(c) \/ RunHandler(c) \/ MarkExecuted(c) \/ Commit(c)

Next ==
    \/ \E f \in Fields : Toggle(f)
    \/ \E c \in Clients :
         Call(c) \/ Step(c) \/ Fail(c)
    \/ \E m \in Admins :
         \/ ResolveItem(m) \/ ResolveFails(m)
         \/ \E i \in Items, v \in {"approved", "rejected"} : ReadItem(m, i, v)
    \/ TrustTick

Fairness == \A c \in Clients : WF_vars(Step(c))

Spec == Init /\ [][Next]_vars
LiveSpec == Spec /\ Fairness

(***************************************************************************)
(* Properties                                                               *)
(***************************************************************************)

\* The types, and with them that a marked item stays as it was marked until the
\* call's transaction ends: no administrator gets hold of it.
TypeOK ==
    /\ disabled \subseteq Fields /\ keys \subseteq Keys
    /\ effects \in [Keys -> Nat] /\ audits \in [Keys -> Nat]
    /\ itemKey \in [Items -> Keys]
    /\ status \in [Items -> {"none", "pending", "approved", "rejected", "executed"}]
    /\ resolvedBy \in [Items -> BOOLEAN]
    /\ confirmations \in Nat /\ rejections \in Nat
    /\ pc \in [Clients -> Answers \cup Checking \cup Admitted]
    /\ key \in [Clients -> Keys]
    /\ marked \in [Clients -> SUBSET Items]
    /\ \A c \in Clients : marked[c] \subseteq Resolvable(key[c])
    /\ seen \in [Admins -> Verdicts \cup {Nothing}]
    /\ confirmed \in Nat /\ rejected \in Nat /\ tick \in Nat \X Nat /\ base \in Nat \X Nat
    /\ erased \subseteq Items
    /\ faults \in 0..MaxFaults

\* A key that is recorded stands for one effect and one audit entry, and a
\* key that is not for none: no poison key and no second execution, whatever
\* calls race and wherever one is rolled back (governor.py:16).
ExactlyOnce ==
    \A k \in Keys : LET n == IF k \in keys THEN 1 ELSE 0
                    IN  effects[k] = n /\ audits[k] = n

\* What is reported happened: a call is told executed or already_executed, and
\* an item is executed, only when the action took effect, also when the call
\* that recorded the key first was rolled back (governor.py:433).
ReportsTrue ==
    /\ \A c \in Clients : pc[c] \in {"already", "executed"} => effects[key[c]] = 1
    /\ \A i \in Items : status[i] = "executed" => effects[itemKey[i]] = 1

\* actor_trust has two writers that do not know of each other: administrators
\* add their verdicts one by one (muscles.py:227), the hourly tick sets both
\* counters to counts of other events (cron.py:1637).  What is left of the
\* counters' meaning: they are what the last tick wrote, which the log did
\* contain, and every verdict on the queue since, once, although administrators
\* decide on a status they read before.  Verdicts before it are lost.
TrustSinceTick ==
    /\ base[1] <= confirmed /\ base[2] <= rejected
    /\ rejections = base[2] + Cardinality({i \in Items \ erased : status[i] = "rejected"})
    /\ confirmations = base[1]
         + Cardinality({i \in Items \ erased : resolvedBy[i] /\ status[i] # "rejected"})

\* No step takes a verdict or an execution back: a rejected or executed item
\* stays so, and an approved one can only become executed (muscles.py:215).
ResolvedIsFinal ==
    [][\A i \in Items :
         /\ status[i] \in {"rejected", "executed"} => status'[i] = status[i]
         /\ status[i] = "approved" => status'[i] \in {"approved", "executed"}]_vars

\* An emergency stop takes hold: once one of the two fields of the switch is
\* set for good, no call of a wired caller gets past it any more, and those
\* that were past it soon end (governor.py:560).
EmergencyStop ==
    \A f \in Fields :
        <>[](f \in disabled) => <>[](\A c \in Clients \ Unwired : pc[c] \notin Admitted)
=============================================================================
