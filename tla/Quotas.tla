------------------------------- MODULE Quotas -------------------------------
(***************************************************************************)
(* Resource quotas (src/nce/quotas.py) and their administration            *)
(* (orchestrators/namespace.py, manage_quotas).                            *)
(*                                                                         *)
(* A row of resource_quotas limits one resource, for the whole namespace   *)
(* or for one agent of it.  A tool call is charged on every row that       *)
(* applies to it before its handler runs, and the charge is taken back     *)
(* when the handler fails.  With NCE_QUOTA_REDIS_COUNTERS the charges are  *)
(* kept in one Redis counter per row, created from the used_amount that    *)
(* the call happened to read, and a background loop copies the counters    *)
(* back to PostgreSQL; without it they are kept in the row itself.         *)
(*                                                                         *)
(* One namespace is modelled: counters and rows of two never meet.         *)
(***************************************************************************)
EXTENDS Integers, FiniteSets, FiniteSetsExt

CONSTANTS
  Calls,          \* the tool calls of the behaviour, each made once
  Rows,           \* ids of resource_quotas rows, those inserted later too
  Types,          \* the resource types, numbered in the order of their names
  Resource,       \* the resource type of each row
  Agent,          \* the agent of each row, or AnyAgent (agent_id IS NULL)
  CallAgent,      \* the agent that makes each call
  Cost,           \* tool_quota_plan: Cost[c][r], zero when r is not charged
  Base,           \* used_amount of each row at the start
  FirstLimit,     \* limit_amount of each row at the start, NoLimit if no row
  Limits,         \* the limits an administrator sets
  MaxAdmin,       \* bound on the administrative commands of a behaviour
  AnyAgent, NoLimit, NoKey

ASSUME QuotaAssumption ==
  /\ IsFiniteSet(Calls) /\ Types \subseteq Int
  /\ Resource \in [Rows -> Types]
  /\ Cost \in [Calls -> [Types -> Nat]]
  /\ Base \in [Rows -> Nat]
  /\ FirstLimit \in [Rows -> Nat \union {NoLimit}]
  /\ Limits \subseteq Nat
  /\ MaxAdmin \in Nat
  /\ NoLimit \notin Nat /\ NoKey \notin Int
  /\ \A q \in Rows : IF FirstLimit[q] = NoLimit THEN Base[q] = 0
                                                ELSE Base[q] <= FirstLimit[q]

VARIABLES
  counters,  \* NCE_QUOTA_REDIS_COUNTERS
  row,       \* "none", "live" or "deleted"
  used,      \* used_amount of each row, as committed
  limit,     \* limit_amount of each row
  key,       \* the Redis counter of each row, NoKey when there is none
  pc,        \* "idle", "charge", "undo", "done" or "gone", for each call
  todo,      \* resource types the call has not selected rows for yet
  view,      \* rows it selected and has not charged yet, as it read them
  steps,     \* QuotaReservation.steps
  stray,     \* rows that hold a charge of the call it has no record of
  flush,     \* the counters the flush loop has read and not written
  admin,     \* the row of a reset in progress, and how far it is
  commands,  \* administrative commands so far
  trust      \* what became of the row's count: "whole", "expired" or "given up"

callVars == <<pc, todo, view, steps, stray>>
rowVars  == <<row, used, limit>>
vars     == <<counters, rowVars, key, callVars, flush, admin, commands, trust>>

NoFlush == <<>>
NoReset == <<>>

Live(q) == row[q] = "live"

\* A reset locks its row from its UPDATE to its COMMIT: every other UPDATE of
\* the row, and SELECT ... FOR UPDATE, waits for it; a plain SELECT does not.
Locked(q) == admin # NoReset /\ admin.row = q

Init ==
  /\ counters \in BOOLEAN
  /\ row = [q \in Rows |-> IF FirstLimit[q] = NoLimit THEN "none" ELSE "live"]
  /\ used = Base
  /\ limit = [q \in Rows |-> IF FirstLimit[q] = NoLimit THEN 0 ELSE FirstLimit[q]]
  /\ key = [q \in Rows |-> NoKey]
  /\ pc = [c \in Calls |-> "idle"]
  /\ todo = [c \in Calls |-> {}]
  /\ view = [c \in Calls |-> {}]
  /\ steps = [c \in Calls |-> {}]
  /\ stray = [c \in Calls |-> {}]
  /\ flush = NoFlush
  /\ admin = NoReset
  /\ commands = 0
  /\ trust = [q \in Rows |-> "whole"]

-----------------------------------------------------------------------------
(***************************************************************************)
(* Charging a call.                                                        *)
(***************************************************************************)

Delta(c, q) == Cost[c][Resource[q]]

\* Resource types with delta <= 0 are skipped.
Charged(c) == {r \in Types : Cost[c][r] > 0}

\* The rows of a resource that apply to the call: the namespace's and its
\* agent's.  The two unique indexes allow one row of each kind.  The filter on
\* reset_at is left out: nothing writes that column.
Matching(c, r) ==
  {q \in Rows : Live(q) /\ Resource[q] = r /\ Agent[q] \in {AnyAgent, CallAgent[c]}}

\* A call is charged on row p before q, or on p only: its resource types are
\* sorted, and the namespace's row comes before the agent's.
Before(p, q) ==
  \/ Resource[p] < Resource[q]
  \/ Resource[p] = Resource[q] /\ (Agent[p] = AnyAgent \/ Agent[q] # AnyAgent)

\* _consume_resources_redis starts on its resource types.
BeginCharge(c) ==
  /\ counters
  /\ pc[c] = "idle"
  /\ pc' = [pc EXCEPT ![c] = "charge"]
  /\ todo' = [todo EXCEPT ![c] = Charged(c)]
  /\ UNCHANGED <<counters, rowVars, key, view, steps, stray, flush, admin,
                 commands, trust>>

\* It selects the rows of the next type, with the used_amount and the
\* limit_amount they have at that moment.
SelectRows(c) ==
  /\ pc[c] = "charge" /\ view[c] = {}
  /\ \E r \in todo[c] :
       /\ \A s \in todo[c] : r <= s
       /\ view' = [view EXCEPT ![c] = {[row |-> q, used |-> used[q], limit |-> limit[q]] :
                                       q \in Matching(c, r)}]
       /\ todo' = [todo EXCEPT ![c] = @ \ {r}]
  /\ UNCHANGED <<counters, rowVars, key, pc, steps, stray, flush, admin,
                 commands, trust>>

\* The row it charges next.
NextRow(c, e) ==
  /\ pc[c] = "charge"
  /\ e \in view[c] /\ \A f \in view[c] : Before(e.row, f.row)

\* Mutant: always counts from the row.
Incremented_FromRow(c, e) == e.used + Delta(c, e.row)

\* What _QUOTA_INCR_LUA makes of a counter: a key that is not there counts
\* from the used_amount of the call's own SELECT.
Incremented(c, e) ==
  (IF key[e.row] = NoKey THEN e.used ELSE key[e.row]) + Delta(c, e.row)

\* Mutant: compares the value before the addition.
Within_BeforeAdding(c, e) == Incremented(c, e) - Delta(c, e.row) < e.limit

Within(c, e) == Incremented(c, e) <= e.limit

\* The script adds the delta and the call notes it in its reservation.
EvalIncrement(c, e) ==
  /\ NextRow(c, e)
  /\ Within(c, e)
  /\ key' = [key EXCEPT ![e.row] = Incremented(c, e)]
  /\ steps' = [steps EXCEPT ![c] = @ \union {e.row}]
  /\ view' = [view EXCEPT ![c] = @ \ {e}]
  /\ UNCHANGED <<counters, rowVars, pc, todo, stray, flush, admin, commands, trust>>

\* The call leaves the charging loop: _rollback_partial and the exception.
GiveUp(c) ==
  /\ pc' = [pc EXCEPT ![c] = "undo"]
  /\ todo' = [todo EXCEPT ![c] = {}]
  /\ view' = [view EXCEPT ![c] = {}]

\* Mutant: the reservation is cleared before it is rolled back.
EvalRefused_ClearsFirst(c, e) ==
  /\ NextRow(c, e)
  /\ ~Within(c, e)
  /\ GiveUp(c)
  /\ steps' = [steps EXCEPT ![c] = {}]
  /\ UNCHANGED <<counters, rowVars, key, stray, flush, admin, commands, trust>>

\* The script answers -1: QuotaExceededError.
EvalRefused(c, e) ==
  /\ NextRow(c, e)
  /\ ~Within(c, e)
  /\ GiveUp(c)
  /\ UNCHANGED <<counters, rowVars, key, steps, stray, flush, admin, commands, trust>>

\* asyncio.wait_for gives up on the script after _REDIS_CALL_TIMEOUT_S, or the
\* connection fails: the increment may have been made, the call never knows.
EvalLost(c, e) ==
  /\ NextRow(c, e)
  /\ \/ UNCHANGED <<key, stray>>
     \/ /\ Within(c, e)
        /\ key' = [key EXCEPT ![e.row] = Incremented(c, e)]
        /\ stray' = [stray EXCEPT ![c] = @ \union {e.row}]
  /\ GiveUp(c)
  /\ UNCHANGED <<counters, rowVars, steps, flush, admin, commands, trust>>

\* The rows consume_resources charges without Redis.
RowsOf(c) == UNION {Matching(c, r) : r \in Charged(c)}

\* Mutant: compares the value before the addition.
Fits_BeforeAdding(c, q) == used[q] < limit[q]

Fits(c, q) == used[q] + Delta(c, q) <= limit[q]

\* Without Redis, consume_resources is one transaction: it locks the rows and
\* charges all of them, or none when one would go over its limit.
ChargeRows(c) ==
  /\ ~counters
  /\ pc[c] = "idle"
  /\ LET charged == RowsOf(c)
     IN  /\ \A q \in charged : ~Locked(q)
         /\ IF \A q \in charged : Fits(c, q)
            THEN /\ used' = [q \in Rows |-> used[q] +
                               IF q \in charged THEN Delta(c, q) ELSE 0]
                 /\ steps' = [steps EXCEPT ![c] = charged]
                 /\ pc' = [pc EXCEPT ![c] = "charge"]
            ELSE /\ pc' = [pc EXCEPT ![c] = "gone"]
                 /\ UNCHANGED <<used, steps>>
  /\ UNCHANGED <<counters, row, limit, key, todo, view, stray, flush, admin,
                 commands, trust>>

\* Every row is charged and the handler runs.
Running(c) == pc[c] = "charge" /\ view[c] = {} /\ todo[c] = {}

\* The handler returns: the charge stays.
HandlerReturns(c) ==
  /\ Running(c)
  /\ pc' = [pc EXCEPT ![c] = "done"]
  /\ UNCHANGED <<counters, rowVars, key, todo, view, steps, stray, flush, admin,
                 commands, trust>>

\* The handler raises: QuotaReservation.rollback.
HandlerFails(c) ==
  /\ Running(c)
  /\ pc' = [pc EXCEPT ![c] = "undo"]
  /\ UNCHANGED <<counters, rowVars, key, todo, view, steps, stray, flush, admin,
                 commands, trust>>

\* The charge a rollback takes back next: the latest.
Latest(c, q) ==
  /\ pc[c] = "undo"
  /\ q \in steps[c] /\ \A p \in steps[c] : Before(p, q)

\* One DECRBY of a rollback.  DECRBY counts a key that is not there from zero.
UndoStep(c, q) ==
  /\ counters /\ Latest(c, q)
  /\ key' = [key EXCEPT ![q] = (IF @ = NoKey THEN 0 ELSE @) - Delta(c, q)]
  /\ steps' = [steps EXCEPT ![c] = @ \ {q}]
  /\ UNCHANGED <<counters, rowVars, pc, todo, view, stray, flush, admin,
                 commands, trust>>

\* The DECRBY fails, is logged and is not tried again.
UndoStepFails(c, q) ==
  /\ counters /\ Latest(c, q)
  /\ stray' = [stray EXCEPT ![c] = @ \union {q}]
  /\ steps' = [steps EXCEPT ![c] = @ \ {q}]
  /\ UNCHANGED <<counters, rowVars, key, pc, todo, view, flush, admin, commands,
                 trust>>

\* Without Redis a rollback is one transaction, over rows that may have been
\* reset (GREATEST(0, ...)) or deleted since.
UndoRows(c) ==
  /\ ~counters
  /\ pc[c] = "undo" /\ steps[c] # {}
  /\ \A q \in steps[c] : ~Locked(q)
  /\ used' = [q \in Rows |-> IF q \in steps[c] /\ Live(q)
                             THEN Max({0, used[q] - Delta(c, q)})
                             ELSE used[q]]
  /\ steps' = [steps EXCEPT ![c] = {}]
  /\ UNCHANGED <<counters, row, limit, key, pc, todo, view, stray, flush, admin,
                 commands, trust>>

Active(c) == pc[c] = "charge" \/ (pc[c] = "undo" /\ steps[c] # {})

\* The process dies, or a rollback without Redis fails, or the task
\* is cancelled where only Exception is caught: what was charged
\* and not taken back stays charged.
CutOff(c) ==
  /\ Active(c)
  /\ pc' = [pc EXCEPT ![c] = "gone"]
  /\ todo' = [todo EXCEPT ![c] = {}]
  /\ view' = [view EXCEPT ![c] = {}]
  /\ UNCHANGED <<counters, rowVars, key, steps, stray, flush, admin, commands, trust>>

-----------------------------------------------------------------------------
(***************************************************************************)
(* flush_quota_counters_to_postgres, and the expiry of a counter.          *)
(***************************************************************************)

\* GET of one key of the scan.
FlushRead(q) ==
  /\ flush = NoFlush
  /\ key[q] # NoKey
  /\ flush' = [row |-> q, value |-> key[q]]
  /\ UNCHANGED <<counters, rowVars, key, callVars, admin, commands, trust>>

\* Mutant: a row that counts something already is left alone.
Flushed_Once(q, value) == IF used[q] > 0 THEN used[q] ELSE Max({0, value})

Flushed(q, value) == Max({used[q], value})

\* Its UPDATE, in a transaction of its own.  chk_quota refuses a value above
\* the limit: the exception is logged and the scan goes on.
FlushWrite ==
  /\ flush # NoFlush
  /\ LET q == flush.row
     IN  /\ ~Locked(q)
         /\ used' = IF Live(q) /\ Flushed(q, flush.value) <= limit[q]
                    THEN [used EXCEPT ![q] = Flushed(q, flush.value)]
                    ELSE used
  /\ flush' = NoFlush
  /\ UNCHANGED <<counters, row, limit, key, callVars, admin, commands, trust>>

\* _QUOTA_REDIS_KEY_TTL_S passes without an increment.  Seven days are longer
\* than any call and hold thousands of rounds of the flush loop, so every flush
\* the row accepts was made; one chk_quota refuses is lost with the key.
Expire(q) ==
  /\ key[q] # NoKey
  /\ \A c \in Calls : ~Active(c)
  /\ flush = NoFlush /\ admin = NoReset
  /\ used[q] >= key[q] \/ key[q] > limit[q] \/ ~Live(q)
  /\ key' = [key EXCEPT ![q] = NoKey]
  /\ trust' = [trust EXCEPT ![q] = IF @ = "given up" \/ used[q] < key[q]
                                   THEN "given up" ELSE "expired"]
  /\ UNCHANGED <<counters, rowVars, callVars, flush, admin, commands>>

-----------------------------------------------------------------------------
(***************************************************************************)
(* manage_quotas.                                                          *)
(***************************************************************************)

Command ==
  /\ commands < MaxAdmin
  /\ commands' = commands + 1

\* set, for a row that is there: chk_quota refuses a limit below used_amount.
SetLimit(q, l) ==
  /\ Command
  /\ Live(q) /\ ~Locked(q)
  /\ l >= used[q]
  /\ limit' = [limit EXCEPT ![q] = l]
  /\ UNCHANGED <<counters, row, used, key, callVars, flush, admin, trust>>

\* set, for a row that is not: the INSERT gives it a new id.
InsertRow(q, l) ==
  /\ Command
  /\ row[q] = "none"
  /\ \A p \in Rows : ~(Live(p) /\ Resource[p] = Resource[q] /\ Agent[p] = Agent[q])
  /\ row' = [row EXCEPT ![q] = "live"]
  /\ limit' = [limit EXCEPT ![q] = l]
  /\ UNCHANGED <<counters, used, key, callVars, flush, admin, trust>>

\* delete leaves the counter to expire.
DeleteRow(q) ==
  /\ Command
  /\ Live(q) /\ ~Locked(q)
  /\ row' = [row EXCEPT ![q] = "deleted"]
  /\ UNCHANGED <<counters, used, limit, key, callVars, flush, admin, trust>>

\* reset: UPDATE ... SET used_amount = 0, not committed yet.
ResetRow(q) ==
  /\ Command
  /\ admin = NoReset
  /\ Live(q)
  /\ admin' = [row |-> q, deleted |-> FALSE]
  /\ UNCHANGED <<counters, rowVars, key, callVars, flush, trust>>

\* delete_quota_redis_counter, inside the transaction.
ResetCounter ==
  /\ admin # NoReset /\ ~admin.deleted
  /\ key' = [key EXCEPT ![admin.row] = NoKey]
  /\ admin' = [admin EXCEPT !.deleted = TRUE]
  /\ trust' = [trust EXCEPT ![admin.row] = "given up"]
  /\ UNCHANGED <<counters, rowVars, callVars, flush, commands>>

\* The scoped session commits.
ResetCommit ==
  /\ admin # NoReset /\ admin.deleted
  /\ used' = [used EXCEPT ![admin.row] = 0]
  /\ admin' = NoReset
  /\ UNCHANGED <<counters, row, limit, key, callVars, flush, commands, trust>>

\* The DEL raises, or the COMMIT fails: the row keeps its used_amount.
ResetFails ==
  /\ admin # NoReset
  /\ admin' = NoReset
  /\ UNCHANGED <<counters, rowVars, key, callVars, flush, commands, trust>>

-----------------------------------------------------------------------------
CallNext ==
  \E c \in Calls :
    \/ BeginCharge(c) \/ SelectRows(c)
    \/ \E e \in view[c] : EvalIncrement(c, e) \/ EvalRefused(c, e) \/ EvalLost(c, e)
    \/ ChargeRows(c)
    \/ HandlerReturns(c) \/ HandlerFails(c)
    \/ \E q \in steps[c] : UndoStep(c, q) \/ UndoStepFails(c, q)
    \/ UndoRows(c)
    \/ CutOff(c)

CounterNext == FlushWrite \/ \E q \in Rows : FlushRead(q) \/ Expire(q)

AdminNext ==
  \/ \E q \in Rows : DeleteRow(q) \/ ResetRow(q)
                     \/ \E l \in Limits : SetLimit(q, l) \/ InsertRow(q, l)
  \/ ResetCounter \/ ResetCommit \/ ResetFails

Next == CallNext \/ CounterNext \/ AdminNext

\* The flush loop visits every key of its scan in every round, and never gives
\* up; a reset in progress commits or fails.
Fairness ==
  /\ WF_vars(FlushWrite)
  /\ \A q \in Rows : SF_vars(FlushRead(q))
  /\ WF_vars(ResetCounter \/ ResetCommit \/ ResetFails)

Spec == Init /\ [][Next]_vars /\ Fairness

-----------------------------------------------------------------------------
(***************************************************************************)
(* Properties.                                                             *)
(***************************************************************************)

\* Every variable has its type; used_amount keeps the CHECKs of
\* resource_quotas, also under concurrent charges, flushes and limit changes.
TypeOK ==
  /\ counters \in BOOLEAN
  /\ row \in [Rows -> {"none", "live", "deleted"}]
  /\ used \in [Rows -> Nat] /\ limit \in [Rows -> Nat]
  /\ \A q \in Rows : used[q] <= limit[q]
  /\ key \in [Rows -> Int \union {NoKey}]
  /\ pc \in [Calls -> {"idle", "charge", "undo", "done", "gone"}]
  /\ todo \in [Calls -> SUBSET Types]
  /\ view \in [Calls -> SUBSET [row : Rows, used : Nat, limit : Nat]]
  /\ steps \in [Calls -> SUBSET Rows]
  /\ stray \in [Calls -> SUBSET Rows]
  /\ flush \in {NoFlush} \union [row : Rows, value : Int]
  /\ admin \in {NoReset} \union [row : Rows, deleted : BOOLEAN]
  /\ commands \in 0 .. MaxAdmin
  /\ trust \in [Rows -> {"whole", "expired", "given up"}]

\* What the calls really charged on a row and did not take back.
Outstanding(q) ==
  Base[q] + SumFunctionOnSet([c \in Calls |-> Delta(c, q)],
                             {c \in Calls : q \in stray[c] \union steps[c]})

\* What the next call is measured against.
Count(q) == IF key[q] = NoKey THEN used[q] ELSE key[q]

\* Nobody gets a charge back that was not theirs: until a row is reset, its
\* count covers every charge made on it, through counters created from stale
\* reads, lost answers, half-done rollbacks, flushes and expiry.
NoChargeLost ==
  \A q \in Rows : trust[q] # "given up" /\ row[q] # "deleted"
                    => Count(q) >= Outstanding(q)

\* A call that was refused or failed is not charged for it: until a counter
\* expires or its row is reset, nothing but charges is counted.
NoPhantomCharge ==
  \A q \in Rows : trust[q] = "whole" /\ row[q] # "deleted"
                    => Count(q) <= Outstanding(q)

\* A call is admitted only within the limit it read: with its charge, all the
\* charges on the row still fit.
AdmittedWithinLimit ==
  [][\A c \in Calls, q \in Rows :
       /\ q \in steps'[c] \ steps[c]
       /\ trust[q] # "given up" /\ row[q] # "deleted"
       => IF counters THEN \E e \in view[c] : e.row = q /\ Outstanding(q)' <= e.limit
                      ELSE Outstanding(q)' <= limit[q]]_vars

\* The flush loop: in the end used_amount has caught up with every counter the
\* row's limit admits.
FlushCatchesUp ==
  <>[](\A q \in Rows : Live(q) /\ key[q] # NoKey /\ key[q] <= limit[q]
                         => used[q] >= key[q])
=============================================================================
