------------------------------- MODULE Stock --------------------------------
(***************************************************************************)
(* The stock movements of the inventory module (vertical_modules/inventory: *)
(* stock.py, transactions.py, goods_receipt.py, rma.py, reconcile.py).      *)
(*                                                                          *)
(* Every call is one PG transaction (scoped_pg_session) whose statements    *)
(* each lock one row until the transaction ends.  A row is a triple         *)
(* <<table, major key, minor key>>, and a call is known by the rows it      *)
(* still has to write, todo[c]: the rows it holds are the others of         *)
(* Rows(op[c]), and what it wrote to them is visible when it commits.       *)
(* Under READ COMMITTED a statement that waited for a row evaluates its     *)
(* WHERE clause again on the committed row, hence the guards read the       *)
(* tables at the moment the row is obtained.                                *)
(*                                                                          *)
(* inventory_items rows that do not exist count as holding nothing: an      *)
(* increment inserts them and a decrement refuses them.  qty_blocked is     *)
(* left out: no code writes it.                                             *)
(***************************************************************************)
EXTENDS Integers

CONSTANTS
    Clients,    \* sessions running inventory calls
    Skus,       \* article numbers, in their order as text
    Locs,       \* stock_locations, in the order of their UUIDs
    Qtys,       \* quantities asked for
    Receipts,   \* receipt hashes: one per delivery
    Lines,      \* a receipt's aggregated lines: quantity per item
    Serials,    \* receipts that carry a serial number
    Rmas,       \* RMA references
    RmaItem,    \* the item an RMA returns
    RmaQty,     \* how many of it
    Weee,       \* RMAs whose weee_state is not 'not_applicable'
    Opening,    \* stock on hand before the ledger existed
    MaxKey,     \* largest key of a row
    MaxCalls,   \* bound: calls begun
    MaxFaults   \* bound: transactions lost to a crash, an error or OwnershipError

Items == Locs \X Skus

ASSUME StockAssumption ==
    /\ MaxKey \in Nat
    /\ Skus \subseteq 1..MaxKey /\ Locs \subseteq 1..MaxKey
    /\ Receipts \subseteq 1..MaxKey /\ Rmas \subseteq 1..MaxKey
    /\ Receipts \cap Rmas = {}
    /\ Qtys \subseteq Nat \ {0}
    /\ \A d \in Receipts : /\ DOMAIN Lines[d] \subseteq Items /\ DOMAIN Lines[d] # {}
                           /\ \A i \in DOMAIN Lines[d] : Lines[d][i] \in Nat \ {0}
    /\ Serials \subseteq Receipts
    /\ RmaItem \in [Rmas -> Items] /\ RmaQty \in [Rmas -> Nat \ {0}]
    /\ Weee \subseteq Rmas
    /\ Opening \in [Items -> Nat]
    /\ MaxCalls \in Nat /\ MaxFaults \in Nat

VARIABLES
    onHand,    \* inventory_items.qty_on_hand
    created,   \* inventory_items.created_at
    ledger,    \* SUM(delta) of inventory_transactions per item
    first,     \* MIN(created_at) of inventory_transactions per item
    posted,    \* how often the movement of a receipt or an RMA was posted
    receipt,   \* goods_receipts: the id stored for a hash, 0 when there is none
    rma,       \* inventory_rma.stock_movement_state
    assets,    \* assets seeded: <<receipt hash, receipt id>>
    op,        \* the call a client is in
    todo,      \* rows it still has to write
    start,     \* now() of its transaction
    now,       \* calls begun so far
    faults

stockVars == <<onHand, created, ledger, first, posted, receipt, rma, assets,
               op, todo, start, now, faults>>

tables == <<onHand, created, ledger, first, posted, receipt, rma>>

Docs == Receipts \cup Rmas
Never == MaxCalls + 1      \* later than every transaction

(***************************************************************************)
(* Calls and what they do                                                   *)
(***************************************************************************)
Call(k, d, s, f, t, q) ==
    [kind |-> k, doc |-> d, sku |-> s, from |-> f, to |-> t, qty |-> q]

NoCall == Call("none", 0, 0, 0, 0, 0)

Transfers == {Call("transfer", 0, p[1], p[2], p[3], p[4]) :
                 p \in {x \in Skus \X Locs \X Locs \X Qtys : x[2] # x[3]}}

Consumptions == {Call("consume", 0, p[1], p[2], 0, p[3]) : p \in Skus \X Locs \X Qtys}

DocCalls == {Call("receipt", d, 0, 0, 0, 0) : d \in Receipts}
       \cup {Call(k, d, 0, 0, 0, 0) : k \in {"record", "restock", "dispose"}, d \in Rmas}

Calls == Transfers \cup Consumptions \cup DocCalls

\* Items whose quantity the call changes.
Moved(o) ==
    CASE o.kind = "transfer" -> {<<o.from, o.sku>>, <<o.to, o.sku>>}
      [] o.kind = "consume" -> {<<o.from, o.sku>>}
      [] o.kind = "receipt" -> DOMAIN Lines[o.doc]
      [] o.kind \in {"restock", "dispose"} -> {RmaItem[o.doc]}
      [] OTHER -> {}

\* The delta it applies to one of them, and appends to the ledger.
Delta(o, i) ==
    CASE o.kind = "transfer" -> IF i = <<o.from, o.sku>> THEN -o.qty ELSE o.qty
      [] o.kind = "consume" -> -o.qty
      [] o.kind = "receipt" -> Lines[o.doc][i]
      [] o.kind = "restock" -> RmaQty[o.doc]
      [] o.kind = "dispose" -> -RmaQty[o.doc]

DocRow(d) == <<0, d, 0>>
ItemRow(i) == <<1, i[1], i[2]>>
LocNode(i) == <<2, i[1], 0>>
ItemNode(i) == <<2, i[1], i[2]>>
Seed(d) == <<3, d, 0>>         \* the hand-off to the assets engine

\* kg_nodes the call upserts: transfer, consumption and the RMA legs mirror
\* the location and the item; a receipt's own node is contended by nobody.
Mirrored(o) ==
    IF o.kind \in {"receipt", "record"} THEN {}
    ELSE {LocNode(i) : i \in Moved(o)} \cup {ItemNode(i) : i \in Moved(o)}

Rows(o) == {DocRow(d) : d \in {o.doc} \cap Docs}
      \cup {ItemRow(i) : i \in Moved(o)}
      \cup Mirrored(o)
      \cup {Seed(d) : d \in {o.doc} \cap Serials}

AllRows == UNION {Rows(o) : o \in Calls}

(***************************************************************************)
(* The order of a call's statements: the document is claimed first, then    *)
(* the item rows, then the mirror, then the hand-off.  Locations come in    *)
(* the order of _canonical_lock_order, the lines of a receipt in the order  *)
(* of their SKU, a location's node before its item's (key 0).               *)
(***************************************************************************)
CanonicalLockOrder_Direction(o, l, m) == l = o.from /\ m # o.from

CanonicalLockOrder(o, l, m) == l < m

Precedes(o, a, b) ==
    \/ a[1] < b[1]
    \/ a[1] = b[1] /\ CanonicalLockOrder(o, a[2], b[2])
    \/ a[1] = b[1] /\ a[2] = b[2] /\ a[3] < b[3]

Active(c) == op[c] # NoCall

Holds(c) == Rows(op[c]) \ todo[c]

IsNext(c, r) == /\ r \in todo[c]
                /\ \A x \in todo[c] \ {r} : Precedes(op[c], r, x)

Free(c, r) == \A d \in Clients \ {c} : r \notin Holds(d)

Waiting(c, d) == \E r \in todo[c] : IsNext(c, r) /\ r \in Holds(d)

(***************************************************************************)
(* The statements' WHERE clauses                                            *)
(***************************************************************************)
Claimable_Unguarded(o) ==
    CASE o.kind \in {"receipt", "record"} -> TRUE
      [] o.kind \in {"restock", "dispose"} -> rma[o.doc] = "pending"

\* do_record_goods_receipt and do_record_rma insert ON CONFLICT DO NOTHING and
\* move nothing on a conflict (do_record_rma only upserts the RMA's own graph
\* node again, which is left out); _claim_rma updates a pending row.
Claimable(o) ==
    CASE o.kind = "receipt" -> receipt[o.doc] = 0
      [] o.kind = "record" -> rma[o.doc] = "none"
      [] o.kind = "restock" -> rma[o.doc] = "pending"
      [] o.kind = "dispose" -> rma[o.doc] = "pending" /\ o.doc \in Weee

Enough_Unguarded(o, i) == TRUE

\* decrement_on_hand: qty_on_hand >= n.  increment_on_hand has no guard.
Enough(o, i) == onHand[i] + Delta(o, i) >= 0

Init ==
    /\ onHand = Opening
    /\ created = [i \in Items |-> IF Opening[i] > 0 THEN 0 ELSE Never]
    /\ ledger = [i \in Items |-> 0]
    /\ first = [i \in Items |-> Never]
    /\ posted = [d \in Docs |-> 0]
    /\ receipt = [d \in Receipts |-> 0]
    /\ rma = [d \in Rmas |-> "none"]
    /\ assets = {}
    /\ op = [c \in Clients |-> NoCall]
    /\ todo = [c \in Clients |-> {}]
    /\ start = [c \in Clients |-> 0]
    /\ now = 0
    /\ faults = 0

(***************************************************************************)
(* Actions                                                                  *)
(***************************************************************************)
Begin(c, o) ==
    /\ ~Active(c) /\ now < MaxCalls
    /\ now' = now + 1
    /\ op' = [op EXCEPT ![c] = o]
    /\ todo' = [todo EXCEPT ![c] = Rows(o)]
    /\ start' = [start EXCEPT ![c] = now + 1]
    /\ UNCHANGED <<tables, assets, faults>>

\* A statement that obtains its row and passes its WHERE clause.
Write(c, r) ==
    /\ Active(c) /\ IsNext(c, r) /\ Free(c, r)
    /\ todo' = [todo EXCEPT ![c] = @ \ {r}]
    /\ UNCHANGED <<tables, op, start, now, faults>>

ClaimDocument(c) ==
    /\ op[c].doc \in Docs /\ Claimable(op[c])
    /\ Write(c, DocRow(op[c].doc))
    /\ UNCHANGED assets

MoveItem(c, i) ==
    /\ i \in Moved(op[c]) /\ Enough(op[c], i)
    /\ Write(c, ItemRow(i))
    /\ UNCHANGED assets

UpsertKgNode(c, r) ==
    /\ r \in Mirrored(op[c])
    /\ Write(c, r)
    /\ UNCHANGED assets

\* _seed_assets_with_serials: its own connection, committed at once, and a
\* failure is only logged.
SeedAssets(c) ==
    /\ op[c].doc \in Serials
    /\ Write(c, Seed(op[c].doc))
    /\ assets' \in {assets, assets \cup {<<op[c].doc, start[c]>>}}

\* The transaction ends without effect.
End(c) ==
    /\ op' = [op EXCEPT ![c] = NoCall]
    /\ todo' = [todo EXCEPT ![c] = {}]
    /\ start' = [start EXCEPT ![c] = 0]
    /\ UNCHANGED <<tables, assets, now>>

\* A refusal or a replay: the row is ours and the WHERE clause is false.
Refuse(c) ==
    /\ Active(c)
    /\ \E r \in todo[c] :
         /\ IsNext(c, r) /\ Free(c, r)
         /\ \/ r = DocRow(op[c].doc) /\ op[c].doc \in Docs /\ ~Claimable(op[c])
            \/ \E i \in Moved(op[c]) : r = ItemRow(i) /\ ~Enough(op[c], i)
    /\ End(c)
    /\ UNCHANGED faults

\* OwnershipError, a lost connection, a crash: everything is rolled back.
Abort(c) ==
    /\ Active(c) /\ faults < MaxFaults
    /\ faults' = faults + 1
    /\ End(c)

MovementState(o) ==
    CASE o.kind = "record" -> "pending"
      [] o.kind = "restock" -> "restocked"
      [] o.kind = "dispose" -> "disposed"

LedgerDelta_NoTransferIn(o, i) ==
    IF o.kind = "transfer" /\ i # <<o.from, o.sku>> THEN 0 ELSE Delta(o, i)

LedgerDelta(o, i) == Delta(o, i)

Earliest(a, b) == IF a < b THEN a ELSE b

Commit(c) ==
    LET o == op[c] IN
    /\ Active(c) /\ todo[c] = {}
    /\ onHand' = [i \in Items |-> IF i \in Moved(o) THEN onHand[i] + Delta(o, i)
                                  ELSE onHand[i]]
    /\ created' = [i \in Items |-> IF i \in Moved(o) /\ created[i] = Never THEN start[c]
                                   ELSE created[i]]
    /\ ledger' = [i \in Items |-> IF i \in Moved(o) THEN ledger[i] + LedgerDelta(o, i)
                                  ELSE ledger[i]]
    /\ first' = [i \in Items |-> IF i \in Moved(o) THEN Earliest(first[i], start[c])
                                 ELSE first[i]]
    /\ posted' = [d \in Docs |-> IF d = o.doc /\ Moved(o) # {} THEN posted[d] + 1
                                 ELSE posted[d]]
    /\ receipt' = [d \in Receipts |-> IF d = o.doc THEN start[c] ELSE receipt[d]]
    /\ rma' = [d \in Rmas |-> IF d = o.doc THEN MovementState(o) ELSE rma[d]]
    /\ op' = [op EXCEPT ![c] = NoCall]
    /\ todo' = [todo EXCEPT ![c] = {}]
    /\ start' = [start EXCEPT ![c] = 0]
    /\ UNCHANGED <<assets, now, faults>>

StepOf(c) ==
    \/ ClaimDocument(c) \/ SeedAssets(c) \/ Refuse(c) \/ Commit(c)
    \/ \E i \in Items : MoveItem(c, i)
    \/ \E r \in todo[c] : UpsertKgNode(c, r)

(***************************************************************************)
(* classify_dead_stock_pairs: what do_reconcile_dead_stock says of a row.   *)
(* One statement reads both tables, so it sees the committed state.         *)
(***************************************************************************)
Classify(i) ==
    IF first[i] = Never \/ created[i] < first[i] THEN "unreconcilable"
    ELSE IF onHand[i] = ledger[i] THEN "balanced" ELSE "divergent"
=============================================================================
