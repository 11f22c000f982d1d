----------------------------- MODULE Inventory ------------------------------
(***************************************************************************)
(* Stock movements and kit reservations together, over the same             *)
(* inventory_items rows, and what the inventory module promises of them.    *)
(***************************************************************************)
EXTENDS Kitting, Functions

vars == <<stockVars, kitVars>>

StockNext ==
    /\ \E c \in Clients :
         \/ StepOf(c) \/ Abort(c)
         \/ \E o \in Calls : Begin(c, o)
    /\ UNCHANGED kitVars

InvInit == Init /\ KitInit
InvNext == StockNext \/ KitNext
Spec == InvInit /\ [][InvNext]_vars

(***************************************************************************)
(* Properties                                                               *)
(***************************************************************************)

StockTypeOK ==
    /\ onHand \in [Items -> Nat] /\ ledger \in [Items -> Int]
    /\ created \in [Items -> 0..Never] /\ first \in [Items -> 0..Never]
    /\ posted \in [Docs -> Nat]
    /\ receipt \in [Receipts -> 0..MaxCalls]
    /\ rma \in [Rmas -> {"none", "pending", "restocked", "disposed"}]
    /\ assets \subseteq Receipts \X (1..MaxCalls)
    /\ op \in [Clients -> Calls \cup {NoCall}]
    /\ todo \in [Clients -> SUBSET AllRows]
    /\ \A c \in Clients : todo[c] \subseteq Rows(op[c])
    /\ start \in [Clients -> 0..MaxCalls]
    /\ now \in 0..MaxCalls /\ faults \in 0..MaxFaults

KitTypeOK ==
    /\ reserved \in [Items -> Nat] /\ stray \in [Items -> Nat]
    /\ kpc \in [Kits -> {"idle", "reserving", "held", "undoing", "refused", "kept", "cut"}]
    /\ DOMAIN left = Kits /\ DOMAIN got = Kits /\ DOMAIN stuck = Kits
    /\ \A k \in Kits : left[k] \cup got[k] \cup stuck[k] \subseteq DOMAIN KitLines[k]
    /\ DOMAIN rel = Releasers
    /\ \A r \in Releasers :
         rel[r] # {} => \E k \in Kits : rel[r] \subseteq {k} \X DOMAIN KitLines[k]

\* The types, and with them no quantity below zero: CHECK (qty_on_hand >= 0) never has to
\* refuse what the guards of decrement_on_hand let through, whoever commits
\* between the guard and the COMMIT.
TypeOK == StockTypeOK /\ KitTypeOK

\* Nobody waits for everybody: whatever calls run at once, some session in
\* any group of sessions is not waiting for another of the group.  This is
\* what _canonical_lock_order, the sorted lines of a receipt and the order
\* document, items, mirror are for (stock.py:377, goods_receipt.py:435).
NoDeadlock ==
    \A S \in (SUBSET Clients) \ {{}} :
        \E c \in S : \A d \in S \ {c} : ~Waiting(c, d)

\* do_reconcile_dead_stock never cries wolf and never looks away: a row
\* that the ledger bore is always recognised as such and balances, and a row
\* with an opening balance is never judged, although ledger rows are stamped
\* with the start of transactions that commit in another order
\* (reconcile.py:202).
LedgerAgrees ==
    \A i \in Items : created[i] # Never =>
        Classify(i) = IF Opening[i] > 0 THEN "unreconcilable" ELSE "balanced"

\* A delivery is counted once and an RMA moves stock once, however often the
\* call is repeated, concurrently or after a lost transaction, and the
\* document's state tells whether it did (goods_receipt.py:1086, rma.py:510).
DocumentsOnce ==
    /\ \A d \in Receipts : posted[d] = IF receipt[d] # 0 THEN 1 ELSE 0
    /\ \A d \in Rmas : posted[d] = IF rma[d] \in {"restocked", "disposed"} THEN 1 ELSE 0

\* Units of item i that the lines of kit call k which stand reserve.
HeldBy(k, i) == SumFunctionOnSet([n \in DOMAIN KitLines[k] |-> LineQty(k, n)],
                                 {n \in got[k] : LineItem(k, n) = i})

\* A kit is reserved as a whole or not at all, unless the caller asked for
\* less (kitting.py:42).  The reserved quantity of an item is what the lines
\* that stand have reserved, short of the units strayed to callers who
\* released what was not theirs: that nobody does is "a caller-side accounting
\* invariant, not one this primitive enforces" (reservation.py:133-143).  A
\* refused kit keeps only the lines whose rollback failed, and a rollback
\* fails only after a fault or after such a stray release of the line's item.
KitsWhole ==
    /\ \A i \in Items :
         reserved[i] + stray[i] = SumFunctionOnSet([k \in Kits |-> HeldBy(k, i)], Kits)
    /\ \A k \in Kits :
         /\ kpc[k] = "refused" => got[k] = stuck[k]
         /\ \A n \in stuck[k] : faults > 0 \/ stray[LineItem(k, n)] > 0
=============================================================================
