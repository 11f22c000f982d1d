------------------------------ MODULE Kitting -------------------------------
(***************************************************************************)
(* Reservations (reservation.py) and kits (kitting.py).  do_reserve_stock   *)
(* and do_release_stock are transactions of one statement on one            *)
(* inventory_items row; a kit call runs one of them per line, each          *)
(* committed on its own, and undoes the lines it reserved when a later line *)
(* is refused.  qty_reserved is one number per item: a release cannot tell  *)
(* whose reservation it takes, so anybody may release a kit at any time and *)
(* as often as they like.  do_reserve_stock and do_release_stock called     *)
(* directly are kits of one line.                                           *)
(***************************************************************************)
EXTENDS Stock, FiniteSets

CONSTANTS
    Kits,       \* do_reserve_kit calls
    KitLines,   \* a call's reservation targets: <<item, qty>> per line number
    Releasers   \* callers of do_release_kit

ASSUME KittingAssumption ==
    /\ IsFiniteSet(Kits)
    /\ \A k \in Kits :
         /\ IsFiniteSet(DOMAIN KitLines[k])
         /\ \A n \in DOMAIN KitLines[k] : KitLines[k][n] \in Items \X (Nat \ {0})

VARIABLES
    reserved,   \* inventory_items.qty_reserved
    kpc,        \* where a kit call is
    left,       \* its lines still to reserve or undo
    got,        \* its lines whose reservation stands
    rel,        \* lines <<kit, number>> a do_release_kit call still has to release
    stuck,      \* history: lines whose rollback failed
    stray       \* history: units released for a line that did not stand

kitVars == <<reserved, kpc, left, got, rel, stuck, stray>>

LineItem(k, n) == KitLines[k][n][1]
LineQty(k, n) == KitLines[k][n][2]

\* No open transaction holds the row the line's statement needs.
RowFree(k, n) == \A c \in Clients : ItemRow(LineItem(k, n)) \notin Holds(c)

Available(i) == onHand[i] - reserved[i]

KitInit ==
    /\ reserved = [i \in Items |-> 0]
    /\ kpc = [k \in Kits |-> "idle"]
    /\ left = [k \in Kits |-> {}]
    /\ got = [k \in Kits |-> {}]
    /\ rel = [r \in Releasers |-> {}]
    /\ stuck = [k \in Kits |-> {}]
    /\ stray = [i \in Items |-> 0]

\* The loop ends with its last line.
Leave(k, n, next) ==
    /\ left' = [left EXCEPT ![k] = @ \ {n}]
    /\ kpc' = IF left[k] = {n} THEN [kpc EXCEPT ![k] = next] ELSE kpc

ReserveKit(k) ==
    /\ kpc[k] = "idle"
    /\ kpc' = [kpc EXCEPT ![k] = "reserving"]
    /\ left' = [left EXCEPT ![k] = DOMAIN KitLines[k]]
    /\ UNCHANGED <<reserved, got, rel, stuck, stray, stockVars>>

\* Lines are taken in the order of the manifest.
Line(k, n) == /\ n \in left[k] /\ RowFree(k, n)
              /\ \A m \in left[k] : n <= m

\* Undone in reverse.
LastLine(k, n) == /\ n \in left[k] /\ RowFree(k, n)
                  /\ \A m \in left[k] : m <= n

ReserveStock(k, n) ==
    /\ kpc[k] = "reserving" /\ Line(k, n)
    /\ Available(LineItem(k, n)) >= LineQty(k, n)
    /\ reserved' = [reserved EXCEPT ![LineItem(k, n)] = @ + LineQty(k, n)]
    /\ got' = [got EXCEPT ![k] = @ \cup {n}]
    /\ Leave(k, n, "held")
    /\ UNCHANGED <<rel, stuck, stray, stockVars>>

RefuseLine_KeepsLines(k, n) ==
    /\ kpc[k] = "reserving" /\ Line(k, n)
    /\ Available(LineItem(k, n)) < LineQty(k, n)
    /\ left' = [left EXCEPT ![k] = {}]
    /\ kpc' = [kpc EXCEPT ![k] = "refused"]
    /\ UNCHANGED <<reserved, got, rel, stuck, stray, stockVars>>

\* InsufficientAvailableError: the lines reserved before are rolled back.
RefuseLine(k, n) ==
    /\ kpc[k] = "reserving" /\ Line(k, n)
    /\ Available(LineItem(k, n)) < LineQty(k, n)
    /\ left' = [left EXCEPT ![k] = got[k]]
    /\ kpc' = [kpc EXCEPT ![k] = IF got[k] = {} THEN "refused" ELSE "undoing"]
    /\ UNCHANGED <<reserved, got, rel, stuck, stray, stockVars>>

\* The same for a call with all_or_nothing = false: its lines stay reserved.
KeepLines(k, n) ==
    /\ kpc[k] = "reserving" /\ Line(k, n)
    /\ Available(LineItem(k, n)) < LineQty(k, n)
    /\ left' = [left EXCEPT ![k] = {}]
    /\ kpc' = [kpc EXCEPT ![k] = "kept"]
    /\ UNCHANGED <<reserved, got, rel, stuck, stray, stockVars>>

\* do_release_stock: UPDATE ... WHERE qty_reserved >= qty, OverReleaseError
\* when the row does not match.
Releasable(k, n) == reserved[LineItem(k, n)] >= LineQty(k, n)
Release(k, n) ==
    /\ Releasable(k, n)
    /\ reserved' = [reserved EXCEPT ![LineItem(k, n)] = @ - LineQty(k, n)]

UndoLine(k, n) ==
    /\ kpc[k] = "undoing" /\ LastLine(k, n)
    /\ Release(k, n)
    /\ got' = [got EXCEPT ![k] = @ \ {n}]
    /\ Leave(k, n, "refused")
    /\ UNCHANGED <<rel, stuck, stray, stockVars>>

\* A line whose release fails, for want of reserved units or otherwise, is
\* logged and skipped.
UndoFails(k, n) ==
    /\ kpc[k] = "undoing" /\ LastLine(k, n)
    /\ \/ ~Releasable(k, n) /\ UNCHANGED faults
       \/ faults < MaxFaults /\ faults' = faults + 1
    /\ stuck' = [stuck EXCEPT ![k] = @ \cup {n}]
    /\ Leave(k, n, "refused")
    /\ UNCHANGED <<reserved, got, rel, stray, tables, assets, op, todo, start, now>>

\* Any other exception, or a crash: the call stops where it is.
CutOff(k) ==
    /\ kpc[k] \in {"reserving", "undoing"} /\ faults < MaxFaults
    /\ faults' = faults + 1
    /\ kpc' = [kpc EXCEPT ![k] = "cut"]
    /\ left' = [left EXCEPT ![k] = {}]
    /\ UNCHANGED <<reserved, got, rel, stuck, stray, tables, assets, op, todo, start, now>>

\* do_release_kit, for any kit, whether it was ever reserved or not.
ReleaseKit(r, k) ==
    /\ rel[r] = {}
    /\ rel' = [rel EXCEPT ![r] = {k} \X DOMAIN KitLines[k]]
    /\ UNCHANGED <<reserved, kpc, left, got, stuck, stray, stockVars>>

FirstLine(r, l) == /\ l \in rel[r]
                   /\ \A m \in rel[r] : l[2] <= m[2]

\* The kit has the line and is not itself about to use or undo it: releasing
\* it gives back what the kit reserved.  Any other release takes units that
\* somebody else answers for.
Stands(k, n) == n \in got[k] /\ kpc[k] \notin {"reserving", "undoing"}

ReleaseLine(r, k, n) ==
    /\ FirstLine(r, <<k, n>>) /\ RowFree(k, n)
    /\ Release(k, n)
    /\ rel' = [rel EXCEPT ![r] = @ \ {<<k, n>>}]
    /\ IF Stands(k, n)
         THEN /\ got' = [got EXCEPT ![k] = @ \ {n}]
              /\ stuck' = [stuck EXCEPT ![k] = @ \ {n}]
              /\ UNCHANGED stray
         ELSE /\ stray' = [stray EXCEPT ![LineItem(k, n)] = @ + LineQty(k, n)]
              /\ UNCHANGED <<got, stuck>>
    /\ UNCHANGED <<kpc, left, stockVars>>

\* OverReleaseError: the call ends, the lines released before stay released.
ReleaseRefused(r, k, n) ==
    /\ FirstLine(r, <<k, n>>) /\ ~Releasable(k, n)
    /\ rel' = [rel EXCEPT ![r] = {}]
    /\ UNCHANGED <<reserved, kpc, left, got, stuck, stray, stockVars>>

\* Any other exception, or a crash.
ReleaseCut(r) ==
    /\ rel[r] # {} /\ faults < MaxFaults
    /\ faults' = faults + 1
    /\ rel' = [rel EXCEPT ![r] = {}]
    /\ UNCHANGED <<reserved, kpc, left, got, stuck, stray, tables, assets, op, todo, start, now>>

KitStep(k) ==
    \/ ReserveKit(k) \/ CutOff(k)
    \/ \E n \in left[k] : \/ ReserveStock(k, n) \/ RefuseLine(k, n)
                          \/ KeepLines(k, n) \/ UndoLine(k, n)
                          \/ UndoFails(k, n)

ReleaseStep(r) ==
    \/ \E k \in Kits : ReleaseKit(r, k)
    \/ ReleaseCut(r)
    \/ \E l \in rel[r] : ReleaseLine(r, l[1], l[2]) \/ ReleaseRefused(r, l[1], l[2])

KitNext == (\E k \in Kits : KitStep(k)) \/ (\E r \in Releasers : ReleaseStep(r))
=============================================================================
