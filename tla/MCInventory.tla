---------------------------- MODULE MCInventory -----------------------------
(***************************************************************************)
(* One article at two locations and a second one delivered with it; one     *)
(* delivery with two lines, one RMA, and two kit calls that want the same   *)
(* two articles in opposite order.                                          *)
(***************************************************************************)
EXTENDS Inventory, TLC

CONSTANTS c1, c2, k1, k2, r1

MCSkus == {1, 2}
MCLocs == {1, 2}
MCQtys == {1}
MCReceipts == {7}
MCLines == [d \in {7} |-> (<<1, 1>> :> 1 @@ <<1, 2>> :> 1)]
MCRmas == {8}
MCRmaItem == [d \in {8} |-> <<2, 1>>]
MCRmaQty == [d \in {8} |-> 1]
MCOpening == [i \in MCLocs \X MCSkus |-> IF i \in {<<1, 1>>, <<2, 2>>} THEN 1 ELSE 0]
MCKitLines == k1 :> (1 :> <<<<1, 1>>, 1>> @@ 2 :> <<<<1, 2>>, 1>>)
              @@ k2 :> (1 :> <<<<1, 2>>, 1>> @@ 2 :> <<<<1, 1>>, 1>>)
\* Bound: three stock and kit calls compete in one history, two of each where
\* no fault happens; release calls, as many as there is something to release,
\* run against at most one stock call.
Bounded == /\ now + Cardinality({k \in Kits : kpc[k] # "idle"}) < 4 \/ (now < 3 /\ faults = 0)
           /\ (\E r \in Releasers : rel[r] # {}) => now < 2

Symmetric == Permutations(Clients)
=============================================================================
