-------------------------- MODULE InventoryProofs ---------------------------
(***************************************************************************)
(* Proofs about Inventory, for any sets of sessions, articles, locations,   *)
(* receipts, RMAs and kits, and any number of calls and faults.             *)
(***************************************************************************)
EXTENDS Inventory, SumTheorems

LEMMA Constants ==
    /\ MaxKey \in Nat /\ MaxCalls \in Nat /\ MaxFaults \in Nat
    /\ Skus \subseteq 1..MaxKey /\ Locs \subseteq 1..MaxKey
    /\ Receipts \subseteq 1..MaxKey /\ Rmas \subseteq 1..MaxKey
    /\ Receipts \cap Rmas = {} /\ Serials \subseteq Receipts
    /\ Qtys \subseteq Nat \ {0}
BY StockAssumption

LEMMA Documents ==
    /\ \A d \in Receipts : /\ DOMAIN Lines[d] \subseteq Items /\ DOMAIN Lines[d] # {}
                           /\ \A i \in DOMAIN Lines[d] : Lines[d][i] \in Nat
    /\ \A d \in Rmas : RmaItem[d] \in Items /\ RmaQty[d] \in Nat
    /\ Opening \in [Items -> Nat]
BY StockAssumption

(***************************************************************************)
(* Facts about calls and rows                                               *)
(***************************************************************************)
LEMMA CallKinds ==
    ASSUME NEW o \in Calls \cup {NoCall}
    PROVE  \/ o \in Transfers /\ o.kind = "transfer" /\ o.doc = 0 /\ o.qty \in Nat
              /\ o.sku \in Skus /\ o.from \in Locs /\ o.to \in Locs /\ o.from # o.to
           \/ o \in Consumptions /\ o.kind = "consume" /\ o.doc = 0 /\ o.qty \in Nat
              /\ o.sku \in Skus /\ o.from \in Locs
           \/ o.kind = "receipt" /\ o.doc \in Receipts
           \/ o.kind \in {"record", "restock", "dispose"} /\ o.doc \in Rmas
           \/ o = NoCall /\ o.kind = "none" /\ o.doc = 0
<1>1. CASE o \in Transfers
  <2>1. PICK p \in {x \in Skus \X Locs \X Locs \X Qtys : x[2] # x[3]} :
              o = Call("transfer", 0, p[1], p[2], p[3], p[4])
    BY <1>1 DEF Transfers
  <2> QED
    BY <1>1, <2>1, Constants DEF Call
<1>2. CASE o \in Consumptions
  <2>1. PICK p \in Skus \X Locs \X Qtys : o = Call("consume", 0, p[1], p[2], 0, p[3])
    BY <1>2 DEF Consumptions
  <2> QED
    BY <1>2, <2>1, Constants DEF Call
<1>3. CASE o \in DocCalls \cup {NoCall}
  BY <1>3 DEF NoCall, DocCalls, Call
<1> QED
  BY <1>1, <1>2, <1>3 DEF Calls

LEMMA MovedType ==
    ASSUME NEW o \in Calls \cup {NoCall}
    PROVE  /\ Moved(o) \subseteq Items
           /\ \A i \in Moved(o) : Delta(o, i) \in Int
           /\ o.kind = "receipt" => Moved(o) # {}
           /\ o.kind \in {"restock", "dispose"} => Moved(o) # {}
           /\ o.kind \in {"record", "none"} => Moved(o) = {}
<1>1. CASE o.kind = "transfer"
  BY <1>1, CallKinds DEF Moved, Delta, Items
<1>2. CASE o.kind = "consume"
  BY <1>2, CallKinds DEF Moved, Delta, Items
<1>3. CASE o.kind = "receipt"
  BY <1>3, CallKinds, Documents DEF Moved, Delta, Items
<1>4. CASE o.kind \in {"restock", "dispose"}
  BY <1>4, CallKinds, Documents DEF Moved, Delta, Items
<1>5. CASE o.kind \in {"record", "none"}
  BY <1>5, CallKinds DEF Moved, Delta, Items
<1> QED
  BY <1>1, <1>2, <1>3, <1>4, <1>5, CallKinds

LEMMA ItemParts ==
    ASSUME NEW i \in Items
    PROVE  i = <<i[1], i[2]>> /\ i[1] \in 1..MaxKey /\ i[2] \in 1..MaxKey
<1>1. i[1] \in Locs /\ i[2] \in Skus /\ i = <<i[1], i[2]>>
  BY DEF Items
<1> QED
  BY <1>1, Constants

LEMMA RowsApart ==
    ASSUME NEW i \in Items, NEW j \in Items, NEW d, NEW e
    PROVE  /\ ItemRow(i) = ItemRow(j) => i = j
           /\ DocRow(d) # ItemRow(i) /\ DocRow(d) # LocNode(i) /\ DocRow(d) # ItemNode(i)
           /\ DocRow(d) # Seed(e) /\ ItemRow(i) # Seed(d)
           /\ ItemRow(i) # LocNode(j) /\ ItemRow(i) # ItemNode(j)
           /\ DocRow(d) = DocRow(e) => d = e
BY ItemParts DEF ItemRow, DocRow, LocNode, ItemNode, Seed

Keys == (0..3) \X (0..MaxKey) \X (0..MaxKey)

LEMMA RowsType ==
    ASSUME NEW o \in Calls \cup {NoCall}
    PROVE  /\ Rows(o) \subseteq Keys
           /\ o = NoCall => Rows(o) = {}
           /\ o \in Calls => Rows(o) \subseteq AllRows
<1>1. \A i \in Moved(o) : i \in Items
  BY MovedType
<1>2. o = NoCall => Rows(o) = {}
  <2> SUFFICES ASSUME o = NoCall PROVE Rows(o) = {}
    OBVIOUS
  <2>1. o.kind = "none" /\ o.doc = 0
    BY DEF NoCall, Call
  <2>2. Moved(o) = {} /\ 0 \notin Docs /\ 0 \notin Serials
    BY <2>1, MovedType, Constants DEF Docs
  <2> QED
    BY <2>1, <2>2 DEF Rows, Mirrored
<1>3. \A i \in Items : {ItemRow(i), LocNode(i), ItemNode(i)} \subseteq Keys
  BY ItemParts, Constants DEF ItemRow, LocNode, ItemNode, Keys
<1>4. \A d \in Docs : {DocRow(d), Seed(d)} \subseteq Keys
  BY Constants DEF DocRow, Seed, Keys, Docs
<1>5. Serials \subseteq Docs
  BY Constants DEF Docs
<1> QED
  BY <1>1, <1>2, <1>3, <1>4, <1>5 DEF Rows, Mirrored, AllRows

\* The order of the statements is a strict order on the rows.
LEMMA OrderStrict ==
    ASSUME NEW o, NEW p, NEW q, NEW a \in Keys, NEW b \in Keys, NEW x \in Keys
    PROVE  /\ ~Precedes(o, a, a)
           /\ Precedes(o, a, b) /\ Precedes(p, b, x) => Precedes(q, a, x)
BY Constants DEF Precedes, CanonicalLockOrder, Keys

(***************************************************************************)
(* A set of rows that is not empty has a last one.                          *)
(***************************************************************************)
LEMMA Greatest ==
    ASSUME NEW N \in Nat, NEW T \in SUBSET (0..N), T # {}
    PROVE  \E x \in T : \A y \in T : y <= x
<1> DEFINE U == {N - x : x \in T}
<1>1. U \subseteq Nat /\ U # {}
  <2>1. \A x \in T : x \in 0..N
    OBVIOUS
  <2>2. \A x \in T : N - x \in Nat
    BY <2>1
  <2>3. PICK t \in T : TRUE
    OBVIOUS
  <2> QED
    BY <2>2, <2>3
<1> DEFINE R == {p \in Nat \X Nat : p[1] < p[2]}
<1>0. IsWellFoundedOn(R, Nat)
  BY NatLessThanWellFounded DEF OpToRel
<1>2. PICK u \in U : \A v \in U : ~(<<v, u>> \in R)
  <2> HIDE DEF R, U
  <2> QED
    BY <1>0, <1>1, WFMin
<1>3. \A v \in U : ~(v < u)
  BY <1>1, <1>2
<1>4. PICK x \in T : u = N - x
  OBVIOUS
<1>5. ASSUME NEW y \in T PROVE y <= x
  <2>1. N - y \in U
    OBVIOUS
  <2>2. ~(N - y < N - x)
    BY <2>1, <1>3, <1>4
  <2> QED
    BY <2>2, <1>4
<1> QED
  BY <1>4, <1>5

LEMMA LastRow ==
    ASSUME NEW T \in SUBSET Keys, T # {}
    PROVE  \E x \in T : \A o : \A y \in T : ~Precedes(o, x, y)
<1> DEFINE A == {x[1] : x \in T}
<1>1. A \in SUBSET (0..3) /\ A # {}
  BY DEF Keys
<1>2. PICK a \in A : \A y \in A : y <= a
  BY <1>1, Greatest
<1> DEFINE TA == {x \in T : x[1] = a}
           B == {x[2] : x \in TA}
<1>3. B \in SUBSET (0..MaxKey) /\ B # {}
  BY <1>2 DEF Keys
<1>4. PICK b \in B : \A y \in B : y <= b
  BY <1>3, Greatest, Constants
<1> DEFINE TB == {x \in TA : x[2] = b}
           C == {x[3] : x \in TB}
<1>5. C \in SUBSET (0..MaxKey) /\ C # {}
  BY <1>4 DEF Keys
<1>6. PICK c \in C : \A y \in C : y <= c
  BY <1>5, Greatest, Constants
<1>7. PICK x \in TB : x[3] = c
  BY <1>6
<1>8. ASSUME NEW o, NEW y \in T PROVE ~Precedes(o, x, y)
  <2>1. /\ x \in Keys /\ y \in Keys /\ x[1] = a /\ x[2] = b /\ y[1] <= x[1]
        /\ y[1] = a => y[2] <= b
        /\ y[1] = a /\ y[2] = b => y[3] <= c
    BY <1>2, <1>4, <1>6, <1>7
  <2> QED
    BY <2>1, <1>7, Constants DEF Precedes, CanonicalLockOrder, Keys
<1> QED
  BY <1>7, <1>8

(***************************************************************************)
(* The inductive invariant                                                  *)
(***************************************************************************)

\* No two transactions hold a row.
Exclusive ==
    \A c, d \in Clients : c # d => Holds(c) \cap Holds(d) = {}

\* What a call holds comes before what it still wants.
Ascending ==
    \A c \in Clients : \A a \in Holds(c), b \in todo[c] : Precedes(op[c], a, b)

\* A condition checked when a row was obtained still holds: nobody else can
\* have committed a change of the row.
Checked ==
    \A c \in Clients :
        /\ op[c].doc \in Docs /\ DocRow(op[c].doc) \in Holds(c) => Claimable(op[c])
        /\ \A i \in Moved(op[c]) : ItemRow(i) \in Holds(c) => Enough(op[c], i)

\* The ledger accounts for every unit since the opening, and a row the ledger
\* bore is no older than its first ledger row.
Accounted ==
    /\ \A c \in Clients : Active(c) => start[c] >= 1
    /\ \A i \in Items :
        /\ onHand[i] = Opening[i] + ledger[i]
        /\ Opening[i] > 0 => created[i] = 0 /\ first[i] >= 1
        /\ Opening[i] = 0 => created[i] >= first[i] /\ (first[i] = Never => created[i] = Never)

IInv == TypeOK /\ Exclusive /\ Ascending /\ Checked /\ Accounted /\ DocumentsOnce

LEMMA IInit == InvInit => IInv
<1> SUFFICES ASSUME InvInit PROVE IInv
  OBVIOUS
<1> USE Constants, Documents DEF InvInit, Init, KitInit
<1>1. \A c \in Clients : op[c] = NoCall /\ Holds(c) = {}
  BY RowsType DEF Holds
<1>2. StockTypeOK
  BY RowsType DEF StockTypeOK, Never
<1>3. KitTypeOK
  BY DEF KitTypeOK
<1>4. Exclusive /\ Ascending /\ Checked
  BY <1>1, MovedType DEF Exclusive, Ascending, Checked
<1>5. Accounted
  BY <1>1 DEF Accounted, Never, Active
<1>6. DocumentsOnce
  BY DEF DocumentsOnce, Docs
<1> QED
  BY <1>2, <1>3, <1>4, <1>5, <1>6 DEF IInv, TypeOK

\* What a session holds only depends on its own call.
LEMMA HoldsFrame ==
    ASSUME NEW c \in Clients, op'[c] = op[c], todo'[c] = todo[c]
    PROVE  Holds(c)' = Holds(c)
BY DEF Holds

LEMMA BeginStep ==
    ASSUME IInv, NEW c \in Clients, NEW o \in Calls, Begin(c, o), UNCHANGED kitVars
    PROVE  IInv'
<1> USE DEF Begin, tables, kitVars
<1>1. /\ op' = [op EXCEPT ![c] = o] /\ todo' = [todo EXCEPT ![c] = Rows(o)]
      /\ op'[c] = o /\ todo'[c] = Rows(o)
      /\ \A d \in Clients \ {c} : op'[d] = op[d] /\ todo'[d] = todo[d]
  BY DEF IInv, TypeOK, StockTypeOK
<1>2. Holds(c)' = {} /\ \A d \in Clients \ {c} : Holds(d)' = Holds(d)
  BY <1>1 DEF Holds
<1>3. StockTypeOK'
  <2>1. StockTypeOK
    BY DEF IInv, TypeOK
  <2>2. op' \in [Clients -> Calls \cup {NoCall}] /\ todo' \in [Clients -> SUBSET AllRows]
    BY <2>1, RowsType DEF StockTypeOK
  <2>3. \A d \in Clients : todo'[d] \subseteq Rows(op'[d])
    BY <2>1, <1>1 DEF StockTypeOK
  <2>4. now' \in 0..MaxCalls /\ start' \in [Clients -> 0..MaxCalls]
    BY <2>1, Constants DEF StockTypeOK
  <2> QED
    BY <2>1, <2>2, <2>3, <2>4 DEF StockTypeOK
<1>4. KitTypeOK'
  BY DEF IInv, TypeOK, KitTypeOK
<1>5. Exclusive' /\ Ascending'
  BY <1>1, <1>2 DEF IInv, Exclusive, Ascending
<1>6. Checked'
  BY <1>1, <1>2 DEF IInv, Checked, Claimable, Enough
<1>7. Accounted'
  <2>1. \A d \in Clients : Active(d)' => start'[d] >= 1
    BY <1>1, Constants DEF IInv, TypeOK, StockTypeOK, Accounted, Active
  <2> QED
    BY <2>1 DEF IInv, Accounted
<1>8. DocumentsOnce'
  BY DEF IInv, DocumentsOnce
<1> QED
  BY <1>3, <1>4, <1>5, <1>6, <1>7, <1>8 DEF IInv, TypeOK

\* A statement that obtained its row.
LEMMA WriteStep ==
    ASSUME IInv, NEW c \in Clients, NEW r, Write(c, r), UNCHANGED kitVars,
           assets' \subseteq Receipts \X (1..MaxCalls),
           \A d \in Docs : r = DocRow(d) /\ op[c].doc = d => Claimable(op[c]),
           \A i \in Moved(op[c]) : r = ItemRow(i) => Enough(op[c], i)
    PROVE  IInv'
<1> USE DEF Write, tables, kitVars
<1>0. op[c] \in Calls \cup {NoCall} /\ todo[c] \subseteq Rows(op[c])
  BY DEF IInv, TypeOK, StockTypeOK
<1>1. /\ op' = op /\ r \in todo[c] /\ todo'[c] = todo[c] \ {r}
      /\ \A d \in Clients \ {c} : todo'[d] = todo[d]
  BY DEF IInv, TypeOK, StockTypeOK, IsNext
<1>2. Holds(c)' = Holds(c) \cup {r} /\ \A d \in Clients \ {c} : Holds(d)' = Holds(d)
  BY <1>0, <1>1 DEF Holds
<1>3. StockTypeOK'
  BY <1>1 DEF IInv, TypeOK, StockTypeOK
<1>4. KitTypeOK'
  BY DEF IInv, TypeOK, KitTypeOK
<1>5. Exclusive'
  BY <1>2 DEF IInv, Exclusive, Free
<1>6. Ascending'
  <2> SUFFICES ASSUME NEW d \in Clients, NEW a \in Holds(d)', NEW b \in todo'[d]
               PROVE  Precedes(op[d], a, b)
    BY <1>1 DEF Ascending, Precedes, CanonicalLockOrder
  <2>1. CASE d = c /\ a = r
    BY <2>1, <1>1 DEF IsNext
  <2>2. CASE d # c \/ a # r
    BY <2>2, <1>1, <1>2 DEF IInv, Ascending
  <2> QED
    BY <2>1, <2>2
<1>7. Checked'
  BY <1>1, <1>2 DEF IInv, Checked, Claimable, Enough
<1>8. Accounted' /\ DocumentsOnce'
  BY DEF IInv, Accounted, DocumentsOnce, Active
<1> QED
  BY <1>3, <1>4, <1>5, <1>6, <1>7, <1>8 DEF IInv, TypeOK

\* A transaction that ends without effect.
LEMMA EndStep ==
    ASSUME IInv, NEW c \in Clients, End(c), UNCHANGED kitVars,
           faults' \in 0..MaxFaults
    PROVE  IInv'
<1> USE DEF End, tables, kitVars
<1>1. /\ op'[c] = NoCall /\ todo'[c] = {}
      /\ \A d \in Clients \ {c} : op'[d] = op[d] /\ todo'[d] = todo[d]
  BY DEF IInv, TypeOK, StockTypeOK
<1>2. Holds(c)' = {} /\ \A d \in Clients \ {c} : Holds(d)' = Holds(d)
  BY <1>1, RowsType DEF Holds
<1>3. StockTypeOK'
  <2>1. start' \in [Clients -> 0..MaxCalls]
    BY Constants DEF IInv, TypeOK, StockTypeOK
  <2> QED
    BY <1>1, <2>1 DEF IInv, TypeOK, StockTypeOK
<1>4. KitTypeOK'
  BY DEF IInv, TypeOK, KitTypeOK
<1>5. Exclusive' /\ Ascending'
  BY <1>1, <1>2 DEF IInv, Exclusive, Ascending
<1>6. Checked'
  BY <1>1, <1>2 DEF IInv, Checked, Claimable, Enough
<1>7. Accounted'
  BY <1>1 DEF IInv, Accounted, Active
<1>8. DocumentsOnce'
  BY DEF IInv, DocumentsOnce
<1> QED
  BY <1>3, <1>4, <1>5, <1>6, <1>7, <1>8 DEF IInv, TypeOK

LEMMA StatementStep ==
    ASSUME IInv, NEW c \in Clients, UNCHANGED kitVars,
           \/ ClaimDocument(c) \/ SeedAssets(c)
           \/ \E i \in Items : MoveItem(c, i)
           \/ \E r \in todo[c] : UpsertKgNode(c, r)
    PROVE  IInv'
<1>0. /\ op[c] \in Calls \cup {NoCall} /\ Moved(op[c]) \subseteq Items
      /\ assets \subseteq Receipts \X (1..MaxCalls)
  BY MovedType DEF IInv, TypeOK, StockTypeOK
<1>1. CASE ClaimDocument(c)
  BY <1>0, <1>1, WriteStep, RowsApart DEF ClaimDocument
<1>2. CASE SeedAssets(c)
  <2>1. start[c] \in 1..MaxCalls
    BY <1>2 DEF SeedAssets, Write, IInv, TypeOK, StockTypeOK, Accounted
  <2>2. op[c].doc \in Receipts
    BY <1>2, Constants DEF SeedAssets
  <2>3. assets' \subseteq Receipts \X (1..MaxCalls)
    BY <1>0, <1>2, <2>1, <2>2 DEF SeedAssets
  <2>4. /\ \A d : DocRow(d) # Seed(op[c].doc)
        /\ \A i \in Moved(op[c]) : ItemRow(i) # Seed(op[c].doc)
    BY <1>0, RowsApart DEF DocRow, Seed
  <2>5. Write(c, Seed(op[c].doc))
    BY <1>2 DEF SeedAssets
  <2> QED
    BY <2>3, <2>4, <2>5, WriteStep
<1>3. ASSUME NEW i \in Items, MoveItem(c, i) PROVE IInv'
  BY <1>0, <1>3, WriteStep, RowsApart DEF MoveItem
<1>4. ASSUME NEW r \in todo[c], UpsertKgNode(c, r) PROVE IInv'
  <2>1. \E i \in Items : r = LocNode(i) \/ r = ItemNode(i)
    BY <1>0, <1>4 DEF UpsertKgNode, Mirrored
  <2> QED
    BY <1>0, <1>4, <2>1, WriteStep, RowsApart DEF UpsertKgNode
<1> QED
  BY <1>1, <1>2, <1>3, <1>4

LEMMA RowsCover ==
    ASSUME NEW o
    PROVE  /\ \A i \in Moved(o) : ItemRow(i) \in Rows(o)
           /\ o.doc \in Docs => DocRow(o.doc) \in Rows(o)
BY DEF Rows

LEMMA DocKinds ==
    ASSUME NEW o \in Calls \cup {NoCall}, o.doc \in Docs
    PROVE  \/ o.kind = "receipt" /\ o.doc \in Receipts
           \/ o.kind = "record" /\ o.doc \in Rmas
           \/ o.kind = "restock" /\ o.doc \in Rmas
           \/ o.kind = "dispose" /\ o.doc \in Rmas
<1>1. o.doc # 0
  BY Constants DEF Docs
<1> QED
  BY <1>1, CallKinds

LEMMA ClaimKinds ==
    ASSUME NEW o \in Calls \cup {NoCall}, o.doc \in Docs, Claimable(o)
    PROVE  \/ /\ o.kind = "receipt" /\ o.doc \in Receipts /\ receipt[o.doc] = 0
              /\ Moved(o) # {}
           \/ /\ o.kind \in {"record", "restock", "dispose"} /\ o.doc \in Rmas
              /\ o.kind = "record" => rma[o.doc] = "none" /\ Moved(o) = {}
              /\ o.kind # "record" => rma[o.doc] = "pending" /\ Moved(o) # {}
<1>1. /\ o.kind = "receipt" => receipt[o.doc] = 0
      /\ o.kind = "record" => rma[o.doc] = "none"
      /\ o.kind \in {"restock", "dispose"} => rma[o.doc] = "pending"
  BY DEF Claimable
<1> QED
  BY <1>1, DocKinds, MovedType

LEMMA CommitStep ==
    ASSUME IInv, NEW c \in Clients, Commit(c), UNCHANGED kitVars
    PROVE  IInv'
<1> DEFINE o == op[c]
<1> USE DEF Commit, kitVars
<1>0. /\ o \in Calls /\ Moved(o) \subseteq Items /\ Holds(c) = Rows(o)
      /\ \A i \in Moved(o) : Delta(o, i) \in Int
      /\ start[c] \in 1..MaxCalls
  BY MovedType DEF IInv, TypeOK, StockTypeOK, Active, Holds, Accounted
<1>1. /\ op'[c] = NoCall /\ todo'[c] = {}
      /\ \A d \in Clients \ {c} : op'[d] = op[d] /\ todo'[d] = todo[d]
  BY DEF IInv, TypeOK, StockTypeOK
<1>2. Holds(c)' = {} /\ \A d \in Clients \ {c} : Holds(d)' = Holds(d)
  BY <1>1, RowsType DEF Holds
<1>3. /\ \A i \in Moved(o) : ItemRow(i) \in Holds(c) /\ onHand[i] + Delta(o, i) >= 0
      /\ o.doc \in Docs => DocRow(o.doc) \in Holds(c) /\ Claimable(o)
  BY <1>0, RowsCover DEF IInv, Checked, Enough
\* The claim says which kind of document it is and that it is not settled.
<1>4. \/ o.doc \notin Docs
      \/ /\ o.kind = "receipt" /\ o.doc \in Receipts /\ receipt[o.doc] = 0
         /\ Moved(o) # {}
      \/ /\ o.kind \in {"record", "restock", "dispose"} /\ o.doc \in Rmas
         /\ o.kind = "record" => rma[o.doc] = "none" /\ Moved(o) = {}
         /\ o.kind # "record" => rma[o.doc] = "pending" /\ Moved(o) # {}
  BY <1>0, <1>3, ClaimKinds
<1>5. onHand' \in [Items -> Nat] /\ ledger' \in [Items -> Int]
  BY <1>0, <1>3 DEF IInv, TypeOK, StockTypeOK, LedgerDelta
<1>6. created' \in [Items -> 0..Never] /\ first' \in [Items -> 0..Never]
  BY <1>0, Constants DEF IInv, TypeOK, StockTypeOK, Earliest, Never
<1>7. /\ posted' \in [Docs -> Nat] /\ receipt' \in [Receipts -> 0..MaxCalls]
      /\ rma' \in [Rmas -> {"none", "pending", "restocked", "disposed"}]
  BY <1>0, <1>4, Constants DEF IInv, TypeOK, StockTypeOK, MovementState, Docs
<1>8. StockTypeOK'
  <2>1. start' \in [Clients -> 0..MaxCalls]
    BY Constants DEF IInv, TypeOK, StockTypeOK
  <2> QED
    BY <1>1, <1>5, <1>6, <1>7, <2>1 DEF IInv, TypeOK, StockTypeOK
<1>9. KitTypeOK'
  BY DEF IInv, TypeOK, KitTypeOK
<1>10. Exclusive' /\ Ascending'
  BY <1>1, <1>2 DEF IInv, Exclusive, Ascending
<1>11. Checked'
  <2> SUFFICES ASSUME NEW d \in Clients \ {c}
               PROVE  /\ op[d].doc \in Docs /\ DocRow(op[d].doc) \in Holds(d)
                            => Claimable(op[d])'
                      /\ \A i \in Moved(op[d]) : ItemRow(i) \in Holds(d)
                            => Enough(op[d], i)'
    <3>1. op'[c].doc \notin Docs /\ Moved(op'[c]) = {}
      BY <1>1, MovedType, Constants DEF NoCall, Call, Docs
    <3> QED
      BY <1>1, <1>2, <3>1 DEF Checked
  <2>1. Holds(c) \cap Holds(d) = {} /\ op'[d] = op[d] /\ op[d] \in Calls \cup {NoCall}
    BY <1>1 DEF IInv, Exclusive, TypeOK, StockTypeOK
  <2>2. ASSUME op[d].doc \in Docs, DocRow(op[d].doc) \in Holds(d)
        PROVE  Claimable(op[d])'
    <3>1. op[d].doc # o.doc
      BY <1>3, <2>1, <2>2
    <3>2. /\ op[d].doc \in Receipts => receipt'[op[d].doc] = receipt[op[d].doc]
          /\ op[d].doc \in Rmas => rma'[op[d].doc] = rma[op[d].doc]
      BY <3>1
    <3>3. Claimable(op[d])
      BY <2>2 DEF IInv, Checked
    <3> QED
      <4> HIDE DEF Commit
      <4>1. CASE op[d].kind = "receipt" /\ op[d].doc \in Receipts
        BY <4>1, <2>1, <3>2, <3>3 DEF Claimable
      <4>2. CASE op[d].kind = "record" /\ op[d].doc \in Rmas
        BY <4>2, <2>1, <3>2, <3>3 DEF Claimable
      <4>3. CASE op[d].kind = "restock" /\ op[d].doc \in Rmas
        BY <4>3, <2>1, <3>2, <3>3 DEF Claimable
      <4>4. CASE op[d].kind = "dispose" /\ op[d].doc \in Rmas
        BY <4>4, <2>1, <3>2, <3>3 DEF Claimable
      <4> QED
        BY <2>1, <2>2, <4>1, <4>2, <4>3, <4>4, DocKinds
  <2>3. ASSUME NEW i \in Moved(op[d]), ItemRow(i) \in Holds(d)
        PROVE  Enough(op[d], i)'
    <3>1. i \in Items /\ i \notin Moved(o)
      BY <1>3, <2>1, <2>3, MovedType
    <3>2. Enough(op[d], i)
      BY <2>3 DEF IInv, Checked
    <3> QED
      BY <2>1, <3>1, <3>2 DEF Enough, Delta
  <2> QED
    BY <2>2, <2>3
<1>12. Accounted'
  <2>1. \A d \in Clients : Active(d)' => start'[d] >= 1
    BY <1>1 DEF IInv, Accounted, Active
  <2>2. ASSUME NEW i \in Items
        PROVE  /\ onHand'[i] = Opening[i] + ledger'[i]
               /\ Opening[i] > 0 => created'[i] = 0 /\ first'[i] >= 1
               /\ Opening[i] = 0 => /\ created'[i] >= first'[i]
                                    /\ first'[i] = Never => created'[i] = Never
    <3>1. /\ onHand[i] = Opening[i] + ledger[i]
          /\ Opening[i] > 0 => created[i] = 0 /\ first[i] >= 1
          /\ Opening[i] = 0 => created[i] >= first[i] /\ (first[i] = Never => created[i] = Never)
          /\ onHand[i] \in Nat /\ ledger[i] \in Int /\ Opening[i] \in Nat
          /\ created[i] \in 0..Never /\ first[i] \in 0..Never
      BY Documents DEF IInv, Accounted, TypeOK, StockTypeOK
    <3>2. CASE i \notin Moved(o)
      BY <3>1, <3>2
    <3>3. CASE i \in Moved(o)
      <4>1. /\ onHand'[i] = onHand[i] + Delta(o, i) /\ ledger'[i] = ledger[i] + Delta(o, i)
            /\ Delta(o, i) \in Int
        BY <1>0, <3>3 DEF LedgerDelta
      <4>2. /\ created'[i] = IF created[i] = Never THEN start[c] ELSE created[i]
            /\ first'[i] = IF first[i] < start[c] THEN first[i] ELSE start[c]
        BY <3>3 DEF Earliest
      <4> QED
        BY <1>0, <3>1, <4>1, <4>2, Constants DEF Never
    <3> QED
      BY <3>2, <3>3
  <2> QED
    BY <2>1, <2>2 DEF Accounted
<1>13. DocumentsOnce'
  <2>1. /\ \A d \in Docs : posted'[d] = IF d = o.doc /\ Moved(o) # {} THEN posted[d] + 1
                                       ELSE posted[d]
        /\ \A d \in Receipts : receipt'[d] = IF d = o.doc THEN start[c] ELSE receipt[d]
        /\ \A d \in Rmas : rma'[d] = IF d = o.doc THEN MovementState(o) ELSE rma[d]
    OBVIOUS
  <2>2. DocumentsOnce
    BY DEF IInv
  <2> HIDE DEF Commit, o
  <2> QED
    BY <1>0, <1>4, <2>1, <2>2, Constants DEF DocumentsOnce, MovementState, Docs
<1> QED
  BY <1>8, <1>9, <1>10, <1>11, <1>12, <1>13 DEF IInv, TypeOK

\* A kit call touches no table of the movements.
LEMMA KitFrame ==
    ASSUME IInv, UNCHANGED <<tables, assets, op, todo, start, now>>,
           faults' \in 0..MaxFaults, KitTypeOK'
    PROVE  IInv'
<1> USE DEF tables
<1>1. StockTypeOK'
  BY DEF IInv, TypeOK, StockTypeOK
<1>2. Exclusive' /\ Ascending' /\ Checked'
  BY DEF IInv, Exclusive, Ascending, Checked, Holds, Claimable, Enough
<1>3. Accounted' /\ DocumentsOnce'
  BY DEF IInv, Accounted, DocumentsOnce, Active
<1> QED
  BY <1>1, <1>2, <1>3 DEF IInv, TypeOK

LEMMA LineFacts ==
    ASSUME NEW k \in Kits, NEW n \in DOMAIN KitLines[k]
    PROVE  LineItem(k, n) \in Items /\ LineQty(k, n) \in Nat \ {0}
BY KittingAssumption DEF LineItem, LineQty

\* A line still to be released is a line of a kit.
LEMMA ReleaseFacts ==
    ASSUME KitTypeOK, NEW r \in Releasers, NEW l \in rel[r]
    PROVE  /\ l[1] \in Kits /\ l[2] \in DOMAIN KitLines[l[1]]
           /\ rel[r] \subseteq {l[1]} \X DOMAIN KitLines[l[1]]
BY DEF KitTypeOK

LEMMA KitStepKeeps ==
    ASSUME IInv, NEW k \in Kits, KitStep(k)
    PROVE  IInv'
<1> USE DEF stockVars
<1>0. KitTypeOK /\ faults \in 0..MaxFaults
  BY DEF IInv, TypeOK, StockTypeOK
<1>1. \A n \in left[k] : n \in DOMAIN KitLines[k] /\ LineItem(k, n) \in Items /\ LineQty(k, n) \in Nat
  BY <1>0, LineFacts DEF KitTypeOK
<1>2. CASE ReserveKit(k)
  BY <1>0, <1>2, KitFrame DEF ReserveKit, KitTypeOK, tables
<1>3. CASE CutOff(k)
  <2>1. faults' \in 0..MaxFaults
    BY <1>0, <1>3, Constants DEF CutOff
  <2>2. KitTypeOK'
    BY <1>0, <1>3 DEF CutOff, KitTypeOK
  <2> QED
    BY <1>3, <2>1, <2>2, KitFrame DEF CutOff
<1>4. ASSUME NEW n \in left[k], ReserveStock(k, n) PROVE IInv'
  <2>1. KitTypeOK'
    BY <1>0, <1>1, <1>4 DEF ReserveStock, Leave, KitTypeOK
  <2> QED
    BY <1>0, <1>4, <2>1, KitFrame DEF ReserveStock, tables
<1>5. ASSUME NEW n \in left[k], RefuseLine(k, n) PROVE IInv'
  <2>1. KitTypeOK'
    BY <1>0, <1>5 DEF RefuseLine, KitTypeOK
  <2> QED
    BY <1>0, <1>5, <2>1, KitFrame DEF RefuseLine, tables
<1>6. ASSUME NEW n \in left[k], KeepLines(k, n) PROVE IInv'
  <2>1. KitTypeOK'
    BY <1>0, <1>6 DEF KeepLines, KitTypeOK
  <2> QED
    BY <1>0, <1>6, <2>1, KitFrame DEF KeepLines, tables
<1>7. ASSUME NEW n \in left[k], UndoLine(k, n) PROVE IInv'
  <2>1. KitTypeOK'
    BY <1>0, <1>1, <1>7 DEF UndoLine, Release, Releasable, Leave, KitTypeOK
  <2> QED
    BY <1>0, <1>7, <2>1, KitFrame DEF UndoLine, tables
<1>8. ASSUME NEW n \in left[k], UndoFails(k, n) PROVE IInv'
  <2>1. faults' \in 0..MaxFaults
    BY <1>0, <1>8, Constants DEF UndoFails
  <2>2. KitTypeOK'
    BY <1>0, <1>1, <1>8 DEF UndoFails, Leave, KitTypeOK
  <2> QED
    BY <1>8, <2>1, <2>2, KitFrame DEF UndoFails
<1> QED
  BY <1>2, <1>3, <1>4, <1>5, <1>6, <1>7, <1>8 DEF KitStep

LEMMA ReleaseStepKeeps ==
    ASSUME IInv, NEW r \in Releasers, ReleaseStep(r)
    PROVE  IInv'
<1> USE DEF stockVars
<1>0. KitTypeOK /\ faults \in 0..MaxFaults
  BY DEF IInv, TypeOK, StockTypeOK
<1>1. ASSUME NEW k \in Kits, ReleaseKit(r, k) PROVE IInv'
  <2>1. KitTypeOK'
    BY <1>0, <1>1 DEF ReleaseKit, KitTypeOK
  <2> QED
    BY <1>0, <1>1, <2>1, KitFrame DEF ReleaseKit, tables
<1>2. CASE ReleaseCut(r)
  <2>1. faults' \in 0..MaxFaults
    BY <1>0, <1>2, Constants DEF ReleaseCut
  <2>2. KitTypeOK'
    BY <1>0, <1>2 DEF ReleaseCut, KitTypeOK
  <2> QED
    BY <1>2, <2>1, <2>2, KitFrame DEF ReleaseCut
<1>3. ASSUME NEW l \in rel[r], ReleaseLine(r, l[1], l[2]) PROVE IInv'
  <2> DEFINE k == l[1]
             n == l[2]
  <2>1. /\ k \in Kits /\ n \in DOMAIN KitLines[k]
        /\ LineItem(k, n) \in Items /\ LineQty(k, n) \in Nat
    BY <1>0, ReleaseFacts, LineFacts
  <2>2. rel' = [rel EXCEPT ![r] = rel[r] \ {<<k, n>>}]
    BY <1>3 DEF ReleaseLine
  <2> HIDE DEF k, n
  <2>3. /\ DOMAIN rel' = Releasers
        /\ \A q \in Releasers :
             rel'[q] # {} => \E j \in Kits : rel'[q] \subseteq {j} \X DOMAIN KitLines[j]
    BY <1>0, <2>2 DEF KitTypeOK
  <2>4. ReleaseLine(r, k, n)
    BY <1>3 DEF k, n
  <2>5. reserved' \in [Items -> Nat]
    BY <1>0, <2>1, <2>4 DEF ReleaseLine, Release, Releasable, KitTypeOK
  <2>6. stray' \in [Items -> Nat]
    BY <1>0, <2>1, <2>4 DEF ReleaseLine, KitTypeOK
  <2>7. /\ DOMAIN got' = Kits /\ DOMAIN stuck' = Kits /\ UNCHANGED <<kpc, left>>
        /\ \A j \in Kits : got'[j] \subseteq got[j] /\ stuck'[j] \subseteq stuck[j]
    BY <1>0, <2>1, <2>4 DEF ReleaseLine, KitTypeOK
  <2>8. KitTypeOK'
    BY <1>0, <2>3, <2>5, <2>6, <2>7 DEF KitTypeOK
  <2> QED
    BY <1>0, <2>4, <2>8, KitFrame DEF ReleaseLine, tables
<1>4. ASSUME NEW l \in rel[r], ReleaseRefused(r, l[1], l[2]) PROVE IInv'
  <2>1. KitTypeOK'
    BY <1>0, <1>4 DEF ReleaseRefused, KitTypeOK
  <2> QED
    BY <1>0, <1>4, <2>1, KitFrame DEF ReleaseRefused, tables
<1> QED
  BY <1>1, <1>2, <1>3, <1>4 DEF ReleaseStep

LEMMA INext == IInv /\ [InvNext]_vars => IInv'
<1> SUFFICES ASSUME IInv, [InvNext]_vars PROVE IInv'
  OBVIOUS
<1>0. faults \in 0..MaxFaults
  BY DEF IInv, TypeOK, StockTypeOK
<1>1. CASE StockNext
  <2>1. PICK c \in Clients : StepOf(c) \/ Abort(c) \/ \E o \in Calls : Begin(c, o)
    BY <1>1 DEF StockNext
  <2>2. UNCHANGED kitVars
    BY <1>1 DEF StockNext
  <2>3. CASE \E o \in Calls : Begin(c, o)
    BY <2>2, <2>3, BeginStep
  <2>4. CASE Abort(c)
    <3>1. faults' \in 0..MaxFaults
      BY <1>0, <2>4, Constants DEF Abort
    <3> QED
      BY <2>2, <2>4, <3>1, EndStep DEF Abort
  <2>5. CASE Refuse(c)
    BY <1>0, <2>2, <2>5, EndStep DEF Refuse
  <2>6. CASE Commit(c)
    BY <2>2, <2>6, CommitStep
  <2> QED
    BY <2>1, <2>2, <2>3, <2>4, <2>5, <2>6, StatementStep DEF StepOf
<1>2. CASE KitNext
  BY <1>2, KitStepKeeps, ReleaseStepKeeps DEF KitNext
<1>3. CASE UNCHANGED vars
  <2>1. UNCHANGED stockVars /\ UNCHANGED kitVars
    BY <1>3 DEF vars
  <2>2. KitTypeOK'
    BY <2>1 DEF kitVars, IInv, TypeOK, KitTypeOK
  <2> QED
    BY <1>0, <2>1, <2>2, KitFrame DEF stockVars, tables
<1> QED
  BY <1>1, <1>2, <1>3 DEF InvNext

\* Every reachable state satisfies the invariant.
THEOREM Inductive == Spec => []IInv
BY IInit, INext, PTL DEF Spec

\* No quantity of inventory_items ever falls below zero, whatever runs at
\* once: the guards of decrement_on_hand, do_reserve_stock and
\* do_release_stock are enough without the column's CHECK.
THEOREM StockTypeCorrect == Spec => []TypeOK
<1>1. IInv => TypeOK
  BY DEF IInv
<1> QED
  BY <1>1, Inductive, PTL

\* A receipt's or an RMA's movement is posted exactly once, and only if the
\* document says so, however many sessions submit it again.
THEOREM PostedOnce == Spec => []DocumentsOnce
<1>1. IInv => DocumentsOnce
  BY DEF IInv
<1> QED
  BY <1>1, Inductive, PTL

\* classify_dead_stock_pairs never reports a divergence of its own making.
THEOREM ReconcileSound == Spec => []LedgerAgrees
<1>1. ASSUME IInv PROVE LedgerAgrees
  <2> SUFFICES ASSUME NEW i \in Items, created[i] # Never
               PROVE  Classify(i) = IF Opening[i] > 0 THEN "unreconcilable" ELSE "balanced"
    BY DEF LedgerAgrees
  <2>1. /\ onHand[i] = Opening[i] + ledger[i]
        /\ Opening[i] > 0 => created[i] = 0 /\ first[i] >= 1
        /\ Opening[i] = 0 => created[i] >= first[i] /\ (first[i] = Never => created[i] = Never)
        /\ ledger[i] \in Int /\ Opening[i] \in Nat
        /\ created[i] \in 0..Never /\ first[i] \in 0..Never
    BY <1>1, Documents DEF IInv, Accounted, TypeOK, StockTypeOK
  <2> QED
    BY <2>1, Constants DEF Classify, Never
<1> QED
  BY <1>1, Inductive, PTL

\* The lock order of the inventory calls excludes every cycle of sessions that
\* wait for each other, of any length: in a group where each waits for a row
\* another one holds, consider the one that waits for the last of these rows.
\* Its holder waits for a row that comes later still.
THEOREM LockOrderSound == Spec => []NoDeadlock
<1>1. ASSUME IInv PROVE NoDeadlock
  <2> SUFFICES ASSUME NEW S \in (SUBSET Clients) \ {{}},
                      \A c \in S : \E d \in S \ {c} : Waiting(c, d)
               PROVE  FALSE
    BY DEF NoDeadlock
  <2> DEFINE T == {r \in Keys : \E c \in S : IsNext(c, r)}
  <2>1. \A c \in S : /\ op[c] \in Calls \cup {NoCall} /\ todo[c] \subseteq Keys
                      /\ Holds(c) \subseteq Keys
    BY <1>1, RowsType DEF IInv, TypeOK, StockTypeOK, Holds
  <2>2. T # {}
    <3>1. PICK c \in S : TRUE
      OBVIOUS
    <3>2. PICK r \in todo[c] : IsNext(c, r)
      BY DEF Waiting
    <3> QED
      BY <2>1, <3>2
  <2>3. PICK x \in T : \A o : \A y \in T : ~Precedes(o, x, y)
    BY <2>2, LastRow
  <2>4. PICK c \in S : IsNext(c, x)
    OBVIOUS
  <2>5. PICK d \in S \ {c} : x \in Holds(d)
    <3>1. PICK d \in S \ {c}, r \in todo[c] : IsNext(c, r) /\ r \in Holds(d)
      BY DEF Waiting
    <3>2. r = x
      BY <2>1, <2>4, <3>1, OrderStrict DEF IsNext
    <3> QED
      BY <3>1, <3>2
  <2>6. PICK y \in todo[d] : IsNext(d, y)
    BY DEF Waiting
  <2>7. Precedes(op[d], x, y)
    BY <1>1, <2>5, <2>6 DEF IInv, Ascending
  <2> QED
    BY <2>1, <2>3, <2>6, <2>7
<1> QED
  BY <1>1, Inductive, PTL

(***************************************************************************)
(* Kits                                                                     *)
(***************************************************************************)

\* Where a kit call is tells which of its lines stand.
LinesStand(k) ==
    /\ stuck[k] \subseteq got[k]
    /\ kpc[k] = "idle" => got[k] = {}
    /\ kpc[k] = "reserving" => stuck[k] = {} /\ left[k] \cap got[k] = {}
    /\ kpc[k] = "undoing" => got[k] = left[k] \cup stuck[k] /\ left[k] \cap stuck[k] = {}
    /\ kpc[k] = "refused" => got[k] = stuck[k]

KitInv == KitsWhole /\ \A k \in Kits : LinesStand(k)

\* Units of item i on the lines G of a kit.
Units(k, i, G) == SumFunctionOnSet([n \in DOMAIN KitLines[k] |-> LineQty(k, n)],
                                   {n \in G : LineItem(k, n) = i})

LEMMA UnitsOfLines ==
    ASSUME NEW k \in Kits, NEW i \in Items, NEW G \in SUBSET (DOMAIN KitLines[k])
    PROVE  /\ Units(k, i, G) \in Nat
           /\ Units(k, i, {}) = 0
           /\ \A n \in G : LineItem(k, n) = i => LineQty(k, n) <= Units(k, i, G)
           /\ \A n \in (DOMAIN KitLines[k]) \ G :
                Units(k, i, G \cup {n}) =
                  Units(k, i, G) + IF LineItem(k, n) = i THEN LineQty(k, n) ELSE 0
           /\ \A n \in G :
                Units(k, i, G \ {n}) =
                  Units(k, i, G) - IF LineItem(k, n) = i THEN LineQty(k, n) ELSE 0
<1> DEFINE f == [n \in DOMAIN KitLines[k] |-> LineQty(k, n)]
           On(H) == {n \in H : LineItem(k, n) = i}
<1>1. /\ IsFiniteSet(DOMAIN KitLines[k])
      /\ \A n \in DOMAIN KitLines[k] : LineQty(k, n) \in Nat
  BY KittingAssumption DEF LineQty
<1>2. \A n \in DOMAIN KitLines[k] : f[n] \in Nat /\ f[n] = LineQty(k, n)
  BY <1>1
<1>3. \A H \in SUBSET (DOMAIN KitLines[k]) :
        /\ Units(k, i, H) = SumFunctionOnSet(f, On(H))
        /\ On(H) \in SUBSET (DOMAIN KitLines[k]) /\ IsFiniteSet(On(H))
  BY <1>1, FS_Subset DEF Units
<1>4. On({}) = {}
  OBVIOUS
<1>5. \A n : /\ LineItem(k, n) = i => On(G \cup {n}) = On(G) \cup {n} /\ On(G \ {n}) = On(G) \ {n}
             /\ LineItem(k, n) # i => On(G \cup {n}) = On(G) /\ On(G \ {n}) = On(G)
  OBVIOUS
<1>6. \A n \in DOMAIN KitLines[k] : LineItem(k, n) = i => (n \in On(G) <=> n \in G)
  OBVIOUS
<1> HIDE DEF f, On
<1>7. SumFunctionOnSet(f, On(G)) \in Nat /\ SumFunctionOnSet(f, {}) = 0
  BY <1>2, <1>3, SumFacts, SumNat
<1>8. ASSUME NEW n \in (DOMAIN KitLines[k]) \ G, LineItem(k, n) = i
      PROVE  SumFunctionOnSet(f, On(G) \cup {n}) = SumFunctionOnSet(f, On(G)) + f[n]
  <2>1. n \notin On(G) /\ \A y \in On(G) \cup {n} : f[y] \in Int
    BY <1>2, <1>3, <1>6, <1>8
  <2>2. IsFiniteSet(On(G))
    BY <1>3
  <2> QED
    BY ONLY <2>1, <2>2, SumAdd
<1>9. ASSUME NEW n \in G, LineItem(k, n) = i
      PROVE  SumFunctionOnSet(f, On(G)) = f[n] + SumFunctionOnSet(f, On(G) \ {n})
  <2>1. n \in On(G) /\ \A y \in On(G) : f[y] \in Int
    BY <1>2, <1>3, <1>6, <1>9
  <2> QED
    BY <1>3, <2>1, SumFacts
<1>10. \A n \in G : SumFunctionOnSet(f, On(G) \ {n}) \in Nat
  <2> TAKE n \in G
  <2>1. IsFiniteSet(On(G) \ {n}) /\ \A y \in On(G) \ {n} : f[y] \in Nat
    BY <1>2, <1>3, FS_RemoveElement
  <2> QED
    BY <2>1, SumNat
<1>11. ASSUME NEW n \in (DOMAIN KitLines[k]) \ G
       PROVE  Units(k, i, G \cup {n}) =
                Units(k, i, G) + IF LineItem(k, n) = i THEN LineQty(k, n) ELSE 0
  <2>1. /\ Units(k, i, G) = SumFunctionOnSet(f, On(G))
        /\ Units(k, i, G \cup {n}) = SumFunctionOnSet(f, On(G \cup {n}))
    BY <1>3
  <2> QED
    BY <1>2, <1>5, <1>7, <1>8, <2>1
<1>12. ASSUME NEW n \in G
       PROVE  Units(k, i, G \ {n}) =
                Units(k, i, G) - IF LineItem(k, n) = i THEN LineQty(k, n) ELSE 0
  <2>1. /\ Units(k, i, G) = SumFunctionOnSet(f, On(G))
        /\ Units(k, i, G \ {n}) = SumFunctionOnSet(f, On(G \ {n}))
    BY <1>3
  <2>2. f[n] = LineQty(k, n) /\ f[n] \in Int
    BY <1>2
  <2> QED
    BY <1>5, <1>7, <1>9, <1>10, <2>1, <2>2
<1>13. Units(k, i, G) \in Nat /\ Units(k, i, {}) = 0
  BY <1>3, <1>4, <1>7
<1>14. ASSUME NEW n \in G, LineItem(k, n) = i PROVE LineQty(k, n) <= Units(k, i, G)
  <2>1. Units(k, i, G) = f[n] + SumFunctionOnSet(f, On(G) \ {n})
    BY <1>3, <1>9, <1>14
  <2>2. f[n] = LineQty(k, n) /\ f[n] \in Nat /\ SumFunctionOnSet(f, On(G) \ {n}) \in Nat
    BY <1>2, <1>10
  <2> QED
    BY <2>1, <2>2
<1> QED
  BY <1>11, <1>12, <1>13, <1>14

Total(i) == SumFunctionOnSet([k \in Kits |-> HeldBy(k, i)], Kits)

\* What one kit holds is part of the total.
LEMMA HeldInTotal ==
    ASSUME KitTypeOK, NEW k \in Kits, NEW i \in Items
    PROVE  /\ Total(i) \in Nat /\ Units(k, i, got[k]) \in Nat
           /\ Units(k, i, got[k]) <= Total(i)
<1> DEFINE f == [j \in Kits |-> HeldBy(j, i)]
<1>1. \A j \in Kits : f[j] = Units(j, i, got[j]) /\ f[j] \in Nat
  <2> TAKE j \in Kits
  <2>1. got[j] \in SUBSET (DOMAIN KitLines[j])
    BY DEF KitTypeOK
  <2>2. Units(j, i, got[j]) \in Nat
    BY <2>1, UnitsOfLines
  <2> QED
    BY <2>2 DEF HeldBy, Units
<1>2. IsFiniteSet(Kits) /\ IsFiniteSet(Kits \ {k})
  BY KittingAssumption, FS_RemoveElement
<1>3. Total(i) = SumFunctionOnSet(f, Kits)
  BY DEF Total
<1> HIDE DEF f
<1>4. SumFunctionOnSet(f, Kits) \in Nat /\ SumFunctionOnSet(f, Kits \ {k}) \in Nat
  BY <1>1, <1>2, SumNat
<1>5. SumFunctionOnSet(f, Kits) = f[k] + SumFunctionOnSet(f, Kits \ {k})
  BY <1>1, <1>2, SumFacts
<1> QED
  BY <1>1, <1>3, <1>4, <1>5

\* A step of one kit changes the total by what it changes of its lines.
LEMMA OneKitMoves ==
    ASSUME KitTypeOK, KitTypeOK', NEW k \in Kits, NEW i \in Items,
           \A j \in Kits \ {k} : got'[j] = got[j]
    PROVE  /\ Total(i) \in Nat /\ Units(k, i, got[k]) \in Nat /\ Units(k, i, got'[k]) \in Nat
           /\ Total(i)' = Total(i) - Units(k, i, got[k]) + Units(k, i, got'[k])
<1> DEFINE f == [j \in Kits |-> HeldBy(j, i)]
           g == f'
<1>1. \A j \in Kits : /\ f[j] = Units(j, i, got[j]) /\ f[j] \in Nat
                      /\ g[j] = Units(j, i, got'[j]) /\ g[j] \in Nat
  <2> TAKE j \in Kits
  <2>1. got[j] \in SUBSET (DOMAIN KitLines[j]) /\ got'[j] \in SUBSET (DOMAIN KitLines[j])
    BY DEF KitTypeOK
  <2>2. Units(j, i, got[j]) \in Nat /\ Units(j, i, got'[j]) \in Nat
    BY <2>1, UnitsOfLines
  <2> QED
    BY <2>2 DEF HeldBy, Units
<1>2. IsFiniteSet(Kits) /\ IsFiniteSet(Kits \ {k})
  BY KittingAssumption, FS_RemoveElement
<1>3. Total(i) = SumFunctionOnSet(f, Kits) /\ Total(i)' = SumFunctionOnSet(g, Kits)
  BY DEF Total
<1>4. \A j \in Kits \ {k} : g[j] = f[j]
  BY <1>1
<1> HIDE DEF f, g
<1>a. \A j \in Kits : f[j] \in Int /\ g[j] \in Int
  BY <1>1
<1>5. SumFunctionOnSet(f, Kits) \in Nat /\ SumFunctionOnSet(f, Kits \ {k}) \in Nat
  BY <1>1, <1>2, SumNat
<1>6. SumFunctionOnSet(f, Kits) = f[k] + SumFunctionOnSet(f, Kits \ {k})
  BY <1>a, <1>2, SumFacts
<1>7. SumFunctionOnSet(g, Kits) = g[k] + SumFunctionOnSet(g, Kits \ {k})
  BY <1>a, <1>2, SumFacts
<1>8. SumFunctionOnSet(g, Kits \ {k}) = SumFunctionOnSet(f, Kits \ {k})
  BY <1>a, <1>2, <1>4, SumAgrees
<1> QED
  BY <1>1, <1>3, <1>5, <1>6, <1>7, <1>8

\* So the invariant stays if the units reserved and strayed follow the lines of
\* the one kit that moves, its lines follow its place, and a line gets stuck
\* only where the promise allows it.
LEMMA KitMoves ==
    ASSUME KitTypeOK, KitTypeOK', KitInv, NEW k \in Kits,
           faults \in Nat, faults' \in Nat, faults <= faults',
           \A j \in Kits \ {k} : /\ got'[j] = got[j] /\ kpc'[j] = kpc[j]
                                 /\ left'[j] = left[j] /\ stuck'[j] = stuck[j],
           LinesStand(k)',
           \A i \in Items : /\ reserved'[i] + stray'[i] =
                               reserved[i] + stray[i] - Units(k, i, got[k]) + Units(k, i, got'[k])
                            /\ stray[i] <= stray'[i],
           \A n \in stuck'[k] \ stuck[k] : faults' > 0 \/ stray'[LineItem(k, n)] > 0
    PROVE  KitInv'
<1>1. ASSUME NEW i \in Items PROVE reserved'[i] + stray'[i] = Total(i)'
  <2>1. reserved[i] + stray[i] = Total(i)
    BY DEF KitInv, KitsWhole, Total
  <2>2. /\ Total(i) \in Nat /\ Units(k, i, got[k]) \in Nat /\ Units(k, i, got'[k]) \in Nat
        /\ Total(i)' = Total(i) - Units(k, i, got[k]) + Units(k, i, got'[k])
    BY OneKitMoves
  <2>3. reserved'[i] + stray'[i] =
          reserved[i] + stray[i] - Units(k, i, got[k]) + Units(k, i, got'[k])
    OBVIOUS
  <2>4. /\ reserved[i] \in Nat /\ stray[i] \in Nat
        /\ reserved'[i] \in Nat /\ stray'[i] \in Nat
    BY DEF KitTypeOK
  <2> QED
    BY ONLY <2>1, <2>2, <2>3, <2>4
<1>2. ASSUME NEW j \in Kits PROVE LinesStand(j)'
  <2>1. CASE j = k
    BY <2>1
  <2>2. CASE j # k
    BY <2>2 DEF KitInv, LinesStand
  <2> QED
    BY <2>1, <2>2
<1>3. ASSUME NEW j \in Kits, NEW n \in stuck'[j]
      PROVE  faults' > 0 \/ stray'[LineItem(j, n)] > 0
  <2>1. LineItem(j, n) \in Items
    BY LineFacts DEF KitTypeOK
  <2>2. CASE n \in stuck[j]
    <3>1. faults > 0 \/ stray[LineItem(j, n)] > 0
      BY <2>2 DEF KitInv, KitsWhole
    <3>2. /\ stray[LineItem(j, n)] \in Nat /\ stray'[LineItem(j, n)] \in Nat
          /\ stray[LineItem(j, n)] <= stray'[LineItem(j, n)]
      BY <2>1 DEF KitTypeOK
    <3> QED
      BY <3>1, <3>2
  <2>3. CASE n \notin stuck[j]
    BY <2>3
  <2> QED
    BY <2>2, <2>3
<1>4. KitsWhole'
  BY <1>1, <1>2, <1>3 DEF KitsWhole, Total, LinesStand
<1> QED
  BY <1>2, <1>4 DEF KitInv

\* Steps that reserve nothing and release nothing.
LEMMA PlaceStep ==
    ASSUME KitTypeOK, KitTypeOK', KitInv, NEW k \in Kits,
           faults \in Nat, faults' \in Nat, faults <= faults',
           UNCHANGED <<reserved, got, stray>>,
           \A j \in Kits \ {k} : kpc'[j] = kpc[j] /\ left'[j] = left[j] /\ stuck'[j] = stuck[j],
           LinesStand(k)',
           \A n \in stuck'[k] \ stuck[k] : faults' > 0 \/ stray'[LineItem(k, n)] > 0
    PROVE  KitInv'
<1>1. \A i \in Items : Units(k, i, got[k]) \in Nat
  BY UnitsOfLines DEF KitTypeOK
<1>2. \A i \in Items : reserved[i] \in Nat /\ stray[i] \in Nat
  BY DEF KitTypeOK
<1>3. \A i \in Items : /\ reserved'[i] + stray'[i] =
                          reserved[i] + stray[i] - Units(k, i, got[k]) + Units(k, i, got'[k])
                       /\ stray[i] <= stray'[i]
  BY <1>1, <1>2
<1> QED
  BY <1>3, KitMoves

\* A rollback that finds too little reserved has lost units to a stray release.
LEMMA ShortOfUnits ==
    ASSUME KitTypeOK, KitInv, NEW k \in Kits, NEW n \in got[k], ~Releasable(k, n)
    PROVE  stray[LineItem(k, n)] > 0
<1> DEFINE i == LineItem(k, n)
<1>1. n \in DOMAIN KitLines[k] /\ got[k] \in SUBSET (DOMAIN KitLines[k])
  BY DEF KitTypeOK
<1>2. i \in Items /\ LineQty(k, n) \in Nat
  BY <1>1, LineFacts
<1>3. LineQty(k, n) <= Units(k, i, got[k]) /\ Units(k, i, got[k]) \in Nat
  BY <1>1, <1>2, UnitsOfLines
<1>4. Units(k, i, got[k]) <= Total(i) /\ Total(i) \in Nat
  BY <1>2, HeldInTotal
<1>5. reserved[i] + stray[i] = Total(i)
  BY <1>2 DEF KitInv, KitsWhole, Total
<1>6. reserved[i] < LineQty(k, n) /\ reserved[i] \in Nat /\ stray[i] \in Nat
  BY <1>2 DEF Releasable, KitTypeOK
<1> HIDE DEF i
<1>7. stray[i] > 0
  BY <1>2, <1>3, <1>4, <1>5, <1>6
<1> QED
  BY <1>7 DEF i

\* The step that reserves line n.
LEMMA ReserveLineStep ==
    ASSUME KitTypeOK, KitTypeOK', KitInv, faults \in Nat, NEW k \in Kits, NEW n \in left[k],
           ReserveStock(k, n)
    PROVE  KitInv'
<1>0. /\ n \in DOMAIN KitLines[k] /\ got[k] \in SUBSET (DOMAIN KitLines[k])
      /\ LineItem(k, n) \in Items /\ LineQty(k, n) \in Nat
  BY LineFacts DEF KitTypeOK
<1>1. /\ \A j \in Kits \ {k} : got'[j] = got[j] /\ kpc'[j] = kpc[j] /\ left'[j] = left[j]
      /\ UNCHANGED <<stuck, stray, faults>>
  BY DEF ReserveStock, Leave, KitTypeOK, stockVars
<1>2. n \notin got[k] /\ stuck[k] = {} /\ left[k] \cap got[k] = {}
  BY DEF KitInv, LinesStand, ReserveStock
<1>3. got'[k] = got[k] \cup {n} /\ left'[k] = left[k] \ {n}
  BY DEF ReserveStock, Leave, KitTypeOK
<1>4. kpc'[k] = IF left[k] = {n} THEN "held" ELSE "reserving"
  BY DEF ReserveStock, Leave, KitTypeOK
<1>5. LinesStand(k)'
  BY <1>1, <1>2, <1>3, <1>4 DEF LinesStand
<1>6. ASSUME NEW i \in Items
      PROVE  /\ reserved'[i] + stray'[i] =
                  reserved[i] + stray[i] - Units(k, i, got[k]) + Units(k, i, got'[k])
             /\ stray[i] <= stray'[i]
  <2> DEFINE d == IF LineItem(k, n) = i THEN LineQty(k, n) ELSE 0
  <2>1. /\ reserved'[i] = reserved[i] + d /\ reserved[i] \in Int /\ d \in Int
        /\ stray'[i] = stray[i] /\ stray[i] \in Int
    BY <1>0, <1>1 DEF ReserveStock, KitTypeOK
  <2>2. Units(k, i, got[k] \cup {n}) = Units(k, i, got[k]) + d /\ Units(k, i, got[k]) \in Nat
    BY <1>0, <1>2, UnitsOfLines
  <2> HIDE DEF d
  <2> QED
    BY <1>3, <2>1, <2>2
<1> QED
  BY <1>1, <1>5, <1>6, KitMoves

\* Steps that give line n back: by the call itself, or by somebody's release.
LEMMA GiveBackStep ==
    ASSUME KitTypeOK, KitTypeOK', KitInv, faults \in Nat, UNCHANGED <<faults, stray>>,
           NEW k \in Kits, NEW n \in got[k], Release(k, n),
           got' = [got EXCEPT ![k] = @ \ {n}],
           stuck'[k] \subseteq stuck[k],
           \A j \in Kits \ {k} : kpc'[j] = kpc[j] /\ left'[j] = left[j] /\ stuck'[j] = stuck[j],
           LinesStand(k)'
    PROVE  KitInv'
<1>0. /\ n \in DOMAIN KitLines[k] /\ got[k] \in SUBSET (DOMAIN KitLines[k])
      /\ LineItem(k, n) \in Items /\ LineQty(k, n) \in Nat
  BY LineFacts DEF KitTypeOK
<1>1. got'[k] = got[k] \ {n} /\ \A j \in Kits \ {k} : got'[j] = got[j]
  BY DEF KitTypeOK
<1>2. ASSUME NEW i \in Items
      PROVE  /\ reserved'[i] + stray'[i] =
                  reserved[i] + stray[i] - Units(k, i, got[k]) + Units(k, i, got'[k])
             /\ stray[i] <= stray'[i]
  <2> DEFINE d == IF LineItem(k, n) = i THEN LineQty(k, n) ELSE 0
  <2>1. /\ reserved'[i] = reserved[i] - d /\ reserved[i] \in Int /\ d \in Int
        /\ stray'[i] = stray[i] /\ stray[i] \in Int
    BY <1>0 DEF Release, KitTypeOK
  <2>2. Units(k, i, got[k] \ {n}) = Units(k, i, got[k]) - d /\ Units(k, i, got[k]) \in Nat
    BY <1>0, UnitsOfLines
  <2> HIDE DEF d
  <2> QED
    BY <1>1, <2>1, <2>2
<1>3. /\ faults' \in Nat /\ faults <= faults'
      /\ \A m \in stuck'[k] \ stuck[k] : faults' > 0 \/ stray'[LineItem(k, m)] > 0
  OBVIOUS
<1>4. \A j \in Kits \ {k} : /\ got'[j] = got[j] /\ kpc'[j] = kpc[j]
                            /\ left'[j] = left[j] /\ stuck'[j] = stuck[j]
  BY <1>1
<1> QED
  BY <1>2, <1>3, <1>4, KitMoves

\* Nothing is reserved at the start.
LEMMA KitInvInit == InvInit => KitInv
<1> SUFFICES ASSUME InvInit PROVE KitInv
  OBVIOUS
<1>0. KitTypeOK
  BY IInit DEF IInv, TypeOK
<1>1. ASSUME NEW i \in Items PROVE Total(i) = 0
  <2> DEFINE f == [k \in Kits |-> HeldBy(k, i)]
  <2>1. \A k \in Kits : got[k] = {}
    BY DEF InvInit, KitInit
  <2>2. ASSUME NEW k \in Kits PROVE f[k] = 0
    <3>1. Units(k, i, {}) = 0
      BY UnitsOfLines
    <3> QED
      BY <2>1, <3>1 DEF HeldBy, Units
  <2>3. Total(i) = SumFunctionOnSet(f, Kits)
    BY DEF Total
  <2> HIDE DEF f
  <2> QED
    BY <2>2, <2>3, KittingAssumption, SumZero
<1>2. KitsWhole
  BY <1>1 DEF InvInit, KitInit, KitsWhole, Total
<1> QED
  BY <1>2 DEF InvInit, KitInit, KitInv, LinesStand

\* Every step of a kit call keeps the books of the kits.
LEMMA KitStepBooks ==
    ASSUME KitTypeOK, KitTypeOK', KitInv, faults \in Nat, NEW k \in Kits, KitStep(k)
    PROVE  KitInv'
<1>0. LinesStand(k)
  BY DEF KitInv
<1>1. CASE ReserveKit(k)
  <2>1. /\ UNCHANGED <<reserved, got, stuck, stray, faults>>
        /\ \A j \in Kits \ {k} : kpc'[j] = kpc[j] /\ left'[j] = left[j]
    BY <1>1 DEF ReserveKit, KitTypeOK, stockVars
  <2>2. LinesStand(k)'
    BY <1>0, <1>1 DEF ReserveKit, KitTypeOK, LinesStand
  <2> QED
    BY <2>1, <2>2, PlaceStep
<1>2. CASE CutOff(k)
  <2>1. /\ UNCHANGED <<reserved, got, stuck, stray>> /\ faults' = faults + 1
        /\ \A j \in Kits \ {k} : kpc'[j] = kpc[j] /\ left'[j] = left[j]
    BY <1>2 DEF CutOff, KitTypeOK
  <2>2. LinesStand(k)'
    BY <1>0, <1>2 DEF CutOff, KitTypeOK, LinesStand
  <2> QED
    BY <2>1, <2>2, PlaceStep
<1>3. ASSUME NEW n \in left[k], ReserveStock(k, n) PROVE KitInv'
  BY <1>3, ReserveLineStep
<1>4. ASSUME NEW n \in left[k], RefuseLine(k, n) PROVE KitInv'
  <2>1. /\ UNCHANGED <<reserved, got, stuck, stray, faults>>
        /\ \A j \in Kits \ {k} : kpc'[j] = kpc[j] /\ left'[j] = left[j]
    BY <1>4 DEF RefuseLine, KitTypeOK, stockVars
  <2>2. LinesStand(k)'
    BY <1>0, <1>4 DEF RefuseLine, KitTypeOK, LinesStand
  <2> QED
    BY <2>1, <2>2, PlaceStep
<1>5. ASSUME NEW n \in left[k], KeepLines(k, n) PROVE KitInv'
  <2>1. /\ UNCHANGED <<reserved, got, stuck, stray, faults>>
        /\ \A j \in Kits \ {k} : kpc'[j] = kpc[j] /\ left'[j] = left[j]
    BY <1>5 DEF KeepLines, KitTypeOK, stockVars
  <2>2. LinesStand(k)'
    BY <1>0, <1>5 DEF KeepLines, KitTypeOK, LinesStand
  <2> QED
    BY <2>1, <2>2, PlaceStep
<1>6. ASSUME NEW n \in left[k], UndoLine(k, n) PROVE KitInv'
  <2>1. /\ UNCHANGED <<stuck, stray, faults>>
        /\ \A j \in Kits \ {k} : kpc'[j] = kpc[j] /\ left'[j] = left[j]
    BY <1>6 DEF UndoLine, Leave, KitTypeOK, stockVars
  <2>2. n \in got[k] /\ Release(k, n) /\ got' = [got EXCEPT ![k] = @ \ {n}]
    BY <1>0, <1>6 DEF UndoLine, LinesStand
  <2>3. /\ got'[k] = got[k] \ {n} /\ left'[k] = left[k] \ {n}
        /\ kpc'[k] = IF left[k] = {n} THEN "refused" ELSE "undoing"
    BY <1>6 DEF UndoLine, Leave, KitTypeOK
  <2>4. LinesStand(k)'
    BY <1>0, <1>6, <2>1, <2>3 DEF UndoLine, LinesStand
  <2> QED
    BY <2>1, <2>2, <2>4, GiveBackStep
<1>7. ASSUME NEW n \in left[k], UndoFails(k, n) PROVE KitInv'
  <2>1. /\ UNCHANGED <<reserved, got, stray>> /\ stuck'[k] = stuck[k] \cup {n}
        /\ \A j \in Kits \ {k} : kpc'[j] = kpc[j] /\ left'[j] = left[j] /\ stuck'[j] = stuck[j]
        /\ left'[k] = left[k] \ {n}
        /\ kpc'[k] = IF left[k] = {n} THEN "refused" ELSE "undoing"
    BY <1>7 DEF UndoFails, Leave, KitTypeOK
  <2>2. n \in got[k]
    BY <1>0, <1>7 DEF UndoFails, LinesStand
  <2>3. LinesStand(k)'
    BY <1>0, <1>7, <2>1, <2>2 DEF UndoFails, LinesStand
  <2>4. \/ ~Releasable(k, n) /\ faults' = faults
        \/ faults' = faults + 1
    BY <1>7 DEF UndoFails
  <2>5. faults' > 0 \/ stray'[LineItem(k, n)] > 0
    BY <2>1, <2>2, <2>4, ShortOfUnits
  <2> QED
    BY <2>1, <2>3, <2>4, <2>5, PlaceStep
<1> QED
  BY <1>1, <1>2, <1>3, <1>4, <1>5, <1>6, <1>7 DEF KitStep

\* A stray release moves units from the reserved to the strayed.
LEMMA StrayStep ==
    ASSUME KitTypeOK, KitTypeOK', KitInv, faults \in Nat, NEW k \in Kits,
           NEW n \in DOMAIN KitLines[k], Release(k, n),
           stray' = [stray EXCEPT ![LineItem(k, n)] = @ + LineQty(k, n)],
           UNCHANGED <<kpc, left, got, stuck, faults>>
    PROVE  KitInv'
<1>0. LineItem(k, n) \in Items /\ LineQty(k, n) \in Nat
  BY LineFacts
<1>1. ASSUME NEW i \in Items
      PROVE  /\ reserved'[i] + stray'[i] =
                  reserved[i] + stray[i] - Units(k, i, got[k]) + Units(k, i, got'[k])
             /\ stray[i] <= stray'[i]
  <2> DEFINE d == IF LineItem(k, n) = i THEN LineQty(k, n) ELSE 0
  <2>1. /\ reserved'[i] = reserved[i] - d /\ reserved[i] \in Int /\ d \in Nat
        /\ stray'[i] = stray[i] + d /\ stray[i] \in Int
    BY <1>0 DEF Release, KitTypeOK
  <2>2. Units(k, i, got[k]) \in Nat
    BY HeldInTotal
  <2> HIDE DEF d
  <2> QED
    BY <2>1, <2>2
<1>2. LinesStand(k)'
  BY DEF KitInv, LinesStand
<1> QED
  BY <1>1, <1>2, KitMoves

\* So does every step of a release call, for a kit in whatever state.
LEMMA ReleaseStepBooks ==
    ASSUME KitTypeOK, KitTypeOK', KitInv, faults \in Nat, NEW r \in Releasers, ReleaseStep(r)
    PROVE  KitInv'
<1>1. ASSUME UNCHANGED <<reserved, kpc, left, got, stuck, stray>>, faults' \in Nat, faults <= faults'
      PROVE  KitInv'
  <2>1. KitsWhole'
    BY <1>1 DEF KitInv, KitsWhole, HeldBy
  <2>2. \A k \in Kits : LinesStand(k)'
    BY <1>1 DEF KitInv, LinesStand
  <2> QED
    BY <2>1, <2>2 DEF KitInv
<1>2. ASSUME NEW k \in Kits, ReleaseKit(r, k) PROVE KitInv'
  BY <1>1, <1>2 DEF ReleaseKit, stockVars
<1>3. CASE ReleaseCut(r)
  BY <1>1, <1>3 DEF ReleaseCut
<1>4. ASSUME NEW l \in rel[r], ReleaseRefused(r, l[1], l[2]) PROVE KitInv'
  BY <1>1, <1>4 DEF ReleaseRefused, stockVars
<1>5. ASSUME NEW l \in rel[r], ReleaseLine(r, l[1], l[2]) PROVE KitInv'
  <2> DEFINE k == l[1]
             n == l[2]
  <2>1. k \in Kits /\ n \in DOMAIN KitLines[k]
    BY ReleaseFacts
  <2>2. ReleaseLine(r, k, n)
    BY <1>5
  <2> HIDE DEF k, n
  <2>3. Release(k, n) /\ UNCHANGED <<kpc, left, faults>>
    BY <2>2 DEF ReleaseLine, stockVars
  <2>4. LinesStand(k)
    BY <2>1 DEF KitInv
  <2>5. CASE Stands(k, n)
    <3>1. /\ got' = [got EXCEPT ![k] = @ \ {n}] /\ UNCHANGED stray
          /\ stuck' = [stuck EXCEPT ![k] = @ \ {n}] /\ n \in got[k]
          /\ kpc[k] \notin {"reserving", "undoing"}
      BY <2>2, <2>5 DEF ReleaseLine, Stands
    <3>2. /\ got'[k] = got[k] \ {n} /\ stuck'[k] = stuck[k] \ {n}
          /\ \A j \in Kits \ {k} : stuck'[j] = stuck[j]
      BY <2>1, <3>1 DEF KitTypeOK
    <3>3. LinesStand(k)'
      BY <2>3, <2>4, <3>1, <3>2 DEF LinesStand
    <3> QED
      BY <2>1, <2>3, <3>1, <3>2, <3>3, GiveBackStep
  <2>6. CASE ~Stands(k, n)
    BY <2>1, <2>2, <2>3, <2>6, StrayStep DEF ReleaseLine
  <2> QED
    BY <2>5, <2>6
<1> QED
  BY <1>2, <1>3, <1>4, <1>5 DEF ReleaseStep

LEMMA KitInvNext == IInv /\ IInv' /\ KitInv /\ [InvNext]_vars => KitInv'
<1> SUFFICES ASSUME IInv, IInv', KitInv, [InvNext]_vars PROVE KitInv'
  OBVIOUS
<1>0. KitTypeOK /\ KitTypeOK' /\ faults \in Nat /\ faults' \in Nat
  BY DEF IInv, TypeOK, StockTypeOK
<1>1. ASSUME UNCHANGED kitVars, faults <= faults' PROVE KitInv'
  <2>1. KitsWhole'
    BY <1>0, <1>1 DEF kitVars, KitInv, KitsWhole, HeldBy
  <2>2. \A k \in Kits : LinesStand(k)'
    BY <1>1 DEF kitVars, KitInv, LinesStand
  <2> QED
    BY <2>1, <2>2 DEF KitInv
<1>2. CASE UNCHANGED vars
  BY <1>0, <1>1, <1>2 DEF vars, stockVars
<1>3. CASE StockNext
  <2>1. PICK c \in Clients : StepOf(c) \/ Abort(c) \/ \E o \in Calls : Begin(c, o)
    BY <1>3 DEF StockNext
  <2>2. faults' = faults \/ faults' = faults + 1
    BY <2>1 DEF StepOf, Abort, Begin, Write, ClaimDocument, MoveItem, UpsertKgNode, SeedAssets, Commit, Refuse, End
  <2> QED
    BY <1>0, <1>1, <1>3, <2>2 DEF StockNext
<1>4. CASE KitNext
  BY <1>0, <1>4, KitStepBooks, ReleaseStepBooks DEF KitNext
<1> QED
  BY <1>2, <1>3, <1>4 DEF InvNext

\* do_reserve_kit reserves a kit as a whole or not at all, whatever other
\* calls, releases of anybody's kit included, run at once on the same items:
\* every unit reserved belongs to a line that stands, units are missing only
\* where somebody released what was not theirs, and a refused kit keeps a line
\* only after a fault or such a release.
THEOREM KitsReservedWhole == Spec => []KitsWhole
<1>1. KitInv => KitsWhole
  BY DEF KitInv
<1>2. Spec => []KitInv
  BY Inductive, KitInvInit, KitInvNext, PTL DEF Spec
<1> QED
  BY <1>1, <1>2, PTL
=============================================================================
