---------------------------- MODULE QuotasProofs ----------------------------
(***************************************************************************)
(* That quotas lose no charge, invent none and admit no call over a limit,  *)
(* for any calls, rows, costs and limits.                                   *)
(***************************************************************************)
EXTENDS Quotas, SumTheorems

(***************************************************************************)
(* The inductive invariant                                                  *)
(***************************************************************************)

\* A row that was never inserted counts nothing, and no call has met it.
Unborn ==
  /\ \A q \in Rows : row[q] = "none" => used[q] = 0
  /\ \A c \in Calls : /\ \A q \in steps[c] : row[q] # "none"
                      /\ \A e \in view[c] : row[e.row] # "none"

\* Without Redis there are no counters and no calls between two rows.
Plain ==
  ~counters => /\ \A q \in Rows : key[q] = NoKey
               /\ flush = NoFlush
               /\ \A c \in Calls : view[c] = {} /\ todo[c] = {}

\* Where a call is tells what it has still to do and what it has done.
Place ==
  \A c \in Calls : /\ view[c] # {} \/ todo[c] # {} => pc[c] = "charge"
                   /\ pc[c] = "idle" => steps[c] = {} /\ stray[c] = {}

\* A call is charged on a row once: what it has read, charged and lost are
\* different rows, of resource types it has taken from its list.
OnceFor(c) ==
  /\ steps[c] \cap stray[c] = {}
  /\ \A e \in view[c] : e.row \notin steps[c] \union stray[c]
  /\ \A e, f \in view[c] : e.row = f.row => e = f
  /\ \A q \in steps[c] \union stray[c] : Resource[q] \notin todo[c]
  /\ \A e \in view[c] : Resource[e.row] \notin todo[c]

Once == \A c \in Calls : OnceFor(c)

\* A counter that is not there will be created from a used_amount that is still
\* the row's, however long ago the call read it.
Fresh ==
  \A c \in Calls : \A e \in view[c] :
    key[e.row] = NoKey /\ trust[e.row] # "given up" => e.used = used[e.row]

\* A counter lives as long as the flush loop or a call needs it.
Kept ==
  /\ flush # NoFlush /\ trust[flush.row] # "given up" => key[flush.row] # NoKey
  /\ \A c \in Calls : counters /\ pc[c] \in {"charge", "undo"} =>
       \A q \in steps[c] : trust[q] # "given up" => key[q] # NoKey

\* A reset that has deleted its counter has given up the row's count.
Resets == admin # NoReset /\ admin.deleted => trust[admin.row] = "given up"

Control == Unborn /\ Plain /\ Place /\ Once /\ Fresh /\ Kept /\ Resets

\* NoChargeLost and NoPhantomCharge for one row.
Balanced(q) ==
  row[q] # "deleted" => /\ trust[q] # "given up" => Count(q) >= Outstanding(q)
                        /\ trust[q] = "whole" => Count(q) <= Outstanding(q)

IInv == TypeOK /\ Control /\ \A q \in Rows : Balanced(q)

(***************************************************************************)
(* Numbers and frames                                                       *)
(***************************************************************************)

\* The constants' types, as the steps use them.
LEMMA Numbers ==
  /\ \A c \in Calls, q \in Rows : Delta(c, q) \in Nat
  /\ \A q \in Rows : Base[q] \in Nat
  /\ MaxAdmin \in Nat /\ Limits \subseteq Nat /\ NoKey \notin Int
BY QuotaAssumption DEF Delta

\* GREATEST of two numbers.
LEMMA MaxOfTwo ==
  ASSUME NEW a \in Int, NEW b \in Int
  PROVE  /\ Max({a, b}) \in {a, b}
         /\ Max({a, b}) >= a /\ Max({a, b}) >= b
<1> DEFINE m == IF a >= b THEN a ELSE b
<1>1. m \in {a, b} /\ \A y \in {a, b} : m >= y
  OBVIOUS
<1>2. Max({a, b}) \in {a, b} /\ \A y \in {a, b} : Max({a, b}) >= y
  <2> HIDE DEF m
  <2> QED
    BY <1>1 DEF Max
<1> QED
  BY <1>2

\* What a call read, and what the script makes of it.
LEMMA Entries ==
  ASSUME TypeOK, NEW c \in Calls, NEW e \in view[c]
  PROVE  /\ e.row \in Rows /\ e.used \in Nat /\ e.limit \in Nat
         /\ Incremented(c, e) \in Int /\ Incremented(c, e) # NoKey
<1>0. e \in [row : Rows, used : Nat, limit : Nat]
  BY DEF TypeOK
<1>1. e.row \in Rows /\ e.used \in Nat /\ e.limit \in Nat
  BY <1>0
<1>2. key[e.row] \in Int \union {NoKey}
  BY <1>1 DEF TypeOK
<1>3. Delta(c, e.row) \in Nat /\ NoKey \notin Int
  BY <1>1, Numbers
<1>4. Incremented(c, e) \in Int
  BY <1>1, <1>2, <1>3 DEF Incremented
<1> QED
  BY <1>1, <1>3, <1>4

\* What a call has read stays fresh when nothing else is written.
LEMMA FreshFrame ==
  ASSUME TypeOK, Fresh, \A d \in Calls : view'[d] \subseteq view[d],
         UNCHANGED <<used, trust>>,
         \A q \in Rows : key'[q] = NoKey => key[q] = NoKey
  PROVE  Fresh'
<1> SUFFICES ASSUME NEW d \in Calls, NEW f \in view'[d],
                    key'[f.row] = NoKey, trust'[f.row] # "given up"
             PROVE  f.used = used'[f.row]
  BY DEF Fresh
<1>1. f \in view[d] /\ f.row \in Rows
  BY Entries
<1> QED
  BY <1>1 DEF Fresh

\* Counters stay with who needs them when no key is deleted.
LEMMA KeptFrame ==
  ASSUME TypeOK, Kept, UNCHANGED <<counters, flush, trust>>,
         \A q \in Rows : key'[q] = NoKey => key[q] = NoKey,
         \A d \in Calls : counters /\ pc'[d] \in {"charge", "undo"} =>
           \A q \in steps'[d] : /\ q \in Rows
                                /\ \/ pc[d] \in {"charge", "undo"} /\ q \in steps[d]
                                   \/ key'[q] # NoKey
  PROVE  Kept'
<1>1. flush # NoFlush => flush.row \in Rows
  BY DEF TypeOK
<1> QED
  BY <1>1 DEF Kept

\* The other calls are charged as before.
LEMMA OnceFrame ==
  ASSUME Once, NEW c \in Calls, OnceFor(c)',
         \A d \in Calls \ {c} : /\ view'[d] = view[d] /\ todo'[d] = todo[d]
                                /\ steps'[d] = steps[d] /\ stray'[d] = stray[d]
  PROVE  Once'
<1> SUFFICES ASSUME NEW d \in Calls PROVE OnceFor(d)'
  BY DEF Once
<1>1. CASE d = c
  BY <1>1
<1>2. CASE d # c
  BY <1>2 DEF Once, OnceFor
<1> QED
  BY <1>1, <1>2

(***************************************************************************)
(* What the calls do to types and control                                   *)
(***************************************************************************)

\* A call gets its list.
LEMMA BeginControl ==
  ASSUME TypeOK, Control, NEW c \in Calls, BeginCharge(c)
  PROVE  TypeOK' /\ Control'
<1> USE DEF BeginCharge, rowVars
<1>1. TypeOK'
  BY DEF TypeOK, Charged
<1>2. view[c] = {} /\ steps[c] = {} /\ stray[c] = {}
  BY DEF Control, Place
<1>3. Unborn' /\ Plain' /\ Resets'
  BY DEF TypeOK, Control, Unborn, Plain, Resets
<1>4. Place'
  BY DEF TypeOK, Control, Place
<1>5. Once'
  <2>1. OnceFor(c)'
    BY <1>2 DEF OnceFor
  <2> QED
    BY <2>1, OnceFrame DEF TypeOK, Control
<1>6. Fresh'
  BY FreshFrame DEF Control
<1>7. Kept'
  BY <1>2, KeptFrame DEF TypeOK, Control
<1> QED
  BY <1>1, <1>3, <1>4, <1>5, <1>6, <1>7 DEF Control

\* A call reads the rows of one resource type.
LEMMA SelectControl ==
  ASSUME TypeOK, Control, NEW c \in Calls, SelectRows(c)
  PROVE  TypeOK' /\ Control'
<1> USE DEF SelectRows, rowVars
<1>1. PICK r \in todo[c] :
        /\ view' = [view EXCEPT ![c] = {[row |-> q, used |-> used[q], limit |-> limit[q]] :
                                        q \in Matching(c, r)}]
        /\ todo' = [todo EXCEPT ![c] = @ \ {r}]
  OBVIOUS
<1>2. /\ view'[c] = {[row |-> q, used |-> used[q], limit |-> limit[q]] : q \in Matching(c, r)}
      /\ todo'[c] = todo[c] \ {r}
      /\ \A d \in Calls \ {c} : view'[d] = view[d] /\ todo'[d] = todo[d]
  BY <1>1 DEF TypeOK
<1>3. \A f \in view'[c] : /\ f \in [row : Rows, used : Nat, limit : Nat]
                          /\ f = [row |-> f.row, used |-> used[f.row], limit |-> limit[f.row]]
                          /\ f.used = used[f.row]
                          /\ Resource[f.row] = r /\ row[f.row] # "none"
  <2> TAKE f \in view'[c]
  <2>1. PICK q \in Matching(c, r) : f = [row |-> q, used |-> used[q], limit |-> limit[q]]
    BY <1>2
  <2>2. q \in Rows /\ Resource[q] = r /\ row[q] = "live"
    BY DEF Matching, Live
  <2> QED
    BY <2>1, <2>2 DEF TypeOK
<1>4. view'[c] \in SUBSET [row : Rows, used : Nat, limit : Nat]
  BY <1>3
<1>5. TypeOK'
  <2>1. view' \in [Calls -> SUBSET [row : Rows, used : Nat, limit : Nat]]
    BY <1>1, <1>2, <1>4 DEF TypeOK
  <2>2. todo' \in [Calls -> SUBSET Types]
    BY <1>1 DEF TypeOK
  <2> QED
    BY <2>1, <2>2 DEF TypeOK
<1>6. Unborn'
  BY <1>2, <1>3 DEF Control, Unborn
<1>7. Plain'
  BY DEF Control, Plain
<1>8. Place'
  BY <1>2 DEF Control, Place
<1>9. Once'
  <2>1. OnceFor(c)
    BY DEF Control, Once
  <2>2. OnceFor(c)'
    BY <1>2, <1>3, <2>1 DEF OnceFor
  <2> QED
    BY <1>2, <2>2, OnceFrame DEF Control
<1>10. Fresh'
  <2> SUFFICES ASSUME NEW d \in Calls, NEW f \in view'[d],
                      key'[f.row] = NoKey, trust'[f.row] # "given up"
               PROVE  f.used = used'[f.row]
    BY DEF Fresh
  <2>1. CASE d = c
    BY <1>3, <2>1
  <2>2. CASE d # c
    BY <1>2, <2>2 DEF Control, Fresh
  <2> QED
    BY <2>1, <2>2
<1>11. Kept' /\ Resets'
  BY DEF Control, Kept, Resets
<1> QED
  BY <1>5, <1>6, <1>7, <1>8, <1>9, <1>10, <1>11 DEF Control

\* The script adds to a counter, and the call knows or does not.
LEMMA IncrementControl ==
  ASSUME TypeOK, Control, NEW c \in Calls, NEW e \in view[c],
         EvalIncrement(c, e) \/ EvalRefused(c, e) \/ EvalLost(c, e)
  PROVE  TypeOK' /\ Control'
<1> USE DEF EvalIncrement, EvalRefused, EvalLost, GiveUp, NextRow, rowVars
<1>1. /\ e.row \in Rows /\ Incremented(c, e) \in Int /\ Incremented(c, e) # NoKey
  BY Entries
<1>2. UNCHANGED <<counters, row, used, limit, flush, admin, commands, trust>>
  OBVIOUS
<1>3. key' = key \/ key' = [key EXCEPT ![e.row] = Incremented(c, e)]
  OBVIOUS
<1>4. /\ key' \in [Rows -> Int \union {NoKey}]
      /\ \A q \in Rows : key'[q] = NoKey => key[q] = NoKey
  <2>1. key \in [Rows -> Int \union {NoKey}]
    BY DEF TypeOK
  <2>2. CASE key' = [key EXCEPT ![e.row] = Incremented(c, e)]
    BY ONLY <1>1, <2>1, <2>2
  <2> QED
    BY <1>3, <2>1, <2>2
<1>5. /\ pc[c] = "charge" /\ pc'[c] \in {"charge", "undo"}
      /\ pc'[c] = "undo" => view'[c] = {} /\ todo'[c] = {}
      /\ view'[c] = view[c] \ {e} \/ view'[c] = {}
      /\ todo'[c] = todo[c] \/ todo'[c] = {}
      /\ \/ steps'[c] = steps[c] /\ stray'[c] = stray[c]
         \/ /\ steps'[c] = steps[c] \union {e.row} /\ stray'[c] = stray[c]
            /\ key' = [key EXCEPT ![e.row] = Incremented(c, e)]
         \/ steps'[c] = steps[c] /\ stray'[c] = stray[c] \union {e.row}
  BY DEF TypeOK
<1>6. \A d \in Calls \ {c} : /\ view'[d] = view[d] /\ todo'[d] = todo[d] /\ pc'[d] = pc[d]
                             /\ steps'[d] = steps[d] /\ stray'[d] = stray[d]
  BY DEF TypeOK
<1>7. counters
  BY DEF Control, Plain
<1>8. TypeOK'
  <2>1. pc' \in [Calls -> {"idle", "charge", "undo", "done", "gone"}] /\ todo' \in [Calls -> SUBSET Types]
    BY DEF TypeOK
  <2>2. view' \in [Calls -> SUBSET [row : Rows, used : Nat, limit : Nat]]
    <3>1. view' = [view EXCEPT ![c] = view[c] \ {e}] \/ view' = [view EXCEPT ![c] = {}]
      OBVIOUS
    <3>2. view \in [Calls -> SUBSET [row : Rows, used : Nat, limit : Nat]]
      BY DEF TypeOK
    <3> QED
      BY ONLY <3>1, <3>2
  <2>3. steps' \in [Calls -> SUBSET Rows] /\ stray' \in [Calls -> SUBSET Rows]
    <3>1. steps' = [steps EXCEPT ![c] = @ \union {e.row}] \/ steps' = steps
      OBVIOUS
    <3>2. stray' = [stray EXCEPT ![c] = @ \union {e.row}] \/ stray' = stray
      OBVIOUS
    <3>3. steps \in [Calls -> SUBSET Rows] /\ stray \in [Calls -> SUBSET Rows]
      BY DEF TypeOK
    <3> QED
      BY ONLY <1>1, <3>1, <3>2, <3>3
  <2> QED
    BY <1>2, <1>4, <2>1, <2>2, <2>3 DEF TypeOK
<1> HIDE DEF EvalIncrement, EvalRefused, EvalLost, GiveUp, NextRow
<1>9. Unborn'
  BY <1>2, <1>5, <1>6 DEF Control, Unborn
<1>10. Plain'
  BY <1>2, <1>7 DEF Plain
<1>11. Place'
  BY <1>5, <1>6 DEF Control, Place
<1>12. Once'
  <2>1. OnceFor(c)
    BY DEF Control, Once
  <2>2. OnceFor(c)'
    BY <1>5, <2>1 DEF OnceFor
  <2> QED
    BY <1>6, <2>2, OnceFrame DEF Control
<1>13. Fresh'
  <2>1. \A d \in Calls : view'[d] \subseteq view[d]
    BY <1>5, <1>6
  <2> QED
    BY <1>2, <1>4, <2>1, FreshFrame DEF Control
<1>14. Kept'
  <2>1. key' = [key EXCEPT ![e.row] = Incremented(c, e)] => key'[e.row] # NoKey
    BY <1>1 DEF TypeOK
  <2>2. ASSUME NEW d \in Calls, NEW q \in steps'[d], pc'[d] \in {"charge", "undo"}
        PROVE  /\ q \in Rows
               /\ \/ pc[d] \in {"charge", "undo"} /\ q \in steps[d]
                  \/ key'[q] # NoKey
    <3>1. q \in Rows
      BY <1>8 DEF TypeOK
    <3>2. CASE d = c
      BY <1>5, <2>1, <2>2, <3>1, <3>2
    <3>3. CASE d # c
      BY <1>6, <2>2, <3>1, <3>3
    <3> QED
      BY <3>2, <3>3
  <2> QED
    BY <1>2, <1>4, <2>2, KeptFrame DEF Control
<1>15. Resets'
  BY <1>2 DEF Control, Resets
<1> QED
  BY <1>8, <1>9, <1>10, <1>11, <1>12, <1>13, <1>14, <1>15 DEF Control

\* Without Redis, the rows are charged at once.
LEMMA ChargeRowsControl ==
  ASSUME TypeOK, Control, NEW c \in Calls, ChargeRows(c)
  PROVE  TypeOK' /\ Control'
<1> USE DEF rowVars
<1>1. /\ ~counters /\ pc[c] = "idle"
      /\ UNCHANGED <<counters, row, limit, key, todo, view, stray, flush, admin, commands, trust>>
  BY DEF ChargeRows
<1>2. \/ /\ \A q \in RowsOf(c) : Fits(c, q)
         /\ used' = [q \in Rows |-> used[q] + IF q \in RowsOf(c) THEN Delta(c, q) ELSE 0]
         /\ steps' = [steps EXCEPT ![c] = RowsOf(c)]
         /\ pc' = [pc EXCEPT ![c] = "charge"]
      \/ pc' = [pc EXCEPT ![c] = "gone"] /\ UNCHANGED <<used, steps>>
  BY DEF ChargeRows
<1>3. \A q \in RowsOf(c) : q \in Rows /\ row[q] = "live"
  BY DEF RowsOf, Matching, Live
<1>4. /\ \A d \in Calls : view[d] = {} /\ todo[d] = {}
      /\ steps[c] = {} /\ stray[c] = {}
  BY <1>1 DEF Control, Plain, Place
<1>5. used' \in [Rows -> Nat] /\ \A q \in Rows : used'[q] <= limit[q] /\ (row[q] = "none" => used'[q] = used[q])
  <2>1. used \in [Rows -> Nat] /\ limit \in [Rows -> Nat] /\ \A q \in Rows : used[q] <= limit[q]
    BY DEF TypeOK
  <2>2. CASE used' = used
    BY <2>1, <2>2
  <2>3. CASE /\ \A q \in RowsOf(c) : Fits(c, q)
             /\ used' = [q \in Rows |-> used[q] + IF q \in RowsOf(c) THEN Delta(c, q) ELSE 0]
    <3>1. \A q \in Rows : Delta(c, q) \in Nat
      BY Numbers
    <3>2. \A q \in RowsOf(c) : used[q] + Delta(c, q) <= limit[q]
      BY <2>3 DEF Fits
    <3>3. \A q \in Rows : q \notin RowsOf(c) => used'[q] = used[q]
      BY <2>1, <2>3
    <3>4. \A q \in Rows : q \in RowsOf(c) => used'[q] = used[q] + Delta(c, q)
      BY <2>3
    <3>5. DOMAIN used' = Rows /\ used' = [q \in Rows |-> used'[q]]
      BY <2>3
    <3> QED
      BY <1>3, <2>1, <3>1, <3>2, <3>3, <3>4, <3>5
  <2> QED
    BY <1>2, <2>2, <2>3
<1>6. /\ steps' \in [Calls -> SUBSET Rows] /\ pc' \in [Calls -> {"idle", "charge", "undo", "done", "gone"}]
      /\ \A d \in Calls \ {c} : steps'[d] = steps[d] /\ pc'[d] = pc[d]
      /\ steps'[c] \subseteq RowsOf(c) /\ pc'[c] \in {"charge", "gone"}
  <2>1. steps \in [Calls -> SUBSET Rows] /\ pc \in [Calls -> {"idle", "charge", "undo", "done", "gone"}]
    BY DEF TypeOK
  <2>2. RowsOf(c) \in SUBSET Rows
    BY <1>3
  <2> QED
    BY <1>2, <1>4, <2>1, <2>2
<1>7. TypeOK'
  BY <1>1, <1>5, <1>6 DEF TypeOK
<1>8. Unborn'
  BY <1>1, <1>3, <1>5, <1>6 DEF Control, Unborn
<1>9. Plain' /\ Resets'
  BY <1>1 DEF Control, Plain, Resets
<1>10. Place'
  BY <1>1, <1>4, <1>6 DEF Control, Place
<1>11. Once'
  <2>1. OnceFor(c)'
    BY <1>1, <1>4 DEF OnceFor
  <2> QED
    BY <1>1, <1>6, <2>1, OnceFrame DEF Control
<1>12. Fresh'
  BY <1>1, <1>4 DEF Fresh
<1>13. Kept'
  BY <1>1 DEF Control, Plain, Kept
<1> QED
  BY <1>7, <1>8, <1>9, <1>10, <1>11, <1>12, <1>13 DEF Control

\* The handler ends, or the call does.
LEMMA EndControl ==
  ASSUME TypeOK, Control, NEW c \in Calls, HandlerReturns(c) \/ HandlerFails(c) \/ CutOff(c)
  PROVE  TypeOK' /\ Control'
<1>1. UNCHANGED <<counters, row, used, limit, key, steps, stray, flush, admin, commands, trust>>
  BY DEF HandlerReturns, HandlerFails, CutOff, rowVars
<1>2. /\ pc[c] \in {"charge", "undo"} /\ pc'[c] \in {"undo", "done", "gone"}
      /\ view'[c] = {} /\ todo'[c] = {}
      /\ \A d \in Calls \ {c} : pc'[d] = pc[d] /\ view'[d] = view[d] /\ todo'[d] = todo[d]
  BY DEF HandlerReturns, HandlerFails, CutOff, Running, Active, TypeOK
<1>3. TypeOK'
  <2>1. /\ pc' \in [Calls -> {"idle", "charge", "undo", "done", "gone"}]
        /\ todo' \in [Calls -> SUBSET Types]
    BY DEF HandlerReturns, HandlerFails, CutOff, TypeOK
  <2>2. view' \in [Calls -> SUBSET [row : Rows, used : Nat, limit : Nat]]
    <3>1. view' = view \/ view' = [view EXCEPT ![c] = {}]
      BY DEF HandlerReturns, HandlerFails, CutOff
    <3>2. view \in [Calls -> SUBSET [row : Rows, used : Nat, limit : Nat]]
      BY DEF TypeOK
    <3> QED
      BY ONLY <3>1, <3>2
  <2> QED
    BY <1>1, <2>1, <2>2 DEF TypeOK
<1>4. Unborn' /\ Resets'
  BY <1>1, <1>2 DEF Control, Unborn, Resets
<1>5. Plain'
  BY <1>1, <1>2 DEF Control, Plain
<1>6. Place'
  BY <1>1, <1>2 DEF Control, Place
<1>7. Once'
  <2>1. OnceFor(c)'
    BY <1>1, <1>2 DEF Control, Once, OnceFor
  <2> QED
    BY <1>1, <1>2, <2>1, OnceFrame DEF Control
<1>8. Fresh'
  <2>1. \A d \in Calls : view'[d] \subseteq view[d]
    BY <1>2
  <2> QED
    BY <1>1, <2>1, FreshFrame DEF Control
<1>9. Kept'
  <2>1. \A d \in Calls : pc'[d] \in {"charge", "undo"} => pc[d] \in {"charge", "undo"}
    BY <1>2
  <2> QED
    BY <1>1, <2>1 DEF Control, Kept
<1> QED
  BY <1>3, <1>4, <1>5, <1>6, <1>7, <1>8, <1>9 DEF Control

\* One charge of a rollback with Redis, taken back or not.
LEMMA UndoControl ==
  ASSUME TypeOK, Control, NEW c \in Calls, NEW q \in steps[c],
         UndoStep(c, q) \/ UndoStepFails(c, q)
  PROVE  TypeOK' /\ Control'
<1>1. /\ UNCHANGED <<counters, row, used, limit, pc, todo, view, flush, admin, commands, trust>>
      /\ counters /\ pc[c] = "undo"
  BY DEF UndoStep, UndoStepFails, Latest, rowVars
<1>2. q \in Rows /\ Delta(c, q) \in Nat
  BY Numbers DEF TypeOK
<1>3. /\ key' \in [Rows -> Int \union {NoKey}]
      /\ \A p \in Rows : key'[p] = NoKey => key[p] = NoKey
  <2>1. key \in [Rows -> Int \union {NoKey}] /\ NoKey \notin Int
    BY Numbers DEF TypeOK
  <2>2. CASE key' = key
    BY <2>1, <2>2
  <2>3. CASE key' = [key EXCEPT ![q] = (IF @ = NoKey THEN 0 ELSE @) - Delta(c, q)]
    <3> DEFINE v == (IF key[q] = NoKey THEN 0 ELSE key[q]) - Delta(c, q)
    <3>1. v \in Int /\ v # NoKey
      BY <1>2, <2>1
    <3>2. key' = [key EXCEPT ![q] = v]
      BY <2>3
    <3> HIDE DEF v
    <3> QED
      BY <1>2, <2>1, <3>1, <3>2
  <2> QED
    BY <2>2, <2>3 DEF UndoStep, UndoStepFails
<1>4. steps' = [steps EXCEPT ![c] = @ \ {q}] /\ (stray' = stray \/ stray' = [stray EXCEPT ![c] = @ \union {q}])
  BY DEF UndoStep, UndoStepFails
<1>5. /\ steps'[c] = steps[c] \ {q}
      /\ stray'[c] = stray[c] \/ stray'[c] = stray[c] \union {q}
      /\ \A d \in Calls \ {c} : steps'[d] = steps[d] /\ stray'[d] = stray[d]
  BY <1>4 DEF TypeOK
<1>6. TypeOK'
  <2>1. steps' \in [Calls -> SUBSET Rows] /\ stray' \in [Calls -> SUBSET Rows]
    <3>1. steps \in [Calls -> SUBSET Rows] /\ stray \in [Calls -> SUBSET Rows]
      BY DEF TypeOK
    <3> QED
      BY ONLY <1>2, <1>4, <3>1
  <2> QED
    BY <1>1, <1>3, <2>1 DEF TypeOK
<1>7. Unborn' /\ Plain' /\ Resets'
  BY <1>1, <1>5 DEF Control, Unborn, Plain, Resets
<1>8. Place'
  BY <1>1, <1>5 DEF Control, Place
<1>9. Once'
  <2>1. OnceFor(c)
    BY DEF Control, Once
  <2>2. OnceFor(c)'
    BY <1>1, <1>5, <2>1 DEF OnceFor
  <2> QED
    BY <1>1, <1>5, <2>2, OnceFrame DEF Control
<1>10. Fresh'
  BY <1>1, <1>3, FreshFrame DEF Control
<1>11. Kept'
  <2>1. \A d \in Calls : \A p \in steps'[d] : p \in Rows /\ p \in steps[d]
    BY <1>5 DEF TypeOK
  <2> QED
    BY <1>1, <1>3, <2>1, KeptFrame DEF Control
<1> QED
  BY <1>6, <1>7, <1>8, <1>9, <1>10, <1>11 DEF Control

\* A rollback without Redis.
LEMMA UndoRowsControl ==
  ASSUME TypeOK, Control, NEW c \in Calls, UndoRows(c)
  PROVE  TypeOK' /\ Control'
<1>1. /\ UNCHANGED <<counters, row, limit, key, pc, todo, view, stray, flush, admin, commands, trust>>
      /\ ~counters /\ pc[c] = "undo"
      /\ steps' = [steps EXCEPT ![c] = {}]
  BY DEF UndoRows
<1>2. /\ used' \in [Rows -> Nat]
      /\ \A q \in Rows : used'[q] <= used[q] /\ (row[q] # "live" => used'[q] = used[q])
  <2>1. used' = [q \in Rows |-> IF q \in steps[c] /\ row[q] = "live"
                                THEN Max({0, used[q] - Delta(c, q)}) ELSE used[q]]
    BY DEF UndoRows, Live
  <2>2. \A q \in Rows : used[q] \in Nat /\ Delta(c, q) \in Nat
    BY Numbers DEF TypeOK
  <2>3. \A q \in Rows : /\ Max({0, used[q] - Delta(c, q)}) \in Nat
                        /\ Max({0, used[q] - Delta(c, q)}) <= used[q]
    <3> TAKE q \in Rows
    <3> DEFINE m == Max({0, used[q] - Delta(c, q)})
    <3>1. m \in {0, used[q] - Delta(c, q)} /\ m >= 0
      <4>1. used[q] - Delta(c, q) \in Int /\ 0 \in Int
        BY <2>2
      <4> QED
        BY <4>1, MaxOfTwo
    <3> HIDE DEF m
    <3>2. m \in Nat /\ m <= used[q]
      BY <2>2, <3>1
    <3> QED
      BY <3>2 DEF m
  <2> QED
    BY <2>1, <2>2, <2>3
<1>3. \A q \in Rows : used'[q] <= limit[q] /\ (row[q] = "none" => used'[q] = 0)
  <2>1. \A q \in Rows : used[q] \in Nat /\ limit[q] \in Nat /\ used[q] <= limit[q]
    BY DEF TypeOK
  <2>2. \A q \in Rows : row[q] = "none" => used[q] = 0
    BY DEF Control, Unborn
  <2> QED
    BY <1>2, <2>1, <2>2
<1>4. steps'[c] = {} /\ \A d \in Calls \ {c} : steps'[d] = steps[d]
  BY <1>1 DEF TypeOK
<1>5. TypeOK'
  BY <1>1, <1>2, <1>3 DEF TypeOK
<1>6. Unborn'
  BY <1>1, <1>3, <1>4 DEF Control, Unborn
<1>7. Plain' /\ Resets' /\ Fresh'
  BY <1>1 DEF Control, Plain, Resets, Fresh
<1>8. Place'
  BY <1>1, <1>4 DEF Control, Place
<1>9. Once'
  <2>1. OnceFor(c)'
    BY <1>1, <1>4 DEF Control, Once, OnceFor
  <2> QED
    BY <1>1, <1>4, <2>1, OnceFrame DEF Control
<1>10. Kept'
  BY <1>1 DEF Control, Plain, Kept
<1> QED
  BY <1>5, <1>6, <1>7, <1>8, <1>9, <1>10 DEF Control

(***************************************************************************)
(* What the flush loop, expiry and administration do to types and control  *)
(***************************************************************************)

\* The flush loop reads a counter.
LEMMA ReadControl ==
  ASSUME TypeOK, Control, NEW q \in Rows, FlushRead(q)
  PROVE  TypeOK' /\ Control'
<1>1. /\ UNCHANGED <<counters, row, used, limit, key, pc, todo, view, steps, stray, admin,
                     commands, trust>>
      /\ key[q] # NoKey /\ flush' = [row |-> q, value |-> key[q]]
  BY DEF FlushRead, rowVars, callVars
<1>2. flush' \in [row : Rows, value : Int] /\ flush'.row = q
  BY <1>1 DEF TypeOK
<1>3. TypeOK'
  BY <1>1, <1>2 DEF TypeOK
<1>4. Unborn' /\ Plain' /\ Place' /\ Resets'
  BY <1>1 DEF Control, Unborn, Plain, Place, Resets
<1>5. Once' /\ Fresh'
  BY <1>1 DEF Control, Once, OnceFor, Fresh
<1>6. Kept'
  BY <1>1, <1>2 DEF Control, Kept
<1> QED
  BY <1>3, <1>4, <1>5, <1>6 DEF Control

\* The flush loop writes what it has read: to a row whose counter is there, and
\* that no call will take for the count.
LEMMA WriteControl ==
  ASSUME TypeOK, Control, FlushWrite
  PROVE  TypeOK' /\ Control'
<1> DEFINE q == flush.row
           v == Flushed(q, flush.value)
<1>1. /\ UNCHANGED <<counters, row, limit, key, pc, todo, view, steps, stray, admin,
                     commands, trust>>
      /\ flush # NoFlush /\ flush' = NoFlush
  BY DEF FlushWrite, callVars
<1>2. q \in Rows /\ flush.value \in Int
  BY <1>1 DEF TypeOK
<1>3. used' = used \/ (row[q] = "live" /\ v <= limit[q] /\ used' = [used EXCEPT ![q] = v])
  BY DEF FlushWrite, Live
<1>4. v \in Nat
  <2>0. used \in [Rows -> Nat]
    BY DEF TypeOK
  <2>1. used[q] \in Nat /\ used[q] \in Int
    BY <1>2, <2>0
  <2>2. Max({used[q], flush.value}) \in Nat
    <3> DEFINE m == Max({used[q], flush.value})
    <3>1. m \in {used[q], flush.value} /\ m >= used[q]
      BY <1>2, <2>1, MaxOfTwo
    <3> HIDE DEF m
    <3>2. m \in Nat
      BY <1>2, <2>1, <3>1
    <3> QED
      BY <3>2 DEF m
  <2> QED
    BY <2>2 DEF Flushed
<1> HIDE DEF q, v
<1>5. /\ used' \in [Rows -> Nat]
      /\ \A p \in Rows : used'[p] <= limit[p] /\ (row[p] = "none" => used'[p] = 0)
      /\ \A p \in Rows \ {q} : used'[p] = used[p]
  <2>1. used \in [Rows -> Nat] /\ \A p \in Rows : used[p] <= limit[p]
    BY DEF TypeOK
  <2>2. \A p \in Rows : row[p] = "none" => used[p] = 0
    BY DEF Control, Unborn
  <2> QED
    BY <1>2, <1>3, <1>4, <2>1, <2>2
<1>6. TypeOK'
  BY <1>1, <1>5 DEF TypeOK
<1>7. Unborn'
  BY <1>1, <1>5 DEF Control, Unborn
<1>8. Plain' /\ Place' /\ Resets'
  BY <1>1 DEF Control, Plain, Place, Resets
<1>9. Once' /\ Kept'
  BY <1>1 DEF Control, Once, OnceFor, Kept
<1>10. Fresh'
  <2> SUFFICES ASSUME NEW d \in Calls, NEW f \in view'[d],
                      key'[f.row] = NoKey, trust'[f.row] # "given up"
               PROVE  f.used = used'[f.row]
    BY DEF Fresh
  <2>1. f \in view[d] /\ f.row \in Rows
    BY <1>1, Entries
  <2>2. f.row # q
    BY <1>1, <2>1 DEF Control, Kept, q
  <2>3. f.used = used[f.row]
    BY <1>1, <2>1 DEF Control, Fresh
  <2> QED
    BY <1>5, <2>1, <2>2, <2>3
<1> QED
  BY <1>6, <1>7, <1>8, <1>9, <1>10 DEF Control

\* A counter expires when nobody is at work.
LEMMA ExpireControl ==
  ASSUME TypeOK, Control, NEW q \in Rows, Expire(q)
  PROVE  TypeOK' /\ Control'
<1>1. /\ UNCHANGED <<counters, row, used, limit, pc, todo, view, steps, stray, flush, admin, commands>>
      /\ flush = NoFlush /\ admin = NoReset
      /\ key' = [key EXCEPT ![q] = NoKey]
  BY DEF Expire, rowVars, callVars
<1>2. \A c \in Calls : /\ pc[c] # "charge" /\ view[c] = {}
                       /\ pc[c] = "undo" => steps[c] = {}
  BY DEF Expire, Active, Control, Place
<1>3. TypeOK'
  <2>1. key' \in [Rows -> Int \union {NoKey}]
    BY <1>1 DEF TypeOK
  <2>2. trust' \in [Rows -> {"whole", "expired", "given up"}]
    BY DEF Expire, TypeOK
  <2> QED
    BY <1>1, <2>1, <2>2 DEF TypeOK
<1>4. Unborn' /\ Place' /\ Resets'
  BY <1>1 DEF Control, Unborn, Place, Resets
<1>5. Plain'
  BY <1>1 DEF TypeOK, Control, Plain
<1>6. Once'
  BY <1>1 DEF Control, Once, OnceFor
<1>7. Fresh' /\ Kept'
  BY <1>1, <1>2 DEF Fresh, Kept
<1> QED
  BY <1>3, <1>4, <1>5, <1>6, <1>7 DEF Control

\* manage_quotas changes rows, and no call's business.
LEMMA RowControl ==
  ASSUME TypeOK, Control, NEW q \in Rows,
         DeleteRow(q) \/ \E l \in Limits : SetLimit(q, l) \/ InsertRow(q, l)
  PROVE  TypeOK' /\ Control'
<1>1. UNCHANGED <<counters, used, key, pc, todo, view, steps, stray, flush, admin, trust>>
  BY DEF DeleteRow, SetLimit, InsertRow, callVars
<1>2. commands' \in 0 .. MaxAdmin
  <2>1. Command
    BY DEF DeleteRow, SetLimit, InsertRow
  <2>2. commands \in 0 .. MaxAdmin
    BY DEF TypeOK
  <2> QED
    BY <2>1, <2>2, Numbers DEF Command
<1>3. /\ row' \in [Rows -> {"none", "live", "deleted"}]
      /\ \A p \in Rows : row'[p] = "none" => row[p] = "none"
  <2>1. \/ row' = row
        \/ row' = [row EXCEPT ![q] = "live"]
        \/ row' = [row EXCEPT ![q] = "deleted"]
    BY DEF DeleteRow, SetLimit, InsertRow
  <2> QED
    BY <2>1 DEF TypeOK
<1>4. limit' \in [Rows -> Nat] /\ \A p \in Rows : used[p] <= limit'[p]
  <2>1. /\ limit \in [Rows -> Nat] /\ used \in [Rows -> Nat]
        /\ \A p \in Rows : used[p] <= limit[p]
    BY DEF TypeOK
  <2>2. CASE DeleteRow(q)
    BY <2>1, <2>2 DEF DeleteRow
  <2>3. ASSUME NEW l \in Limits, SetLimit(q, l) \/ InsertRow(q, l)
        PROVE  limit' \in [Rows -> Nat] /\ \A p \in Rows : used[p] <= limit'[p]
    <3>1. l \in Nat /\ limit' = [limit EXCEPT ![q] = l]
      BY <2>3, Numbers DEF SetLimit, InsertRow
    <3>2. used[q] <= l
      BY <2>1, <2>3, <3>1 DEF SetLimit, InsertRow, Control, Unborn
    <3> QED
      BY <2>1, <3>1, <3>2
  <2> QED
    BY <2>2, <2>3
<1>5. TypeOK'
  BY <1>1, <1>2, <1>3, <1>4 DEF TypeOK
<1>6. Unborn'
  <2>1. \A d \in Calls : steps[d] \subseteq Rows
    BY DEF TypeOK
  <2>2. \A d \in Calls : \A f \in view[d] : f.row \in Rows
    BY Entries
  <2> QED
    BY <1>1, <1>3, <2>1, <2>2 DEF Control, Unborn
<1>7. Plain' /\ Place' /\ Resets'
  BY <1>1 DEF Control, Plain, Place, Resets
<1>8. Once' /\ Fresh' /\ Kept'
  BY <1>1 DEF Control, Once, OnceFor, Fresh, Kept
<1> QED
  BY <1>5, <1>6, <1>7, <1>8 DEF Control

\* A reset begins, or fails.
LEMMA ResetControl ==
  ASSUME TypeOK, Control, ResetFails \/ \E q \in Rows : ResetRow(q)
  PROVE  TypeOK' /\ Control'
<1>1. UNCHANGED <<counters, row, used, limit, key, pc, todo, view, steps, stray, flush, trust>>
  BY DEF ResetFails, ResetRow, rowVars, callVars
<1>2. commands' \in 0 .. MaxAdmin
  <2>1. Command \/ commands' = commands
    BY DEF ResetFails, ResetRow
  <2>2. commands \in 0 .. MaxAdmin
    BY DEF TypeOK
  <2> QED
    BY <2>1, <2>2, Numbers DEF Command
<1>3. /\ admin' \in {NoReset} \union [row : Rows, deleted : BOOLEAN]
      /\ admin' # NoReset => ~admin'.deleted
  <2>1. CASE ResetFails
    BY <2>1 DEF ResetFails
  <2>2. ASSUME NEW q \in Rows, ResetRow(q)
        PROVE  admin' \in [row : Rows, deleted : BOOLEAN] /\ ~admin'.deleted
    BY <2>2 DEF ResetRow
  <2> QED
    BY <2>1, <2>2
<1>4. TypeOK'
  BY <1>1, <1>2, <1>3 DEF TypeOK
<1>5. Unborn' /\ Plain' /\ Place' /\ Resets'
  BY <1>1, <1>3 DEF Control, Unborn, Plain, Place, Resets
<1>6. Once' /\ Fresh' /\ Kept'
  BY <1>1 DEF Control, Once, OnceFor, Fresh, Kept
<1> QED
  BY <1>4, <1>5, <1>6 DEF Control

\* delete_quota_redis_counter: from here on the row's count is given up.
LEMMA DeleteControl ==
  ASSUME TypeOK, Control, ResetCounter
  PROVE  TypeOK' /\ Control'
<1> DEFINE q == admin.row
<1>1. /\ UNCHANGED <<counters, row, used, limit, pc, todo, view, steps, stray, flush, commands>>
      /\ key' = [key EXCEPT ![q] = NoKey]
      /\ admin' = [admin EXCEPT !.deleted = TRUE]
      /\ trust' = [trust EXCEPT ![q] = "given up"]
  BY DEF ResetCounter, rowVars, callVars
<1>2. admin \in [row : Rows, deleted : BOOLEAN]
  BY DEF ResetCounter, TypeOK
<1>3. q \in Rows /\ admin' \in [row : Rows, deleted : BOOLEAN] /\ admin'.row = q
  BY <1>1, <1>2
<1> HIDE DEF q
<1>4. /\ key' \in [Rows -> Int \union {NoKey}]
      /\ trust' \in [Rows -> {"whole", "expired", "given up"}]
      /\ key'[q] = NoKey /\ trust'[q] = "given up"
      /\ \A p \in Rows : p # q => key'[p] = key[p] /\ trust'[p] = trust[p]
  BY <1>1, <1>3 DEF TypeOK
<1>5. TypeOK'
  BY <1>1, <1>3, <1>4 DEF TypeOK
<1>6. Unborn' /\ Place' /\ Resets'
  <2>1. trust'[admin'.row] = "given up"
    BY <1>3, <1>4
  <2> QED
    BY <1>1, <2>1 DEF Control, Unborn, Place, Resets
<1>7. Plain'
  BY <1>1, <1>4 DEF Control, Plain
<1>8. Once'
  BY <1>1 DEF Control, Once, OnceFor
<1>9. Fresh'
  <2> SUFFICES ASSUME NEW d \in Calls, NEW f \in view'[d],
                      key'[f.row] = NoKey, trust'[f.row] # "given up"
               PROVE  f.used = used'[f.row]
    BY DEF Fresh
  <2>1. f \in view[d] /\ f.row \in Rows
    BY <1>1, Entries
  <2>2. f.row # q /\ key[f.row] = NoKey /\ trust[f.row] # "given up"
    BY <1>4, <2>1
  <2> QED
    BY <1>1, <2>1, <2>2 DEF Control, Fresh
<1>10. Kept'
  <2>1. flush # NoFlush => flush.row \in Rows
    BY DEF TypeOK
  <2>2. \A d \in Calls : steps[d] \subseteq Rows
    BY DEF TypeOK
  <2>3. \A p \in Rows : trust'[p] # "given up" => trust[p] # "given up" /\ key'[p] = key[p]
    BY <1>4
  <2> QED
    BY <1>1, <2>1, <2>2, <2>3 DEF Control, Kept
<1> QED
  BY <1>5, <1>6, <1>7, <1>8, <1>9, <1>10 DEF Control

\* The reset commits.
LEMMA CommitControl ==
  ASSUME TypeOK, Control, ResetCommit
  PROVE  TypeOK' /\ Control'
<1> DEFINE q == admin.row
<1>1. /\ UNCHANGED <<counters, row, limit, key, pc, todo, view, steps, stray, flush, commands, trust>>
      /\ used' = [used EXCEPT ![q] = 0] /\ admin' = NoReset
  BY DEF ResetCommit, callVars
<1>2. q \in Rows /\ trust[q] = "given up"
  BY DEF ResetCommit, TypeOK, Control, Resets
<1> HIDE DEF q
<1>3. /\ used' \in [Rows -> Nat] /\ used'[q] = 0
      /\ \A p \in Rows : p # q => used'[p] = used[p]
      /\ \A p \in Rows : used'[p] <= limit[p]
  <2>1. used \in [Rows -> Nat] /\ limit \in [Rows -> Nat] /\ \A p \in Rows : used[p] <= limit[p]
    BY DEF TypeOK
  <2>2. used' \in [Rows -> Nat]
    BY <1>1, <2>1
  <2>3. used'[q] = 0 /\ \A p \in Rows : p # q => used'[p] = used[p]
    BY <1>1, <1>2, <2>1
  <2>4. \A p \in Rows : used'[p] <= limit[p]
    BY <2>1, <2>3
  <2> QED
    BY <2>2, <2>3, <2>4
<1>4. TypeOK'
  BY <1>1, <1>3 DEF TypeOK
<1>5. Unborn'
  BY <1>1, <1>3 DEF Control, Unborn
<1>6. Plain' /\ Place' /\ Resets'
  BY <1>1 DEF Control, Plain, Place, Resets
<1>7. Once' /\ Kept'
  BY <1>1 DEF Control, Once, OnceFor, Kept
<1>8. Fresh'
  <2> SUFFICES ASSUME NEW d \in Calls, NEW f \in view'[d],
                      key'[f.row] = NoKey, trust'[f.row] # "given up"
               PROVE  f.used = used'[f.row]
    BY DEF Fresh
  <2>1. f \in view[d] /\ f.row \in Rows
    BY <1>1, Entries
  <2> QED
    BY <1>1, <1>2, <1>3, <2>1 DEF Control, Fresh
<1> QED
  BY <1>4, <1>5, <1>6, <1>7, <1>8 DEF Control

(***************************************************************************)
(* What the steps do to the count of a row and to what is charged on it    *)
(***************************************************************************)

\* Charges of the calls S on row q.
Owed(q, S) == SumFunctionOnSet([c \in Calls |-> Delta(c, q)], S)

Charging(q) == {c \in Calls : q \in stray[c] \union steps[c]}

\* What call c has charged on row q and not taken back.
Part(c, q) == IF q \in stray[c] \union steps[c] THEN Delta(c, q) ELSE 0

\* Charges add up.
LEMMA OwedFacts ==
  ASSUME NEW q \in Rows, NEW S \in SUBSET Calls
  PROVE  /\ Owed(q, S) \in Nat
         /\ \A c \in S : Owed(q, S \ {c}) \in Nat /\ Owed(q, S) = Delta(c, q) + Owed(q, S \ {c})
<1> DEFINE f == [c \in Calls |-> Delta(c, q)]
<1>1. \A c \in Calls : f[c] \in Nat /\ f[c] \in Int /\ f[c] = Delta(c, q)
  BY Numbers
<1>2. \A T : Owed(q, T) = SumFunctionOnSet(f, T)
  BY DEF Owed
<1> HIDE DEF f
<1>3. IsFiniteSet(S) /\ \A c \in S : IsFiniteSet(S \ {c})
  BY QuotaAssumption, FS_Subset, FS_RemoveElement
<1>4. SumFunctionOnSet(f, S) \in Nat /\ \A c \in S : SumFunctionOnSet(f, S \ {c}) \in Nat
  BY <1>1, <1>3, SumNat
<1>5. \A c \in S : SumFunctionOnSet(f, S) = f[c] + SumFunctionOnSet(f, S \ {c})
  BY <1>1, <1>3, SumFacts
<1> QED
  BY <1>1, <1>2, <1>4, <1>5

\* What is outstanding on a row is the part of one call and a rest.
LEMMA OutstandingParts ==
  ASSUME NEW c \in Calls, NEW q \in Rows
  PROVE  /\ Owed(q, Charging(q) \ {c}) \in Nat /\ Part(c, q) \in Nat
         /\ Outstanding(q) = Base[q] + (Part(c, q) + Owed(q, Charging(q) \ {c}))
<1>1. Charging(q) \in SUBSET Calls /\ (c \in Charging(q) <=> q \in stray[c] \union steps[c])
  BY DEF Charging
<1>2. Outstanding(q) = Base[q] + Owed(q, Charging(q))
  BY DEF Outstanding, Owed, Charging
<1>3. Delta(c, q) \in Nat
  BY Numbers
<1>4. CASE c \in Charging(q)
  <2>1. /\ Owed(q, Charging(q) \ {c}) \in Nat
        /\ Owed(q, Charging(q)) = Delta(c, q) + Owed(q, Charging(q) \ {c})
    BY <1>1, <1>4, OwedFacts
  <2> QED
    BY <1>1, <1>2, <1>3, <1>4, <2>1 DEF Part
<1>5. CASE c \notin Charging(q)
  <2>1. Charging(q) \ {c} = Charging(q) /\ Owed(q, Charging(q)) \in Nat
    BY <1>1, <1>5, OwedFacts
  <2>2. Part(c, q) = 0
    BY <1>1, <1>5 DEF Part
  <2> QED
    BY <1>2, <2>1, <2>2
<1> QED
  BY <1>4, <1>5

\* A step of one call changes what is outstanding by what it changes of its part.
LEMMA OneCall ==
  ASSUME NEW c \in Calls, NEW q \in Rows,
         \A d \in Calls : d # c => steps'[d] = steps[d] /\ stray'[d] = stray[d]
  PROVE  /\ Outstanding(q) \in Nat /\ Outstanding(q)' \in Nat
         /\ Part(c, q) \in Nat /\ Part(c, q)' \in Nat /\ Part(c, q) <= Outstanding(q)
         /\ Outstanding(q)' = Outstanding(q) - Part(c, q) + Part(c, q)'
<1>1. Charging(q)' \ {c} = Charging(q) \ {c}
  BY DEF Charging
<1>2. /\ Owed(q, Charging(q) \ {c}) \in Nat /\ Part(c, q) \in Nat
      /\ Outstanding(q) = Base[q] + (Part(c, q) + Owed(q, Charging(q) \ {c}))
  BY OutstandingParts
<1>3. Part(c, q)' = IF q \in stray'[c] \union steps'[c] THEN Delta(c, q) ELSE 0
  BY DEF Part
<1>4. Delta(c, q) \in Nat /\ Base[q] \in Nat
  BY Numbers
<1>5. Outstanding(q)' = Base[q] + (Part(c, q)' + Owed(q, Charging(q)' \ {c}))
  <2>1. Charging(q)' \in SUBSET Calls /\ (c \in Charging(q)' <=> q \in stray'[c] \union steps'[c])
    BY DEF Charging
  <2>2. Outstanding(q)' = Base[q] + Owed(q, Charging(q)')
    BY DEF Outstanding, Owed, Charging
  <2>3. CASE c \in Charging(q)'
    <3>1. Owed(q, Charging(q)') = Delta(c, q) + Owed(q, Charging(q)' \ {c})
      BY <2>1, <2>3, OwedFacts
    <3> QED
      BY <1>3, <2>1, <2>2, <2>3, <3>1
  <2>4. CASE c \notin Charging(q)'
    <3>1. Charging(q)' \ {c} = Charging(q)' /\ Owed(q, Charging(q)') \in Nat
      BY <2>1, <2>4, OwedFacts
    <3>2. Part(c, q)' = 0
      BY <1>3, <2>1, <2>4
    <3>3. Owed(q, Charging(q)' \ {c}) = Owed(q, Charging(q)')
      BY <3>1
    <3>4. Owed(q, Charging(q)') = Part(c, q)' + Owed(q, Charging(q)' \ {c})
      BY <3>1, <3>2, <3>3
    <3> QED
      BY <2>2, <3>4
  <2> QED
    BY <2>3, <2>4
<1>6. Part(c, q)' \in Nat
  BY <1>3, <1>4
<1>7. Outstanding(q)' = Base[q] + (Part(c, q)' + Owed(q, Charging(q) \ {c}))
  BY <1>1, <1>5
<1> HIDE DEF Owed, Charging, Part, Outstanding
<1> QED
  BY <1>2, <1>4, <1>6, <1>7

\* Counts are numbers.
LEMMA CountType ==
  ASSUME TypeOK, NEW q \in Rows
  PROVE  /\ Count(q) \in Int /\ used[q] \in Nat
         /\ key[q] # NoKey => key[q] \in Int
         /\ Count(q) = IF key[q] = NoKey THEN used[q] ELSE key[q]
<1>1. key \in [Rows -> Int \union {NoKey}] /\ used \in [Rows -> Nat]
  BY DEF TypeOK
<1> QED
  BY <1>1 DEF Count

\* Order is kept by adding.
LEMMA Shift ==
  \A i, j, k \in Int : (i >= j => i + k >= j + k) /\ (i <= j => i + k <= j + k)
OBVIOUS

\* A row whose count and charges change alike stays balanced.
LEMMA BalanceMoves ==
  ASSUME NEW q \in Rows, Balanced(q), TypeOK, TypeOK',
         trust'[q] # "given up" => trust[q] # "given up",
         trust'[q] = "whole" => trust[q] = "whole",
         row'[q] # "deleted" => row[q] # "deleted",
         NEW x \in Int, Outstanding(q) \in Int, Outstanding(q)' = Outstanding(q) + x,
         trust'[q] # "given up" /\ row'[q] # "deleted" => Count(q)' = Count(q) + x
  PROVE  Balanced(q)'
<1>1. Count(q) \in Int
  BY CountType
<1>2. ASSUME row'[q] # "deleted", trust'[q] # "given up" PROVE Count(q)' >= Outstanding(q)'
  <2>1. Count(q) >= Outstanding(q) /\ Count(q)' = Count(q) + x
    BY <1>2 DEF Balanced
  <2>2. Count(q) + x >= Outstanding(q) + x
    BY <1>1, <2>1, Shift, Zenon
  <2> QED
    BY <2>1, <2>2
<1>3. ASSUME row'[q] # "deleted", trust'[q] = "whole" PROVE Count(q)' <= Outstanding(q)'
  <2>1. Count(q) <= Outstanding(q) /\ Count(q)' = Count(q) + x
    BY <1>3 DEF Balanced
  <2>2. Count(q) + x <= Outstanding(q) + x
    BY <1>1, <2>1, Shift, Zenon
  <2> QED
    BY <2>1, <2>2
<1> QED
  BY <1>2, <1>3 DEF Balanced

\* A row whose count and charges do not change stays balanced.
LEMMA BalanceStays ==
  ASSUME NEW q \in Rows, Balanced(q), trust'[q] = trust[q],
         row'[q] # "deleted" => row[q] # "deleted",
         Outstanding(q)' = Outstanding(q), Count(q)' = Count(q)
  PROVE  Balanced(q)'
BY DEF Balanced

\* Steps that touch no count and no charge.
LEMMA NothingMoves ==
  ASSUME IInv, TypeOK', UNCHANGED <<used, key, trust, steps, stray>>,
         \A q \in Rows : row'[q] # "deleted" => row[q] # "deleted"
  PROVE  \A q \in Rows : Balanced(q)'
<1> TAKE q \in Rows
<1>1. Outstanding(q)' = Outstanding(q)
  BY DEF Outstanding
<1>2. Count(q)' = Count(q)
  BY DEF Count
<1> QED
  BY <1>1, <1>2 DEF IInv, Balanced

\* The script adds a charge to the count of its row, from whichever value.
LEMMA IncrementCounts ==
  ASSUME IInv, NEW c \in Calls, NEW e \in view[c], trust[e.row] # "given up"
  PROVE  Incremented(c, e) = Count(e.row) + Delta(c, e.row)
<1>1. key[e.row] = NoKey => e.used = used[e.row]
  BY DEF IInv, Control, Fresh
<1> QED
  BY <1>1 DEF Incremented, Count

\* The call charges the row it read.
LEMMA IncrementBalance ==
  ASSUME IInv, TypeOK', NEW c \in Calls, NEW e \in view[c],
         UNCHANGED <<row, used, trust>>,
         key' = [key EXCEPT ![e.row] = Incremented(c, e)],
         \/ steps' = [steps EXCEPT ![c] = @ \union {e.row}] /\ stray' = stray
         \/ stray' = [stray EXCEPT ![c] = @ \union {e.row}] /\ steps' = steps
  PROVE  /\ \A q \in Rows : Balanced(q)'
         /\ Outstanding(e.row) \in Nat
         /\ Outstanding(e.row)' = Outstanding(e.row) + Delta(c, e.row)
<1>0. TypeOK /\ Control /\ e.row \in Rows /\ Incremented(c, e) # NoKey
  BY Entries DEF IInv
<1>1. \A d \in Calls : d # c => steps'[d] = steps[d] /\ stray'[d] = stray[d]
  BY <1>0 DEF TypeOK
<1>2. stray'[c] \union steps'[c] = (stray[c] \union steps[c]) \union {e.row}
  <2>1. steps \in [Calls -> SUBSET Rows] /\ stray \in [Calls -> SUBSET Rows]
    BY <1>0 DEF TypeOK
  <2>2. \/ steps'[c] = steps[c] \union {e.row} /\ stray'[c] = stray[c]
        \/ stray'[c] = stray[c] \union {e.row} /\ steps'[c] = steps[c]
    BY <2>1
  <2> QED
    BY <2>2
<1>3. e.row \notin stray[c] \union steps[c]
  BY <1>0 DEF Control, Once, OnceFor
<1>4. \A q \in Rows : /\ Outstanding(q) \in Nat /\ Delta(c, q) \in Nat
                      /\ Outstanding(q)' = Outstanding(q) + IF q = e.row THEN Delta(c, q) ELSE 0
  <2> TAKE q \in Rows
  <2>1. /\ Outstanding(q) \in Nat /\ Part(c, q) \in Nat
        /\ Outstanding(q)' = Outstanding(q) - Part(c, q) + Part(c, q)'
    BY <1>1, OneCall
  <2>2. Delta(c, q) \in Nat
    BY Numbers
  <2>3. Part(c, q)' = IF q \in stray'[c] \union steps'[c] THEN Delta(c, q) ELSE 0
    BY DEF Part
  <2>4. CASE q = e.row
    <3>1. Part(c, q)' = Delta(c, q) /\ Part(c, q) = 0
      BY <1>2, <1>3, <2>3, <2>4 DEF Part
    <3> QED
      BY <2>1, <2>2, <2>4, <3>1
  <2>5. CASE q # e.row
    <3>1. Part(c, q)' = Part(c, q)
      BY <1>2, <2>3, <2>5 DEF Part
    <3> QED
      BY <2>1, <2>2, <2>5, <3>1
  <2> QED
    BY <2>4, <2>5
<1>5. ASSUME NEW q \in Rows PROVE Balanced(q)'
  <2>1. Balanced(q) /\ Outstanding(q) \in Int
    BY <1>4 DEF IInv
  <2>2. CASE q = e.row
    <3>1. ASSUME trust[q] # "given up" PROVE Count(q)' = Count(q) + Delta(c, q)
      <4>1. key'[q] = Incremented(c, e)
        BY <1>0, <2>2 DEF TypeOK
      <4> QED
        BY <1>0, <2>2, <3>1, <4>1, IncrementCounts DEF Count
    <3>2. Outstanding(q)' = Outstanding(q) + Delta(c, q) /\ Delta(c, q) \in Int
      BY <1>4, <2>2
    <3> QED
      BY <1>0, <2>1, <3>1, <3>2, BalanceMoves
  <2>3. CASE q # e.row
    <3>1. key'[q] = key[q]
      BY <1>0, <2>3 DEF TypeOK
    <3>2. Count(q)' = Count(q)
      BY <1>0, <3>1, CountType DEF Count
    <3>3. Outstanding(q)' = Outstanding(q)
      BY <1>4, <2>3
    <3> QED
      BY <2>1, <3>2, <3>3, BalanceStays
  <2> QED
    BY <2>2, <2>3
<1> QED
  BY <1>0, <1>4, <1>5

\* A rollback with Redis: what is taken from the counter is taken from the
\* call's part, or stays in both.
LEMMA UndoBalance ==
  ASSUME IInv, TypeOK', NEW c \in Calls, NEW p \in steps[c],
         UndoStep(c, p) \/ UndoStepFails(c, p)
  PROVE  \A q \in Rows : Balanced(q)'
<1>0. TypeOK /\ Control /\ p \in Rows /\ pc[c] = "undo" /\ counters
  BY DEF IInv, TypeOK, UndoStep, UndoStepFails, Latest
<1>1. UNCHANGED <<row, used, trust>>
  BY DEF UndoStep, UndoStepFails, rowVars
<1>2. \A d \in Calls : d # c => steps'[d] = steps[d] /\ stray'[d] = stray[d]
  BY <1>0 DEF TypeOK, UndoStep, UndoStepFails
<1>3. p \notin stray[c]
  BY <1>0 DEF Control, Once, OnceFor
<1>4. trust[p] # "given up" => key[p] # NoKey
  BY <1>0 DEF Control, Kept
<1> TAKE q \in Rows
<1>5. /\ Outstanding(q) \in Nat /\ Part(c, q) \in Nat /\ Part(c, q)' \in Nat
      /\ Outstanding(q)' = Outstanding(q) - Part(c, q) + Part(c, q)'
  BY <1>2, OneCall
<1>6. Delta(c, q) \in Nat /\ Balanced(q) /\ Outstanding(q) \in Int
  BY <1>5, Numbers DEF IInv
<1>7. Part(c, q)' = IF q \in stray'[c] \union steps'[c] THEN Delta(c, q) ELSE 0
  BY DEF Part
<1>8. CASE UndoStepFails(c, p)
  <2>1. stray'[c] \union steps'[c] = stray[c] \union steps[c] /\ key' = key
    <3>1. steps \in [Calls -> SUBSET Rows] /\ stray \in [Calls -> SUBSET Rows]
      BY <1>0 DEF TypeOK
    <3>2. stray'[c] = stray[c] \union {p} /\ steps'[c] = steps[c] \ {p} /\ key' = key
      BY <1>8, <3>1 DEF UndoStepFails
    <3> QED
      BY <3>2
  <2>2. Outstanding(q)' = Outstanding(q)
    BY <1>5, <1>7, <2>1 DEF Part
  <2>3. Count(q)' = Count(q)
    BY <1>0, <1>1, <2>1, CountType DEF Count
  <2> QED
    BY <1>1, <1>6, <2>2, <2>3, BalanceStays
<1>9. CASE UndoStep(c, p) /\ q # p
  <2>1. stray'[c] = stray[c] /\ steps'[c] = steps[c] \ {p} /\ key'[q] = key[q]
    BY <1>0, <1>9 DEF TypeOK, UndoStep
  <2>2. Outstanding(q)' = Outstanding(q)
    BY <1>5, <1>7, <1>9, <2>1 DEF Part
  <2>3. Count(q)' = Count(q)
    BY <1>0, <1>1, <2>1, CountType DEF Count
  <2> QED
    BY <1>1, <1>6, <2>2, <2>3, BalanceStays
<1>10. CASE UndoStep(c, p) /\ q = p
  <2>1. /\ stray'[c] = stray[c] /\ steps'[c] = steps[c] \ {p}
        /\ key'[p] = (IF key[p] = NoKey THEN 0 ELSE key[p]) - Delta(c, p)
    BY <1>0, <1>10 DEF TypeOK, UndoStep
  <2> DEFINE x == 0 - Delta(c, q)
  <2>2. x \in Int
    BY <1>6
  <2>3. Part(c, q) = Delta(c, q) /\ Part(c, q)' = 0
    BY <1>3, <1>7, <1>10, <2>1 DEF Part
  <2>4. Outstanding(q)' = Outstanding(q) + x
    BY <1>5, <1>6, <2>3
  <2>5. ASSUME trust[q] # "given up" PROVE Count(q)' = Count(q) + x
    <3>1. key[p] # NoKey /\ key[p] \in Int /\ key'[p] = key[p] - Delta(c, p)
      BY <1>0, <1>4, <1>10, <2>1, <2>5, CountType
    <3>2. key'[p] # NoKey
      BY <1>6, <1>10, <3>1, Numbers
    <3> QED
      BY <1>6, <1>10, <3>1, <3>2 DEF Count
  <2> HIDE DEF x
  <2> QED
    BY <1>0, <1>1, <1>6, <2>2, <2>4, <2>5, BalanceMoves
<1> QED
  BY <1>8, <1>9, <1>10

\* Without Redis a call's charges are added to rows that are counted in
\* PostgreSQL.
LEMMA ChargeRowsBalance ==
  ASSUME IInv, TypeOK', NEW c \in Calls, ChargeRows(c)
  PROVE  /\ \A q \in Rows : Balanced(q)'
         /\ \A q \in steps'[c] : /\ q \in Rows /\ Fits(c, q)
                                 /\ Count(q) = used[q] /\ Outstanding(q) \in Nat
                                 /\ Outstanding(q)' = Outstanding(q) + Delta(c, q)
<1>0. TypeOK /\ Control
  BY DEF IInv
<1>1. ~counters /\ pc[c] = "idle" /\ UNCHANGED <<row, key, stray, trust>>
  BY DEF ChargeRows
<1>2. steps[c] = {} /\ stray[c] = {} /\ \A q \in Rows : key[q] = NoKey
  BY <1>0, <1>1 DEF Control, Place, Plain
<1>3. CASE UNCHANGED <<used, steps>>
  <2>1. \A q \in Rows : Balanced(q)'
    BY <1>1, <1>3, NothingMoves
  <2> QED
    BY <1>2, <1>3, <2>1
<1>4. CASE /\ \A q \in RowsOf(c) : Fits(c, q)
           /\ used' = [q \in Rows |-> used[q] + IF q \in RowsOf(c) THEN Delta(c, q) ELSE 0]
           /\ steps' = [steps EXCEPT ![c] = RowsOf(c)]
  <2>1. /\ steps'[c] = RowsOf(c)
        /\ \A d \in Calls : d # c => steps'[d] = steps[d] /\ stray'[d] = stray[d]
    BY <1>0, <1>1, <1>4 DEF TypeOK
  <2>2. \A q \in Rows : /\ Outstanding(q) \in Nat
                        /\ Outstanding(q)' = Outstanding(q) + Part(c, q)' /\ Part(c, q)' \in Nat
                        /\ Part(c, q)' = IF q \in RowsOf(c) THEN Delta(c, q) ELSE 0
    <3> TAKE q \in Rows
    <3>1. /\ Outstanding(q) \in Nat /\ Part(c, q)' \in Nat
          /\ Outstanding(q)' = Outstanding(q) - Part(c, q) + Part(c, q)'
      BY <2>1, OneCall
    <3>2. Part(c, q) = 0
      BY <1>2 DEF Part
    <3>3. Part(c, q)' = IF q \in RowsOf(c) THEN Delta(c, q) ELSE 0
      BY <1>1, <1>2, <2>1 DEF Part
    <3> QED
      BY <3>1, <3>2, <3>3
  <2>3. \A q \in Rows : Count(q) = used[q] /\ Count(q)' = used'[q]
    BY <1>1, <1>2 DEF Count
  <2>4. \A q \in Rows : Balanced(q)'
    <3> TAKE q \in Rows
    <3>1. Count(q)' = Count(q) + Part(c, q)'
      BY <1>4, <2>2, <2>3
    <3>2. Outstanding(q) \in Int /\ Part(c, q)' \in Int /\ Outstanding(q)' = Outstanding(q) + Part(c, q)'
      BY <2>2
    <3>3. Balanced(q)
      BY DEF IInv
    <3> QED
      BY <1>0, <1>1, <3>1, <3>2, <3>3, BalanceMoves
  <2>5. \A q \in steps'[c] : q \in RowsOf(c) /\ q \in Rows
    BY <2>1 DEF RowsOf, Matching
  <2> QED
    BY <1>4, <2>2, <2>3, <2>4, <2>5
<1> QED
  BY <1>3, <1>4 DEF ChargeRows

\* A rollback without Redis takes from a row what the call charged on it,
\* unless the row was reset or is gone.
LEMMA UndoRowsBalance ==
  ASSUME IInv, TypeOK', NEW c \in Calls, UndoRows(c)
  PROVE  \A q \in Rows : Balanced(q)'
<1>0. TypeOK /\ Control
  BY DEF IInv
<1>1. /\ ~counters /\ UNCHANGED <<row, key, stray, trust>>
      /\ steps' = [steps EXCEPT ![c] = {}]
  BY DEF UndoRows
<1>2. steps'[c] = {} /\ \A d \in Calls : d # c => steps'[d] = steps[d] /\ stray'[d] = stray[d]
  BY <1>0, <1>1 DEF TypeOK
<1> TAKE q \in Rows
<1>3. /\ Outstanding(q) \in Nat /\ Outstanding(q)' \in Nat
      /\ Part(c, q) \in Nat /\ Part(c, q)' \in Nat
      /\ Outstanding(q)' = Outstanding(q) - Part(c, q) + Part(c, q)'
  BY <1>2, OneCall
<1>4. key[q] = NoKey /\ key'[q] = NoKey
  BY <1>0, <1>1 DEF Control, Plain
<1>5. Count(q) = used[q] /\ Count(q)' = used'[q] /\ used[q] \in Nat
  BY <1>0, <1>4, CountType DEF Count
<1>6. Balanced(q) /\ Delta(c, q) \in Nat
  BY Numbers DEF IInv
<1>7. Part(c, q)' = IF q \in stray[c] THEN Delta(c, q) ELSE 0
  BY <1>1, <1>2 DEF Part
<1>8. CASE q \notin steps[c]
  <2>1. used'[q] = used[q]
    BY <1>8 DEF UndoRows
  <2>2. Outstanding(q)' = Outstanding(q)
    BY <1>3, <1>7, <1>8 DEF Part
  <2> QED
    BY <1>1, <1>5, <1>6, <2>1, <2>2, BalanceStays
<1>9. CASE q \in steps[c] /\ row[q] = "deleted"
  BY <1>1, <1>9 DEF Balanced
<1>10. CASE q \in steps[c] /\ row[q] # "deleted"
  <2>1. row[q] = "live"
    BY <1>0, <1>10 DEF TypeOK, Control, Unborn
  <2>2. used'[q] = Max({0, used[q] - Delta(c, q)})
    BY <1>10, <2>1 DEF UndoRows, Live
  <2>3. /\ used'[q] \in {0, used[q] - Delta(c, q)}
        /\ used'[q] >= used[q] - Delta(c, q)
    <3>1. used[q] - Delta(c, q) \in Int /\ 0 \in Int
      BY <1>5, <1>6
    <3> QED
      BY <2>2, <3>1, MaxOfTwo
  <2>4. Part(c, q) = Delta(c, q) /\ Part(c, q)' = 0
    <3>1. q \notin stray[c]
      BY <1>0, <1>10 DEF Control, Once, OnceFor
    <3> QED
      BY <1>7, <1>10, <3>1 DEF Part
  <2>5. Outstanding(q)' = Outstanding(q) - Delta(c, q)
    BY <1>3, <1>6, <2>4
  <2>6. ASSUME trust[q] # "given up" PROVE used'[q] >= Outstanding(q)'
    <3>1. used[q] >= Outstanding(q)
      BY <1>5, <1>6, <1>10, <2>6 DEF Balanced
    <3>2. used[q] - Delta(c, q) >= Outstanding(q) - Delta(c, q)
      BY <1>3, <1>5, <1>6, <3>1
    <3>3. used'[q] >= Outstanding(q) - Delta(c, q)
      BY <1>3, <1>5, <1>6, <2>3, <3>2
    <3> QED
      BY <2>5, <3>3
  <2>7. ASSUME trust[q] = "whole" PROVE used'[q] <= Outstanding(q)'
    <3>1. used[q] <= Outstanding(q)
      BY <1>5, <1>6, <1>10, <2>7 DEF Balanced
    <3>2. Outstanding(q) - Delta(c, q) \in Nat
      BY <1>3, <2>5
    <3>3. used'[q] <= Outstanding(q) - Delta(c, q)
      BY <1>3, <1>5, <1>6, <2>3, <3>1, <3>2
    <3> QED
      BY <2>5, <3>3
  <2> QED
    BY <1>1, <1>5, <2>6, <2>7 DEF Balanced
<1> QED
  BY <1>8, <1>9, <1>10

\* A flush writes a row that is not what its calls are counted by.
LEMMA WriteBalance ==
  ASSUME IInv, TypeOK', FlushWrite
  PROVE  \A q \in Rows : Balanced(q)'
<1>0. TypeOK /\ Control
  BY DEF IInv
<1>1. UNCHANGED <<row, key, steps, stray, trust>> /\ flush # NoFlush
  BY DEF FlushWrite, callVars
<1> TAKE q \in Rows
<1>2. Outstanding(q)' = Outstanding(q) /\ Balanced(q)
  BY <1>1 DEF Outstanding, IInv
<1>3. CASE q = flush.row /\ trust[q] = "given up"
  BY <1>1, <1>3 DEF Balanced
<1>4. CASE q = flush.row /\ trust[q] # "given up"
  <2>1. key[q] # NoKey
    BY <1>0, <1>1, <1>4 DEF Control, Kept
  <2>2. Count(q)' = Count(q)
    BY <1>1, <2>1 DEF Count
  <2> QED
    BY <1>1, <1>2, <2>2, BalanceStays
<1>5. CASE q # flush.row
  <2>1. used'[q] = used[q]
    BY <1>0, <1>5 DEF TypeOK, FlushWrite
  <2>2. Count(q)' = Count(q)
    BY <1>1, <2>1 DEF Count
  <2> QED
    BY <1>1, <1>2, <2>2, BalanceStays
<1> QED
  BY <1>3, <1>4, <1>5

\* A counter that expires leaves its count to a row that has caught up, or the
\* count is given up.
LEMMA ExpireBalance ==
  ASSUME IInv, TypeOK', NEW p \in Rows, Expire(p)
  PROVE  \A q \in Rows : Balanced(q)'
<1>0. TypeOK /\ Control
  BY DEF IInv
<1>1. UNCHANGED <<row, used, steps, stray>> /\ key[p] # NoKey
  BY DEF Expire, rowVars, callVars
<1>e. /\ key \in [Rows -> Int \union {NoKey}] /\ DOMAIN trust = Rows
      /\ key' = [key EXCEPT ![p] = NoKey]
      /\ trust' = [trust EXCEPT ![p] = IF @ = "given up" \/ used[p] < key[p]
                                       THEN "given up" ELSE "expired"]
  BY <1>0 DEF TypeOK, Expire
<1> TAKE q \in Rows
<1>2. Outstanding(q)' = Outstanding(q) /\ Balanced(q)
  BY <1>1 DEF Outstanding, IInv
<1>3. CASE q # p
  <2>1. key'[q] = key[q] /\ trust'[q] = trust[q]
    BY <1>3, <1>e
  <2>2. Count(q)' = Count(q)
    BY <1>1, <2>1 DEF Count
  <2> QED
    BY <1>1, <1>2, <2>1, <2>2, BalanceStays
<1>4. CASE q = p
  <2>1. /\ key'[q] = NoKey
        /\ trust'[q] = IF trust[q] = "given up" \/ used[q] < key[q] THEN "given up" ELSE "expired"
    BY <1>4, <1>e
  <2>2. Count(q) = key[q] /\ key[q] \in Int /\ used[q] \in Nat /\ Count(q)' = used[q]
    BY <1>0, <1>1, <1>4, <2>1, CountType DEF Count
  <2>3. Outstanding(q) \in Nat
    <3>1. Charging(q) \in SUBSET Calls
      BY DEF Charging
    <3>2. Owed(q, Charging(q)) \in Nat /\ Base[q] \in Nat
      BY <3>1, OwedFacts, Numbers
    <3> QED
      BY <3>2 DEF Outstanding, Owed, Charging
  <2>4. CASE trust'[q] = "given up"
    BY <2>4 DEF Balanced
  <2>5. CASE trust'[q] = "expired" /\ trust[q] # "given up" /\ used[q] >= key[q]
    <3>1. row[q] # "deleted" => key[q] >= Outstanding(q)
      BY <1>2, <2>2, <2>5 DEF Balanced
    <3>2. row[q] # "deleted" => used[q] >= Outstanding(q)
      <4>1. \A i, j, k \in Int : i >= j /\ j >= k => i >= k
        OBVIOUS
      <4>2. used[q] \in Int /\ Outstanding(q) \in Int
        BY <2>2, <2>3
      <4> QED
        BY <2>2, <2>5, <3>1, <4>1, <4>2
    <3> QED
      BY <1>1, <1>2, <2>2, <2>5, <3>2 DEF Balanced
  <2>6. used[q] < key[q] \/ used[q] >= key[q]
    BY <2>2
  <2> QED
    BY <2>1, <2>4, <2>5, <2>6
<1> QED
  BY <1>3, <1>4

\* A reset touches the count of a row that is given up.
LEMMA ResetBalance ==
  ASSUME IInv, TypeOK', ResetCounter \/ ResetCommit
  PROVE  \A q \in Rows : Balanced(q)'
<1>0. TypeOK /\ Control
  BY DEF IInv
<1>1. UNCHANGED <<row, steps, stray>> /\ admin # NoReset
  BY DEF ResetCounter, ResetCommit, rowVars, callVars
<1>2. admin.row \in Rows
  BY <1>0, <1>1 DEF TypeOK
<1> TAKE q \in Rows
<1>3. Outstanding(q)' = Outstanding(q) /\ Balanced(q)
  BY <1>1 DEF Outstanding, IInv
<1>4. CASE q # admin.row
  <2>1. key'[q] = key[q] /\ trust'[q] = trust[q] /\ used'[q] = used[q]
    <3>1. DOMAIN key = Rows /\ DOMAIN trust = Rows /\ DOMAIN used = Rows
      BY <1>0 DEF TypeOK
    <3>2. CASE ResetCounter
      BY <1>4, <3>1, <3>2 DEF ResetCounter, rowVars
    <3>3. CASE ResetCommit
      BY <1>4, <3>1, <3>3 DEF ResetCommit
    <3> QED
      BY <3>2, <3>3
  <2>2. Count(q)' = Count(q)
    BY <2>1 DEF Count
  <2> QED
    BY <1>1, <1>3, <2>1, <2>2, BalanceStays
<1>5. CASE q = admin.row
  <2>1. trust'[q] = "given up"
    <3>1. DOMAIN trust = Rows
      BY <1>0 DEF TypeOK
    <3>2. CASE ResetCounter
      BY <1>2, <1>5, <3>1, <3>2 DEF ResetCounter
    <3>3. CASE ResetCommit
      BY <1>0, <1>5, <3>3 DEF ResetCommit, Control, Resets
    <3> QED
      BY <3>2, <3>3
  <2> QED
    BY <2>1 DEF Balanced
<1> QED
  BY <1>4, <1>5

(***************************************************************************)
(* Theorems                                                                 *)
(***************************************************************************)

\* At the start every row counts what it is said to have used.
LEMMA IInit == Init => IInv
<1> SUFFICES ASSUME Init PROVE IInv
  OBVIOUS
<1>1. TypeOK
  <2>1. used \in [Rows -> Nat] /\ limit \in [Rows -> Nat] /\ \A q \in Rows : used[q] <= limit[q]
    <3>1. \A q \in Rows : /\ FirstLimit[q] \in Nat \union {NoLimit} /\ Base[q] \in Nat
                          /\ limit[q] = IF FirstLimit[q] = NoLimit THEN 0 ELSE FirstLimit[q]
                          /\ IF FirstLimit[q] = NoLimit THEN Base[q] = 0 ELSE Base[q] <= FirstLimit[q]
      BY QuotaAssumption DEF Init
    <3>2. \A q \in Rows : limit[q] \in Nat /\ Base[q] <= limit[q]
      BY <3>1
    <3>3. used = Base /\ Base \in [Rows -> Nat] /\ limit = [q \in Rows |-> limit[q]]
      BY QuotaAssumption DEF Init
    <3> QED
      BY <3>2, <3>3
  <2>2. commands \in 0 .. MaxAdmin
    BY Numbers DEF Init
  <2>3. /\ row \in [Rows -> {"none", "live", "deleted"}]
        /\ key \in [Rows -> Int \union {NoKey}] /\ trust \in [Rows -> {"whole", "expired", "given up"}]
    BY DEF Init
  <2>4. /\ pc \in [Calls -> {"idle", "charge", "undo", "done", "gone"}]
        /\ todo \in [Calls -> SUBSET Types]
        /\ view \in [Calls -> SUBSET [row : Rows, used : Nat, limit : Nat]]
        /\ steps \in [Calls -> SUBSET Rows] /\ stray \in [Calls -> SUBSET Rows]
    BY DEF Init
  <2> QED
    BY <2>1, <2>2, <2>3, <2>4 DEF TypeOK, Init
<1>2. \A q \in Rows : row[q] = "none" => used[q] = 0
  BY QuotaAssumption DEF Init
<1>3. Control
  BY <1>2 DEF Init, Control, Unborn, Plain, Place, Once, OnceFor, Fresh, Kept, Resets
<1>4. ASSUME NEW q \in Rows PROVE Balanced(q)
  <2>1. Charging(q) = {}
    BY DEF Init, Charging
  <2>2. Owed(q, {}) = 0
    <3> DEFINE f == [c \in Calls |-> Delta(c, q)]
    <3> HIDE DEF f
    <3>1. IsFiniteSet({}) /\ \A y \in {} : f[y] \in Int
      BY FS_EmptySet
    <3>2. SumFunctionOnSet(f, {}) = 0
      BY <3>1, SumFacts
    <3> QED
      BY <3>2 DEF f, Owed
  <2>3. Outstanding(q) = Base[q] + Owed(q, Charging(q))
    BY DEF Outstanding, Owed, Charging
  <2>4. Count(q) = Base[q] /\ Base[q] \in Nat
    BY Numbers DEF Init, Count
  <2>5. Outstanding(q) = Base[q]
    BY <2>1, <2>2, <2>3, <2>4
  <2>6. Base[q] >= Base[q] /\ Base[q] <= Base[q]
    BY <2>4
  <2> QED
    BY <2>4, <2>5, <2>6 DEF Balanced
<1> QED
  BY <1>1, <1>3, <1>4 DEF IInv

\* Every step keeps types, control and balance.
LEMMA INext == IInv /\ [Next]_vars => IInv'
<1> SUFFICES ASSUME IInv, [Next]_vars PROVE IInv'
  OBVIOUS
<1>0. TypeOK /\ Control
  BY DEF IInv
<1>s. ASSUME TypeOK', Control', UNCHANGED <<used, key, trust, steps, stray>>,
             \A q \in Rows : row'[q] # "deleted" => row[q] # "deleted"
      PROVE  IInv'
  BY <1>s, NothingMoves DEF IInv
<1>1. CASE CallNext
  <2>1. PICK c \in Calls :
          \/ BeginCharge(c) \/ SelectRows(c)
          \/ \E e \in view[c] : EvalIncrement(c, e) \/ EvalRefused(c, e) \/ EvalLost(c, e)
          \/ ChargeRows(c)
          \/ HandlerReturns(c) \/ HandlerFails(c)
          \/ \E q \in steps[c] : UndoStep(c, q) \/ UndoStepFails(c, q)
          \/ UndoRows(c)
          \/ CutOff(c)
    BY <1>1 DEF CallNext
  <2>2. CASE BeginCharge(c)
    BY <1>0, <1>s, <2>2, BeginControl DEF BeginCharge, rowVars
  <2>3. CASE SelectRows(c)
    BY <1>0, <1>s, <2>3, SelectControl DEF SelectRows, rowVars
  <2>4. ASSUME NEW e \in view[c], EvalIncrement(c, e) \/ EvalRefused(c, e) \/ EvalLost(c, e)
        PROVE  IInv'
    <3>1. TypeOK' /\ Control'
      BY <1>0, <2>4, IncrementControl
    <3>2. UNCHANGED <<row, used, trust>>
      BY <2>4 DEF EvalIncrement, EvalRefused, EvalLost, rowVars
    <3>3. CASE UNCHANGED <<key, steps, stray>>
      BY <1>s, <3>1, <3>2, <3>3
    <3>4. CASE /\ key' = [key EXCEPT ![e.row] = Incremented(c, e)]
               /\ \/ steps' = [steps EXCEPT ![c] = @ \union {e.row}] /\ stray' = stray
                  \/ stray' = [stray EXCEPT ![c] = @ \union {e.row}] /\ steps' = steps
      <4>1. \A q \in Rows : Balanced(q)'
        BY <3>1, <3>2, <3>4, IncrementBalance
      <4> QED
        BY <3>1, <4>1 DEF IInv
    <3> QED
      BY <2>4, <3>3, <3>4 DEF EvalIncrement, EvalRefused, EvalLost
  <2>5. CASE ChargeRows(c)
    BY <1>0, <2>5, ChargeRowsControl, ChargeRowsBalance DEF IInv
  <2>6. CASE HandlerReturns(c) \/ HandlerFails(c) \/ CutOff(c)
    <3>1. UNCHANGED <<row, used, key, trust, steps, stray>>
      BY <2>6 DEF HandlerReturns, HandlerFails, CutOff, rowVars
    <3> QED
      BY <1>0, <1>s, <2>6, <3>1, EndControl
  <2>7. ASSUME NEW q \in steps[c], UndoStep(c, q) \/ UndoStepFails(c, q) PROVE IInv'
    <3>1. TypeOK' /\ Control'
      BY <1>0, <2>7, UndoControl
    <3> QED
      BY <2>7, <3>1, UndoBalance DEF IInv
  <2>8. CASE UndoRows(c)
    BY <1>0, <2>8, UndoRowsControl, UndoRowsBalance DEF IInv
  <2> QED
    BY <2>1, <2>2, <2>3, <2>4, <2>5, <2>6, <2>7, <2>8
<1>2. CASE CounterNext
  <2>1. CASE FlushWrite
    BY <1>0, <2>1, WriteControl, WriteBalance DEF IInv
  <2>2. ASSUME NEW q \in Rows, FlushRead(q) PROVE IInv'
    <3>1. UNCHANGED <<row, used, key, trust, steps, stray>>
      BY <2>2 DEF FlushRead, rowVars, callVars
    <3> QED
      BY <1>0, <1>s, <2>2, <3>1, ReadControl
  <2>3. ASSUME NEW q \in Rows, Expire(q) PROVE IInv'
    BY <1>0, <2>3, ExpireControl, ExpireBalance DEF IInv
  <2> QED
    BY <1>2, <2>1, <2>2, <2>3 DEF CounterNext
<1>3. CASE AdminNext
  <2>1. ASSUME NEW q \in Rows,
               DeleteRow(q) \/ \E l \in Limits : SetLimit(q, l) \/ InsertRow(q, l)
        PROVE  IInv'
    <3>1. UNCHANGED <<used, key, trust, steps, stray>>
      BY <2>1 DEF DeleteRow, SetLimit, InsertRow, callVars
    <3>2. \A p \in Rows : row'[p] # "deleted" => row[p] # "deleted"
      <4>1. \/ row' = row
            \/ row[q] # "deleted" /\ (row' = [row EXCEPT ![q] = "live"]
                                      \/ row' = [row EXCEPT ![q] = "deleted"])
        BY <2>1 DEF DeleteRow, SetLimit, InsertRow, Live
      <4>2. DOMAIN row = Rows
        BY <1>0 DEF TypeOK
      <4> QED
        BY <4>1, <4>2
    <3> QED
      BY <1>0, <1>s, <2>1, <3>1, <3>2, RowControl
  <2>2. CASE ResetFails \/ \E q \in Rows : ResetRow(q)
    <3>1. UNCHANGED <<row, used, key, trust, steps, stray>>
      BY <2>2 DEF ResetFails, ResetRow, rowVars, callVars
    <3> QED
      BY <1>0, <1>s, <2>2, <3>1, ResetControl
  <2>3. CASE ResetCounter \/ ResetCommit
    BY <1>0, <2>3, DeleteControl, CommitControl, ResetBalance DEF IInv
  <2> QED
    BY <1>3, <2>1, <2>2, <2>3 DEF AdminNext
<1>4. CASE UNCHANGED vars
  <2>1. UNCHANGED <<counters, row, used, limit, key, pc, todo, view, steps, stray, flush, admin,
                    commands, trust>>
    BY <1>4 DEF vars, rowVars, callVars
  <2>2. TypeOK'
    BY <1>0, <2>1 DEF TypeOK
  <2>3. Control'
    BY <1>0, <2>1 DEF Control, Unborn, Plain, Place, Once, OnceFor, Fresh, Kept, Resets
  <2> QED
    BY <1>s, <2>1, <2>2, <2>3
<1> QED
  BY <1>1, <1>2, <1>3, <1>4 DEF Next

\* Every reachable state satisfies the invariant.
LEMMA Invariant == Spec => []IInv
BY IInit, INext, PTL DEF Spec

\* used_amount stays within the CHECKs of resource_quotas whatever calls,
\* flushes and commands run at once.
THEOREM QuotaTypes == Spec => []TypeOK
<1>1. IInv => TypeOK
  BY DEF IInv
<1> QED
  BY <1>1, Invariant, PTL

\* What the next call is measured against covers every charge made and not
\* taken back, until the row's count is given up by a reset or by an expiry
\* that its limit kept from being flushed.
THEOREM ChargesKept == Spec => []NoChargeLost
<1>1. IInv => NoChargeLost
  BY DEF IInv, Balanced, NoChargeLost
<1> QED
  BY <1>1, Invariant, PTL

\* It covers nothing else: a refused or failed call leaves no charge behind but
\* the ones whose DECRBY failed.
THEOREM ChargesReal == Spec => []NoPhantomCharge
<1>1. IInv => NoPhantomCharge
  BY DEF IInv, Balanced, NoPhantomCharge
<1> QED
  BY <1>1, Invariant, PTL

\* With the charge of an admitted call, all charges on the row are within the
\* limit the call read.
THEOREM AdmissionSound == Spec => AdmittedWithinLimit
<1> DEFINE Admits(c, q) ==
             IF counters THEN \E e \in view[c] : e.row = q /\ Outstanding(q)' <= e.limit
                         ELSE Outstanding(q)' <= limit[q]
<1>1. ASSUME IInv, IInv', [Next]_vars, NEW c \in Calls, NEW q \in Rows,
             q \in steps'[c] \ steps[c], trust[q] # "given up", row[q] # "deleted"
      PROVE  Admits(c, q)
  <2>0. TypeOK /\ Control /\ TypeOK' /\ Balanced(q) /\ Count(q) >= Outstanding(q)
    BY <1>1 DEF IInv, Balanced
  <2>1. CASE \E e \in view[c] : EvalIncrement(c, e) /\ e.row = q
    <3>1. PICK e \in view[c] : EvalIncrement(c, e) /\ e.row = q
      BY <2>1
    <3>2. /\ Outstanding(q) \in Nat
          /\ Outstanding(q)' = Outstanding(q) + Delta(c, q)
      BY <1>1, <2>0, <3>1, IncrementBalance DEF EvalIncrement, rowVars
    <3>3. Incremented(c, e) = Count(q) + Delta(c, q) /\ Incremented(c, e) <= e.limit
      BY <1>1, <3>1, IncrementCounts DEF EvalIncrement, Within
    <3>4. Count(q) \in Int /\ Delta(c, q) \in Nat /\ e.limit \in Nat
      BY <2>0, CountType, Numbers, Entries
    <3>5. Outstanding(q) + Delta(c, q) <= e.limit
      BY <2>0, <3>2, <3>3, <3>4
    <3>6. counters
      BY <2>0 DEF Control, Plain
    <3> QED
      BY <3>1, <3>2, <3>5, <3>6
  <2>2. CASE ChargeRows(c)
    <3>1. /\ Fits(c, q) /\ Count(q) = used[q] /\ Outstanding(q) \in Nat
          /\ Outstanding(q)' = Outstanding(q) + Delta(c, q)
      BY <1>1, <2>0, <2>2, ChargeRowsBalance
    <3>2. used[q] + Delta(c, q) <= limit[q] /\ ~counters
      BY <2>2, <3>1 DEF Fits, ChargeRows
    <3>3. used[q] \in Nat /\ limit[q] \in Nat /\ Delta(c, q) \in Nat
      BY <2>0, Numbers DEF TypeOK
    <3>4. Outstanding(q) + Delta(c, q) <= limit[q]
      BY <2>0, <3>1, <3>2, <3>3
    <3> QED
      BY <3>1, <3>2, <3>4
  <2>3. (\E e \in view[c] : EvalIncrement(c, e) /\ e.row = q) \/ ChargeRows(c)
    <3>0. steps \in [Calls -> SUBSET Rows]
      BY <2>0 DEF TypeOK
    <3>1. steps' # steps
      BY <1>1
    <3>2. CallNext
      BY <1>1, <3>1 DEF Next, CounterNext, AdminNext, FlushWrite, FlushRead, Expire, DeleteRow,
                        SetLimit, InsertRow, ResetRow, ResetCounter, ResetCommit, ResetFails,
                        callVars, vars
    <3>3. PICK d \in Calls :
            \/ \E e \in view[d] : EvalIncrement(d, e)
            \/ ChargeRows(d)
            \/ \E p \in steps[d] : steps' = [steps EXCEPT ![d] = @ \ {p}]
            \/ steps' = [steps EXCEPT ![d] = {}]
      BY <3>1, <3>2 DEF CallNext, BeginCharge, SelectRows, EvalRefused, EvalLost, HandlerReturns,
                        HandlerFails, UndoStep, UndoStepFails, UndoRows, CutOff
    <3>4. CASE \E e \in view[d] : EvalIncrement(d, e)
      <4>1. PICK e \in view[d] : EvalIncrement(d, e)
        BY <3>4
      <4>2. steps' = [steps EXCEPT ![d] = @ \union {e.row}]
        BY <4>1 DEF EvalIncrement
      <4>3. d = c /\ q = e.row
        BY <1>1, <3>0, <4>2
      <4> QED
        BY <4>1, <4>3
    <3>5. CASE ChargeRows(d)
      <4>1. steps' = steps \/ steps' = [steps EXCEPT ![d] = RowsOf(d)]
        BY <3>5 DEF ChargeRows
      <4>2. d = c
        BY <1>1, <3>0, <4>1
      <4> QED
        BY <3>5, <4>2
    <3>6. CASE \E p \in steps[d] : steps' = [steps EXCEPT ![d] = @ \ {p}]
      BY <1>1, <3>0, <3>6
    <3>7. CASE steps' = [steps EXCEPT ![d] = {}]
      BY <1>1, <3>0, <3>7
    <3> QED
      BY <3>3, <3>4, <3>5, <3>6, <3>7
  <2> QED
    BY <2>1, <2>2, <2>3
<1>2. IInv /\ IInv' /\ [Next]_vars =>
        [\A c \in Calls, q \in Rows :
           /\ q \in steps'[c] \ steps[c]
           /\ trust[q] # "given up" /\ row[q] # "deleted"
           => IF counters THEN \E e \in view[c] : e.row = q /\ Outstanding(q)' <= e.limit
                          ELSE Outstanding(q)' <= limit[q]]_vars
  BY <1>1
<1> QED
  BY <1>2, Invariant, PTL DEF Spec, AdmittedWithinLimit
=============================================================================
