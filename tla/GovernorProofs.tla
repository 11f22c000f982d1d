--------------------------- MODULE GovernorProofs ---------------------------
(***************************************************************************)
(* For any number of callers, administrators, keys and items: governed      *)
(* actions take effect exactly once, answers and items tell the truth,      *)
(* verdicts are final and counted once.                                     *)
(***************************************************************************)
EXTENDS Governor, FiniteSetTheorems, TLAPS

Holding == {"holding", "ran", "marking"}

\* The unique index: a key is inserted by at most one open transaction, and
\* then it is not committed.
KeyHeld ==
    /\ \A c \in Clients : pc[c] \in Holding => key[c] \notin keys
    /\ \A c, d \in Clients :
         pc[c] \in Holding /\ pc[d] \in Holding /\ key[c] = key[d] => c = d
    /\ \A c \in Clients : marked[c] # {} => pc[c] = "marking"

\* resolved_by and status agree.
Resolved ==
    \A i \in Items :
        /\ resolvedBy[i] => status[i] \in {"approved", "rejected", "executed"}
        /\ status[i] = "rejected" => resolvedBy[i]

\* What the tick has read was in the log.
TickRead == tick[1] <= confirmed /\ tick[2] <= rejected

\* Items whose verdict the counters hold.
Counted == {i \in Items \ erased : resolvedBy[i] /\ status[i] # "rejected"}
Against == {i \in Items \ erased : status[i] = "rejected"}

IInv ==
    /\ TypeOK /\ ExactlyOnce /\ ReportsTrue /\ KeyHeld /\ Resolved
    /\ TickRead /\ TrustSinceTick
    /\ \A i \in erased : resolvedBy[i]

LEMMA FiniteItems == \A S : S \subseteq Items => IsFiniteSet(S) /\ Cardinality(S) \in Nat
<1>1. IsFiniteSet(Items)
  BY FS_Interval, GovernorAssumption DEF Items
<1> QED
  BY <1>1, FS_Subset, FS_CardinalityType

LEMMA InitInv == Init => IInv
<1> SUFFICES ASSUME Init PROVE IInv
  OBVIOUS
<1> USE DEF Init
<1>0. AnyKey \in Keys
  BY GovernorAssumption DEF AnyKey
<1>1. TypeOK
  BY <1>0, GovernorAssumption DEF TypeOK, Answers, NoTick
<1>2. ExactlyOnce /\ ReportsTrue /\ KeyHeld /\ Resolved
  BY DEF ExactlyOnce, ReportsTrue, KeyHeld, Resolved, Holding
<1>3. TrustSinceTick
  <2>1. Against = {} /\ Counted = {}
    BY DEF Against, Counted
  <2>2. Cardinality(Against) = 0 /\ Cardinality(Counted) = 0
    BY <2>1, FS_EmptySet
  <2>3. /\ base[1] = 0 /\ base[2] = 0
        /\ confirmations = base[1] + Cardinality(Counted)
        /\ rejections = base[2] + Cardinality(Against)
    BY <2>2
  <2> QED
    BY <2>3 DEF TrustSinceTick, Against, Counted
<1>4. TickRead
  BY DEF TickRead, NoTick
<1> QED
  BY <1>1, <1>2, <1>3, <1>4 DEF IInv

\* The counters stay right as long as the items they count do.
LEMMA TrustFrame ==
    ASSUME IInv, UNCHANGED <<confirmations, rejections, trustVars>>,
           Against' = Against, Counted' = Counted,
           \A i \in Items : resolvedBy[i] => resolvedBy'[i]
    PROVE  TickRead' /\ TrustSinceTick' /\ (\A i \in erased : resolvedBy[i])'
<1> USE DEF trustVars
<1>1. TickRead'
  BY DEF IInv, TickRead
<1>2. TrustSinceTick'
  BY DEF IInv, TrustSinceTick, Against, Counted
<1>3. (\A i \in erased : resolvedBy[i])'
  BY DEF IInv, TypeOK
<1> QED
  BY <1>1, <1>2, <1>3

\* Steps of a caller that leave the tables alone and claim nothing new.
LEMMA CallerStep ==
    ASSUME IInv, NEW c \in Clients,
           UNCHANGED <<disabled, tables, marked, seen, trustVars, faults>>,
           key' \in [Clients -> Keys],
           \A d \in Clients \ {c} : key'[d] = key[d],
           marked[c] # {} => key'[c] = key[c],
           pc' \in [Clients -> Answers \cup Checking \cup Admitted],
           \A d \in Clients \ {c} : pc'[d] = pc[d],
           pc'[c] \in {"already", "executed"} => key'[c] \in keys,
           pc'[c] \in Holding => /\ key'[c] \notin keys
                                 /\ \A d \in Clients \ {c} :
                                      pc[d] \in Holding => key[d] # key'[c],
           marked[c] = {}
    PROVE  IInv'
<1> USE DEF tables
<1>1. TypeOK'
  BY DEF IInv, TypeOK, Resolvable, trustVars
<1>2. ExactlyOnce'
  BY DEF IInv, ExactlyOnce
<1>3. ReportsTrue'
  BY DEF IInv, ReportsTrue, ExactlyOnce, TypeOK
<1>4. KeyHeld'
  BY DEF IInv, KeyHeld, TypeOK
<1>5. Resolved'
  BY DEF IInv, Resolved
<1>t. TickRead' /\ TrustSinceTick' /\ (\A i \in erased : resolvedBy[i])'
  BY TrustFrame DEF Against, Counted, trustVars
<1> QED
  BY <1>1, <1>2, <1>3, <1>4, <1>5, <1>t DEF IInv

LEMMA ReadSteps ==
    ASSUME IInv, NEW c \in Clients,
           \/ Call(c) \/ CheckTool(c) \/ CheckAll(c) \/ FindPending(c) \/ CheckAgain(c)
           \/ RecordKey(c) \/ RunHandler(c) \/ \E k \in Keys : CheckKey(c, k)
    PROVE  IInv'
<1>0. /\ pc \in [Clients -> Answers \cup Checking \cup Admitted]
      /\ key \in [Clients -> Keys]
      /\ marked[c] # {} => pc[c] = "marking"
  BY DEF IInv, TypeOK, KeyHeld
<1> USE DEF Goto, Frame, Answers, Checking, Admitted, Holding
<1>1. CASE Call(c) \/ CheckTool(c) \/ CheckAll(c) \/ FindPending(c)
  BY <1>0, <1>1, CallerStep DEF Call, CheckTool, CheckAll, FindPending
<1>2. CASE CheckAgain(c)
  BY <1>0, <1>2, CallerStep DEF CheckAgain
<1>3. CASE RecordKey(c)
  <2>1. \A d \in Clients \ {c} : pc[d] \in Holding => key[d] # key[c]
    BY <1>3 DEF RecordKey, Inserted
  <2> QED
    BY <1>0, <1>3, <2>1, CallerStep DEF RecordKey
<1>4. CASE RunHandler(c)
  <2>1. /\ key[c] \notin keys
        /\ \A d \in Clients \ {c} : pc[d] \in Holding => key[d] # key[c]
    BY <1>4 DEF RunHandler, IInv, KeyHeld
  <2> QED
    BY <1>0, <1>4, <2>1, CallerStep DEF RunHandler
<1>5. ASSUME NEW k \in Keys, CheckKey(c, k) PROVE IInv'
  BY <1>0, <1>5, CallerStep DEF CheckKey
<1> QED
  BY <1>1, <1>2, <1>3, <1>4, <1>5

LEMMA InsertStep ==
    ASSUME IInv, NEW c \in Clients, InsertPending(c)
    PROVE  IInv'
<1> USE DEF InsertPending, Goto
<1>0. PICK i \in Items :
        /\ status[i] = "none"
        /\ status' = [status EXCEPT ![i] = "pending"]
        /\ itemKey' = [itemKey EXCEPT ![i] = key[c]]
  BY DEF FirstFree
<1>1. /\ status'[i] = "pending" /\ resolvedBy[i] = FALSE
      /\ \A j \in Items \ {i} : status'[j] = status[j] /\ itemKey'[j] = itemKey[j]
      /\ \A d \in Clients : i \notin marked[d]
  BY <1>0 DEF IInv, TypeOK, Resolved, Resolvable
<1>2. TypeOK'
  BY <1>0, <1>1 DEF IInv, TypeOK, Resolvable, Answers, trustVars
<1>3. ExactlyOnce'
  BY DEF IInv, ExactlyOnce
<1>4. ReportsTrue'
  BY <1>1 DEF IInv, ReportsTrue, TypeOK
<1>5. KeyHeld'
  BY DEF IInv, KeyHeld, TypeOK, Holding
<1>6. Resolved'
  BY <1>1 DEF IInv, Resolved
<1>7. TickRead' /\ TrustSinceTick' /\ (\A j \in erased : resolvedBy[j])'
  <2>1. Against' = Against /\ Counted' = Counted
    BY <1>0, <1>1 DEF Against, Counted, trustVars
  <2> QED
    BY <2>1, TrustFrame
<1> QED
  BY <1>2, <1>3, <1>4, <1>5, <1>6, <1>7 DEF IInv

LEMMA MarkStep ==
    ASSUME IInv, NEW c \in Clients, MarkExecuted(c)
    PROVE  IInv'
<1> USE DEF MarkExecuted, Goto, tables
<1>1. TypeOK'
  BY DEF IInv, TypeOK, Resolvable, Admitted, trustVars
<1>2. ExactlyOnce' /\ ReportsTrue'
  BY DEF IInv, ExactlyOnce, ReportsTrue, TypeOK
<1>3. KeyHeld'
  BY DEF IInv, KeyHeld, TypeOK, Holding
<1>4. Resolved'
  BY DEF IInv, Resolved
<1>t. TickRead' /\ TrustSinceTick' /\ (\A i \in erased : resolvedBy[i])'
  BY TrustFrame DEF Against, Counted, trustVars
<1> QED
  BY <1>1, <1>2, <1>3, <1>4, <1>t DEF IInv

LEMMA CommitStep ==
    ASSUME IInv, NEW c \in Clients, Commit(c)
    PROVE  IInv'
<1> USE DEF Commit, Goto
<1>0. /\ key[c] \in Keys /\ key[c] \notin keys /\ effects[key[c]] = 0 /\ audits[key[c]] = 0
      /\ \A i \in marked[c] : i \in Items /\ itemKey[i] = key[c]
                              /\ status[i] \in {"pending", "approved"}
  BY DEF IInv, TypeOK, KeyHeld, Holding, ExactlyOnce, Resolvable
<1>1. /\ effects' \in [Keys -> Nat] /\ audits' \in [Keys -> Nat]
      /\ effects'[key[c]] = 1 /\ audits'[key[c]] = 1
      /\ \A k \in Keys \ {key[c]} : effects'[k] = effects[k] /\ audits'[k] = audits[k]
  BY <1>0 DEF IInv, TypeOK
\* Two calls that mark items have different keys.
<1>2. \A d \in Clients \ {c} : \A i \in marked[d] : i \notin marked[c]
  BY <1>0 DEF IInv, TypeOK, KeyHeld, Holding, Resolvable
<1>3. TypeOK'
  <2>1. (\A d \in Clients : marked[d] \subseteq Resolvable(key[d]))'
    BY <1>0, <1>2 DEF IInv, TypeOK, Resolvable
  <2> QED
    BY <1>0, <1>1, <2>1 DEF IInv, TypeOK, Answers, trustVars
<1>4. ExactlyOnce'
  BY <1>0, <1>1 DEF IInv, ExactlyOnce
<1>5. ReportsTrue'
  BY <1>0, <1>1 DEF IInv, ReportsTrue, ExactlyOnce, TypeOK
<1>6. KeyHeld'
  BY <1>0 DEF IInv, KeyHeld, TypeOK, Holding
<1>7. Resolved'
  BY <1>0 DEF IInv, Resolved, TypeOK
<1>8. TickRead' /\ TrustSinceTick' /\ (\A j \in erased : resolvedBy[j])'
  <2>1. Against' = Against /\ Counted' = Counted
    BY <1>0 DEF Against, Counted, trustVars
  <2> QED
    BY <2>1, TrustFrame
<1> QED
  BY <1>3, <1>4, <1>5, <1>6, <1>7, <1>8 DEF IInv

LEMMA FailStep ==
    ASSUME IInv, NEW c \in Clients, Fail(c)
    PROVE  IInv'
<1> USE DEF Fail, Goto, tables
<1>1. TypeOK'
  BY GovernorAssumption DEF IInv, TypeOK, Resolvable, Answers, trustVars
<1>2. ExactlyOnce' /\ ReportsTrue'
  BY DEF IInv, ExactlyOnce, ReportsTrue, TypeOK
<1>3. KeyHeld'
  BY DEF IInv, KeyHeld, TypeOK, Holding
<1>4. Resolved'
  BY DEF IInv, Resolved
<1>t. TickRead' /\ TrustSinceTick' /\ (\A i \in erased : resolvedBy[i])'
  BY TrustFrame DEF Against, Counted, trustVars
<1> QED
  BY <1>1, <1>2, <1>3, <1>4, <1>t DEF IInv

LEMMA ResolveStep ==
    ASSUME IInv, NEW m \in Admins, ResolveItem(m)
    PROVE  IInv'
<1> DEFINE i == seen[m][1]
           v == seen[m][2]
<1>0. /\ i \in Items /\ v \in {"approved", "rejected"} /\ ~Locked(i)
      /\ seen' = [seen EXCEPT ![m] = Nothing]
      /\ status' = [status EXCEPT ![i] = NewStatus(i, v)]
      /\ resolvedBy' = [resolvedBy EXCEPT ![i] = @ \/ StillPending(i)]
      /\ confirmations' = confirmations + Tally(i, v, "approved")
      /\ rejections' = rejections + Tally(i, v, "rejected")
      /\ UNCHANGED <<disabled, keys, effects, audits, itemKey, callVars, trustVars, faults>>
  BY DEF ResolveItem, IInv, TypeOK, Verdicts, Nothing
<1> HIDE DEF i, v
<1> USE DEF callVars, trustVars
<1>1. /\ \A j \in Items \ {i} : status'[j] = status[j] /\ resolvedBy'[j] = resolvedBy[j]
      /\ status'[i] = IF status[i] = "pending" THEN v ELSE status[i]
      /\ resolvedBy'[i] = (resolvedBy[i] \/ status[i] = "pending")
      /\ \A d \in Clients : i \notin marked[d]
  BY <1>0 DEF IInv, TypeOK, NewStatus, StillPending, Locked
<1>2. TypeOK'
  <2>1. /\ status' \in [Items -> {"none", "pending", "approved", "rejected", "executed"}]
        /\ resolvedBy' \in [Items -> BOOLEAN]
    BY <1>0, <1>1 DEF IInv, TypeOK, StillPending
  <2>2. seen' \in [Admins -> Verdicts \cup {Nothing}]
    BY <1>0 DEF IInv, TypeOK
  <2>3. confirmations' \in Nat /\ rejections' \in Nat
    BY <1>0 DEF IInv, TypeOK, Tally
  <2>4. (\A d \in Clients : marked[d] \subseteq Resolvable(key[d]))'
    BY <1>0, <1>1 DEF IInv, TypeOK, Resolvable
  <2> QED
    BY <1>0, <2>1, <2>2, <2>3, <2>4 DEF IInv, TypeOK
<1>3. ExactlyOnce'
  BY <1>0 DEF IInv, ExactlyOnce
<1>4. ReportsTrue'
  BY <1>0, <1>1 DEF IInv, ReportsTrue
<1>5. KeyHeld'
  BY <1>0 DEF IInv, KeyHeld
<1>6. Resolved'
  BY <1>0, <1>1 DEF IInv, Resolved
<1>7. TrustSinceTick'
  <2>1. /\ IsFiniteSet(Against) /\ IsFiniteSet(Counted)
        /\ Cardinality(Against) \in Nat /\ Cardinality(Counted) \in Nat
    BY FiniteItems DEF Against, Counted
  <2>2. /\ rejections = base[2] + Cardinality(Against)
        /\ confirmations = base[1] + Cardinality(Counted)
        /\ base[1] \in Nat /\ base[2] \in Nat
        /\ base'[1] <= confirmed' /\ base'[2] <= rejected'
    BY <1>0 DEF IInv, TypeOK, TrustSinceTick, Against, Counted
  <2>3. CASE status[i] # "pending"
    <3>1. Against' = Against /\ Counted' = Counted
      BY <1>0, <1>1, <2>3 DEF Against, Counted
    <3>2. rejections' = rejections /\ confirmations' = confirmations
      BY <1>0, <2>1, <2>2, <2>3 DEF Tally, StillPending
    <3>3. /\ rejections' = base'[2] + Cardinality(Against')
          /\ confirmations' = base'[1] + Cardinality(Counted')
      BY <1>0, <2>2, <3>1, <3>2
    <3> QED
      BY <2>2, <3>3 DEF TrustSinceTick, Against, Counted
  <2>4. i \in Items \ erased \/ status[i] # "pending"
    BY <1>0 DEF IInv, Resolved
  <2>5. CASE status[i] = "pending" /\ v = "rejected"
    <3>1. Against' = Against \cup {i} /\ i \notin Against /\ Counted' = Counted
      BY <1>0, <1>1, <2>4, <2>5 DEF IInv, Resolved, Against, Counted
    <3>2. Cardinality(Against \cup {i}) = Cardinality(Against) + 1
      BY <2>1, <3>1, FS_AddElement
    <3>3. rejections' = rejections + 1 /\ confirmations' = confirmations
      BY <1>0, <2>1, <2>2, <2>5 DEF Tally, StillPending
    <3>4. /\ rejections' = base'[2] + Cardinality(Against')
          /\ confirmations' = base'[1] + Cardinality(Counted')
      BY <1>0, <2>1, <2>2, <3>1, <3>2, <3>3
    <3> QED
      BY <2>2, <3>4 DEF TrustSinceTick, Against, Counted
  <2>6. CASE status[i] = "pending" /\ v = "approved"
    <3>a. Against' = Against /\ i \notin Counted
      BY <1>0, <1>1, <2>4, <2>6 DEF IInv, Resolved, Against, Counted
    <3>b. resolvedBy'[i] /\ status'[i] = "approved" /\ i \in Items \ erased'
      BY <1>0, <1>1, <2>4, <2>6
    <3>c. Counted' = Counted \cup {i}
      BY <1>0, <1>1, <3>b DEF Counted
    <3>1. Against' = Against /\ Counted' = Counted \cup {i} /\ i \notin Counted
      BY <3>a, <3>c
    <3>2. Cardinality(Counted \cup {i}) = Cardinality(Counted) + 1
      BY <2>1, <3>1, FS_AddElement
    <3>3. rejections' = rejections /\ confirmations' = confirmations + 1
      BY <1>0, <2>1, <2>2, <2>6 DEF Tally, StillPending
    <3>4. /\ rejections' = base'[2] + Cardinality(Against')
          /\ confirmations' = base'[1] + Cardinality(Counted')
      BY <1>0, <2>1, <2>2, <3>1, <3>2, <3>3
    <3> QED
      BY <2>2, <3>4 DEF TrustSinceTick, Against, Counted
  <2> QED
    BY <1>0, <2>3, <2>5, <2>6
<1>8. TickRead' /\ (\A j \in erased : resolvedBy[j])'
  BY <1>0, <1>1 DEF IInv, TickRead, TypeOK
<1> QED
  BY <1>2, <1>3, <1>4, <1>5, <1>6, <1>7, <1>8 DEF IInv

\* The tick of actor_trust and the events it counts.
LEMMA TrustStep ==
    ASSUME IInv, TrustTick
    PROVE  IInv'
<1>0. /\ UNCHANGED <<disabled, keys, effects, audits, itemKey, status, resolvedBy,
                     callVars, seen, faults>>
      /\ confirmed' \in Nat /\ rejected' \in Nat
      /\ confirmed <= confirmed' /\ rejected <= rejected'
  BY DEF IInv, TypeOK, TrustTick, ConfirmMemory, RejectMemory, CountEvents, WriteTrust,
         TickFails, tables
<1> USE DEF callVars
<1>1. confirmed \in Nat /\ rejected \in Nat /\ tick \in Nat \X Nat /\ base \in Nat \X Nat
  BY DEF IInv, TypeOK
<1>2. ExactlyOnce' /\ ReportsTrue' /\ KeyHeld' /\ Resolved'
  BY <1>0 DEF IInv, ExactlyOnce, ReportsTrue, KeyHeld, Resolved
<1>3. tick' \in Nat \X Nat /\ TickRead'
  <2>1. CASE CountEvents
    BY <1>0, <1>1, <2>1 DEF CountEvents, TickRead
  <2>2. CASE WriteTrust \/ TickFails
    BY <1>0, <2>2 DEF WriteTrust, TickFails, NoTick, TickRead
  <2>3. CASE ConfirmMemory \/ RejectMemory
    BY <1>0, <1>1, <2>3 DEF ConfirmMemory, RejectMemory, TickRead, IInv
  <2> QED
    BY <2>1, <2>2, <2>3 DEF TrustTick
<1>4. CASE WriteTrust
  <2>1. /\ base' = tick /\ confirmations' = tick[1] /\ rejections' = tick[2]
        /\ erased' = {i \in Items : resolvedBy[i]}
        /\ UNCHANGED <<confirmed, rejected>>
    BY <1>4 DEF WriteTrust
  <2>2. Against' = {} /\ Counted' = {}
    BY <1>0, <2>1 DEF Against, Counted, IInv, Resolved
  <2>3. Cardinality(Against') = 0 /\ Cardinality(Counted') = 0
    BY <2>2, FS_EmptySet
  <2>4. TrustSinceTick'
    BY <1>1, <2>1, <2>3 DEF IInv, TickRead, TrustSinceTick, Against, Counted
  <2>5. TypeOK'
    BY <1>0, <1>1, <1>3, <2>1 DEF IInv, TypeOK, Resolvable
  <2> QED
    BY <1>0, <1>2, <1>3, <2>1, <2>4, <2>5 DEF IInv
<1>5. CASE ~WriteTrust
  <2>1. UNCHANGED <<confirmations, rejections, base, erased>>
    BY <1>5 DEF TrustTick, ConfirmMemory, RejectMemory, CountEvents, TickFails, tables
  <2>2. TypeOK'
    BY <1>0, <1>3, <2>1 DEF IInv, TypeOK, Resolvable
  <2>3. TrustSinceTick'
    BY <1>0, <1>1, <2>1 DEF IInv, TrustSinceTick
  <2> QED
    BY <1>0, <1>2, <1>3, <2>1, <2>2, <2>3 DEF IInv
<1> QED
  BY <1>4, <1>5

\* Steps that only concern the switch or what an administrator has seen.
LEMMA OtherSteps ==
    ASSUME IInv, UNCHANGED <<tables, callVars, trustVars, faults>>,
           disabled' \subseteq Fields, seen' \in [Admins -> Verdicts \cup {Nothing}]
    PROVE  IInv'
<1> USE DEF tables, callVars, trustVars
<1>1. TypeOK'
  BY DEF IInv, TypeOK, Resolvable
<1> QED
  BY <1>1 DEF IInv, ExactlyOnce, ReportsTrue, KeyHeld, Resolved, TickRead, TrustSinceTick

LEMMA NextInv == IInv /\ [Next]_vars => IInv'
<1> SUFFICES ASSUME IInv, [Next]_vars PROVE IInv'
  OBVIOUS
<1>0. disabled \subseteq Fields /\ seen \in [Admins -> Verdicts \cup {Nothing}]
  BY DEF IInv, TypeOK
<1>1. ASSUME NEW f \in Fields, Toggle(f) PROVE IInv'
  <2>1. disabled' \subseteq Fields /\ UNCHANGED <<tables, callVars, seen, trustVars, faults>>
    BY <1>0, <1>1 DEF Toggle
  <2> QED
    BY <1>0, <2>1, OtherSteps
<1>2. ASSUME NEW c \in Clients, Call(c) \/ Step(c) \/ Fail(c) PROVE IInv'
  BY <1>2, ReadSteps, InsertStep, MarkStep, CommitStep, FailStep DEF Step
<1>3. ASSUME NEW m \in Admins, ResolveItem(m) PROVE IInv'
  BY <1>3, ResolveStep
<1>4. ASSUME NEW m \in Admins, ResolveFails(m) PROVE IInv'
  <2>1. seen' \in [Admins -> Verdicts \cup {Nothing}]
    BY <1>0, <1>4 DEF ResolveFails
  <2> QED
    BY <1>0, <1>4, <2>1, OtherSteps DEF ResolveFails
<1>5. ASSUME NEW m \in Admins, NEW i \in Items, NEW v \in {"approved", "rejected"},
             ReadItem(m, i, v)
      PROVE  IInv'
  <2>1. seen' \in [Admins -> Verdicts \cup {Nothing}]
    BY <1>0, <1>5 DEF ReadItem, Verdicts
  <2> QED
    BY <1>0, <1>5, <2>1, OtherSteps DEF ReadItem
<1>6. CASE UNCHANGED vars
  BY <1>0, <1>6, OtherSteps DEF vars
<1>7. CASE TrustTick
  BY <1>7, TrustStep
<1> QED
  BY <1>1, <1>2, <1>3, <1>4, <1>5, <1>6, <1>7 DEF Next

LEMMA Invariant == Spec => []IInv
BY InitInv, NextInv, PTL DEF Spec

\* The types, and items marked by a call stay as they were until it ends.
THEOREM TypeCorrect == Spec => []TypeOK
<1>1. IInv => TypeOK
  BY DEF IInv
<1> QED
  BY <1>1, Invariant, PTL

\* A key that is recorded stands for one effect and one audit entry.
THEOREM ActsExactlyOnce == Spec => []ExactlyOnce
<1>1. IInv => ExactlyOnce
  BY DEF IInv
<1> QED
  BY <1>1, Invariant, PTL

\* executed and already_executed are only said of what took effect.
THEOREM ReportsAreTrue == Spec => []ReportsTrue
<1>1. IInv => ReportsTrue
  BY DEF IInv
<1> QED
  BY <1>1, Invariant, PTL

\* Since the last tick that overwrote actor_trust, it counts every verdict once.
THEOREM TrustCountsVerdicts == Spec => []TrustSinceTick
<1>1. IInv => TrustSinceTick
  BY DEF IInv
<1> QED
  BY <1>1, Invariant, PTL

\* Verdicts and executions are never taken back.
THEOREM VerdictsAreFinal == Spec => ResolvedIsFinal
<1> DEFINE Final == \A i \in Items :
         /\ status[i] \in {"rejected", "executed"} => status'[i] = status[i]
         /\ status[i] = "approved" => status'[i] \in {"approved", "executed"}
<1>1. ASSUME IInv, [Next]_vars PROVE [Final]_vars
  <2>1. ASSUME UNCHANGED status PROVE Final
    BY <2>1
  <2>2. ASSUME NEW c \in Clients, Call(c) \/ Step(c) \/ Fail(c) PROVE Final
    <3>1. CASE InsertPending(c)
      BY <3>1 DEF InsertPending, FirstFree, IInv, TypeOK
    <3>2. CASE Commit(c)
      <4>1. \A i \in marked[c] : status[i] \in {"pending", "approved"}
        <5>1. marked[c] \subseteq Resolvable(key[c])
          BY <1>1 DEF IInv, TypeOK
        <5> QED
          BY <5>1 DEF Resolvable
      <4>2. \A i \in Items : status'[i] = IF i \in marked[c] THEN "executed" ELSE status[i]
        BY <3>2 DEF Commit
      <4> QED
        BY <4>1, <4>2
    <3> HIDE DEF Final
    <3> QED
      BY <2>1, <2>2, <3>1, <3>2 DEF Step, Call, CheckTool, CheckAll, CheckKey, FindPending,
         CheckAgain, RecordKey, RunHandler, MarkExecuted, Fail, Frame, tables
  <2>3. ASSUME NEW m \in Admins, ResolveItem(m) PROVE Final
    BY <2>3 DEF ResolveItem, NewStatus, StillPending, IInv, TypeOK, Verdicts, Nothing
  <2> HIDE DEF Final
  <2> QED
    BY <1>1, <2>1, <2>2, <2>3 DEF Next, Toggle, ReadItem, ResolveFails, TrustTick, ConfirmMemory,
       RejectMemory, CountEvents, WriteTrust, TickFails, tables, vars
<1> QED
  BY <1>1, Invariant, PTL DEF Spec, ResolvedIsFinal
=============================================================================
