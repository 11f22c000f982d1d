--------------------------- MODULE AuditLogProofs ---------------------------
(***************************************************************************)
(* Proofs about AuditLog, the event log of a namespace with its             *)
(* verification tick, its anchors and its retention, for any number of      *)
(* transactions, replays, events and months, any verification depth and     *)
(* any retention period.                                                    *)
(***************************************************************************)
EXTENDS AuditLog, Sequences, WellFoundedInduction, TLAPS

\* A bounded set of numbers that is not empty has a greatest element.
LEMMA HasGreatest ==
    ASSUME NEW N \in Nat, NEW T \in SUBSET (0..N), T # {}
    PROVE  \E x \in T : \A y \in T : y <= x
  <1> DEFINE below == {N - x : x \in T}
             less == {p \in Nat \X Nat : p[1] < p[2]}
  <1>1. below \subseteq Nat /\ below # {}
    <2>1. \A x \in T : N - x \in Nat
      OBVIOUS
    <2> QED
      BY <2>1
  <1>2. IsWellFoundedOn(less, Nat)
    BY NatLessThanWellFounded DEF OpToRel
  <1>3. PICK u \in below : \A v \in below : <<v, u>> \notin less
    <2> HIDE DEF below, less
    <2> QED
      BY <1>1, <1>2, WFMin
  <1>4. PICK x \in T : u = N - x
    OBVIOUS
  <1>5. ASSUME NEW y \in T PROVE y <= x
    <2>1. N - y \in below /\ N - y \in Nat /\ u \in Nat
      BY <1>1
    <2>2. ~(N - y < u)
      BY <1>3, <2>1
    <2> QED
      BY <1>4, <2>2
  <1> QED
    BY <1>5

\* MAX(...) over event numbers, zero for none.
LEMMA MaxOfNumbers ==
    ASSUME NEW N \in Nat, NEW T \in SUBSET (1..N)
    PROVE  /\ MaxOf(T) \in 0..N
           /\ \A n \in T : n <= MaxOf(T)
           /\ T # {} => MaxOf(T) \in T
           /\ Greatest(T) = MaxOf(T)
  <1>1. PICK x \in T \cup {0} : \A n \in T \cup {0} : n <= x
    <2>1. T \cup {0} \in SUBSET (0..N)
      OBVIOUS
    <2> HIDE DEF MaxOf
    <2> QED
      BY <2>1, HasGreatest
  <1>2. \E m \in T \cup {0} : \A n \in T : n <= m
    BY <1>1
  <1>3. MaxOf(T) \in T \cup {0} /\ \A n \in T : n <= MaxOf(T)
    BY <1>2 DEF MaxOf
  <1>4. Greatest(T) = MaxOf(T)
    BY DEF Greatest, MaxOf
  <1> DEFINE m == MaxOf(T)
  <1>5. m \in 0..N /\ (T # {} => m \in T)
    <2>1. m \in T \cup {0} /\ \A n \in T : n <= m
      BY <1>3
    <2> HIDE DEF m
    <2>2. m \in 0..N
      BY <2>1
    <2>3. ASSUME NEW n \in T, m = 0 PROVE FALSE
      BY <2>1, <2>3
    <2> QED
      BY <2>1, <2>2, <2>3
  <1> QED
    BY <1>3, <1>4, <1>5

-----------------------------------------------------------------------------
(***************************************************************************)
(* The log is one gapless chain.                                            *)
(***************************************************************************)

\* S holds exactly one event for each of 1..n, and they are linked.
ChainTo(S, D, n) ==
    /\ \A r \in S : r.seq \in 1..n
    /\ \A i \in 1..n : \E r \in S : r.seq = i
    /\ \A r, q \in S : r.seq = q.seq => r = q
    /\ Linked(S, D)

\* What transaction t adds to: every event ever committed and its own rows.
View(t) == Everything \cup twrites[t]

\* Number of events in View(t): the counter row is one ahead between its update
\* and the insert.
Seen(t) == IF tpc[t] \in {"seq", "prev"} THEN tseq[t] - 1 ELSE tseq[t]

RowOK(r) == r.seq \in 1..MaxSeq /\ r.tx \in Txs \cup {NoTx} /\ r.at \in Months

\* What was dropped is not there.
Apart == rows \cap gone = {} /\ \A t \in Txs : twrites[t] \cap gone = {}

\* A transaction without the lock on the counter row has written nothing.
WritersHoldLock ==
    \A t \in Txs : t # holder => twrites[t] = {} /\ tpc[t] \in {"idle", "clock", "done"}

\* The transaction that holds the lock adds to a gapless chain, and the hash it
\* has read is still one its event may carry on from, although retention may
\* have dropped that event in the meantime.
HolderSeesChain ==
    holder \in Txs =>
        /\ tpc[holder] \in {"clock", "seq", "prev", "open"}
        /\ Seen(holder) \in Nat
        /\ ChainTo(View(holder), gone, Seen(holder))
        /\ tpc[holder] = "prev" => Precedes(View(holder), gone, tseq[holder], tprev[holder])

LogInv ==
    /\ EventLogTypeOK
    /\ \A t \in Txs : \A r \in twrites[t] : RowOK(r)
    /\ DOMAIN twrites = Txs /\ DOMAIN tprev = Txs
    /\ Apart
    /\ ChainTo(Everything, gone, counter)
    /\ WritersHoldLock
    /\ HolderSeesChain
-----------------------------------------------------------------------------
\* The newest event that is still there is one the next event may hash.
LEMMA NewestLive ==
    ASSUME NEW S, NEW D, NEW n \in Nat, ChainTo(S, D, n), NEW L, S = L \cup D
    PROVE  Precedes(S, D, n + 1, LastChain(L))
  <1>0. \A r \in S : r.seq \in 1..n
    BY DEF ChainTo
  <1>1. CASE L = {}
    BY <1>1 DEF LastChain, Precedes
  <1>2. CASE L # {}
    <2> DEFINE T == {r.seq : r \in L}
    <2>1. T \in SUBSET (0..n) /\ T # {}
      BY <1>0, <1>2
    <2> HIDE DEF T
    <2>2. PICK x \in T : \A y \in T : y <= x
      BY <2>1, HasGreatest
    <2>3. \E r \in L : \A q \in L : q.seq <= r.seq
      BY <2>2 DEF T
    <2> DEFINE last == CHOOSE r \in L : \A q \in L : q.seq <= r.seq
    <2>4. last \in L /\ \A q \in L : q.seq <= last.seq
      BY <2>3
    <2>5. LastChain(L) = last.chain
      BY <1>2 DEF LastChain
    <2> HIDE DEF last
    <2>6. last \in S /\ last.seq < n + 1
      BY <1>0, <2>4
    <2>7. \A p \in S : last.seq < p.seq /\ p.seq < n + 1 => p \in D
      BY <1>0, <2>4
    <2> QED
      BY <2>5, <2>6, <2>7 DEF Precedes
  <1> QED
    BY <1>1, <1>2

\* A later event does not stand between two earlier ones.
LEMMA PrecedesLater ==
    ASSUME NEW S, NEW D, NEW n \in Nat, NEW c, Precedes(S, D, n, c), NEW e, e.seq \in Nat, e.seq >= n
    PROVE  Precedes(S \cup {e}, D, n, c)
  BY DEF Precedes

\* An event that carries on from the chain extends it.
LEMMA ExtendChain ==
    ASSUME NEW S, NEW D, NEW n \in Nat, ChainTo(S, D, n), NEW e, NEW c, Precedes(S, D, n + 1, c),
           e.seq = n + 1, e.chain = ChainHash(Content(e), c)
    PROVE  ChainTo(S \cup {e}, D, n + 1)
  <1>1. \A r \in S : r.seq \in 1..n
    BY DEF ChainTo
  <1>2. Linked(S \cup {e}, D)
    <2> DEFINE Heads(R) == {Genesis} \cup {q.chain : q \in R}
    <2>1. ASSUME NEW r \in S
          PROVE  \E d \in Heads(S \cup {e}) :
                   r.chain = ChainHash(Content(r), d) /\ Precedes(S \cup {e}, D, r.seq, d)
      <3>1. PICK d \in Heads(S) : r.chain = ChainHash(Content(r), d) /\ Precedes(S, D, r.seq, d)
        BY DEF ChainTo, Linked
      <3>2. r.seq \in Nat /\ e.seq \in Nat /\ e.seq >= r.seq
        BY <1>1
      <3>3. Precedes(S \cup {e}, D, r.seq, d)
        BY <3>1, <3>2, PrecedesLater
      <3> QED
        BY <3>1, <3>3
    <2>2. c \in Heads(S \cup {e}) /\ Precedes(S \cup {e}, D, e.seq, c)
      <3>1. c \in Heads(S)
        BY DEF Precedes
      <3>2. Precedes(S \cup {e}, D, n + 1, c)
        BY PrecedesLater
      <3> QED
        BY <3>1, <3>2
    <2> QED
      BY <2>1, <2>2 DEF Linked
  <1>3. \A i \in 1..(n + 1) : \E r \in S \cup {e} : r.seq = i
    <2> SUFFICES ASSUME NEW i \in 1..(n + 1) PROVE \E r \in S \cup {e} : r.seq = i
      OBVIOUS
    <2>1. CASE i = n + 1
      BY <2>1
    <2>2. CASE i \in 1..n
      BY <2>2 DEF ChainTo
    <2> QED
      BY <2>1, <2>2
  <1>4. \A r, q \in S \cup {e} : r.seq = q.seq => r = q
    BY <1>1 DEF ChainTo
  <1> QED
    BY <1>1, <1>2, <1>3, <1>4 DEF ChainTo

\* An empty log is an empty chain.
LEMMA LogInit == EventLogInit => LogInv
  <1> SUFFICES ASSUME EventLogInit PROVE LogInv
    OBVIOUS
  <1>1. EventLogTypeOK
    BY EventLogAssumption DEF EventLogInit, EventLogTypeOK, Months, Everything
  <1>2. ChainTo(Everything, gone, counter)
    BY DEF EventLogInit, ChainTo, Linked, Everything
  <1> QED
    BY <1>1, <1>2, EventLogAssumption
       DEF EventLogInit, LogInv, WritersHoldLock, HolderSeesChain, Apart

\* Reading the clock writes nothing.
LEMMA ClockStep ==
    ASSUME LogInv, NEW t \in Txs, FetchDbClock(t)
    PROVE  LogInv'
  <1> USE EventLogAssumption DEF LogInv, EventLogTypeOK, FetchDbClock, Months
  <1>1. EventLogTypeOK'
    BY DEF Months, Everything
  <1>2. WritersHoldLock'
    BY DEF WritersHoldLock
  <1>3. HolderSeesChain'
    <2> SUFFICES ASSUME holder \in Txs PROVE HolderSeesChain'
      BY DEF HolderSeesChain
    <2>1. tpc'[holder] \in {"clock", "seq", "prev", "open"}
      BY DEF HolderSeesChain
    <2>2. Seen(holder)' = Seen(holder) /\ View(holder)' = View(holder)
      BY DEF Seen, View, Everything
    <2>3. tpc'[holder] = "prev" => tpc[holder] = "prev"
      OBVIOUS
    <2> QED
      BY <2>1, <2>2, <2>3 DEF HolderSeesChain
  <1> QED
    BY <1>1, <1>2, <1>3 DEF RowOK, Everything, Apart

\* The upsert takes the lock; what the new holder sees is what was committed,
\* or what it already saw.
LEMMA SeqStep ==
    ASSUME LogInv, NEW t \in Txs, NextEventSeq(t)
    PROVE  LogInv'
  <1> USE EventLogAssumption DEF LogInv, NextEventSeq
  <1>1. EventLogTypeOK'
    BY DEF EventLogTypeOK, Everything
  <1>2. WritersHoldLock'
    BY DEF WritersHoldLock, EventLogTypeOK
  <1>3. Seen(t)' \in Nat /\ ChainTo(View(t)', gone', Seen(t)')
    <2>1. CASE holder = t
      <3>1. Seen(t)' = Seen(t) /\ View(t)' = View(t)
        BY <2>1 DEF Seen, View, EventLogTypeOK, Everything
      <3> QED
        BY <2>1, <3>1 DEF HolderSeesChain
    <2>2. CASE holder = NoTx
      <3>1. Seen(t)' = counter /\ View(t)' = Everything
        BY <2>2 DEF Seen, View, WritersHoldLock, EventLogTypeOK, Everything
      <3> QED
        BY <3>1 DEF EventLogTypeOK
    <2> QED
      BY <2>1, <2>2
  <1>4. HolderSeesChain'
    BY <1>3 DEF HolderSeesChain, EventLogTypeOK, Seen, View
  <1> QED
    BY <1>1, <1>2, <1>4 DEF RowOK, Everything, Apart

\* The lookup reads the newest event that is still there.
LEMMA PrevStep ==
    ASSUME LogInv, NEW t \in Txs, FetchPreviousChainHash(t)
    PROVE  LogInv'
  <1> USE DEF LogInv, FetchPreviousChainHash
  <1>1. EventLogTypeOK'
    BY DEF EventLogTypeOK, Everything
  <1>2. holder = t
    BY DEF WritersHoldLock
  <1>3. WritersHoldLock'
    BY <1>2 DEF WritersHoldLock, EventLogTypeOK
  <1>4. /\ Seen(t)' = Seen(t) /\ View(t)' = View(t) /\ tprev'[t] = LastChain(rows \cup twrites[t])
        /\ tseq'[t] = Seen(t) + 1
    BY DEF Seen, View, EventLogTypeOK, Everything
  <1>5. Seen(t) \in Nat /\ ChainTo(View(t), gone, Seen(t))
    BY <1>2 DEF HolderSeesChain
  <1>6. View(t) = (rows \cup twrites[t]) \cup gone
    BY DEF View, Everything
  <1>7. Precedes(View(t), gone, Seen(t) + 1, LastChain(rows \cup twrites[t]))
    BY <1>5, <1>6, NewestLive
  <1>8. HolderSeesChain'
    BY <1>2, <1>4, <1>5, <1>7 DEF HolderSeesChain, EventLogTypeOK
  <1> QED
    BY <1>1, <1>3, <1>8 DEF RowOK, Everything, Apart

\* The insert extends the chain its transaction sees by one event.
LEMMA InsertStep ==
    ASSUME LogInv, NEW t \in Txs, InsertEvent(t)
    PROVE  LogInv'
  <1> USE DEF LogInv, InsertEvent
  <1>1. EventLogTypeOK'
    BY DEF EventLogTypeOK, Everything
  <1>2. holder = t
    BY DEF WritersHoldLock
  <1>3. WritersHoldLock'
    BY <1>2 DEF WritersHoldLock, EventLogTypeOK
  <1>4. /\ Seen(t) \in Nat /\ tseq[t] = Seen(t) + 1 /\ ChainTo(View(t), gone, Seen(t))
        /\ Precedes(View(t), gone, Seen(t) + 1, tprev[t])
    BY <1>2 DEF HolderSeesChain, Seen, EventLogTypeOK
  <1>5. /\ NewRow(t).seq = Seen(t) + 1
        /\ NewRow(t).chain = ChainHash(Content(NewRow(t)), tprev[t])
    BY <1>4 DEF NewRow, Content
  <1>6. ChainTo(View(t) \cup {NewRow(t)}, gone, Seen(t) + 1)
    BY <1>4, <1>5, ExtendChain
  <1>7. View(t)' = View(t) \cup {NewRow(t)} /\ Seen(t)' = Seen(t) + 1
    BY <1>4 DEF View, Seen, EventLogTypeOK, Everything
  <1>8. HolderSeesChain'
    BY <1>2, <1>4, <1>6, <1>7 DEF HolderSeesChain, EventLogTypeOK
  <1>9. RowOK(NewRow(t)) /\ NewRow(t) \notin gone
    <2>1. RowOK(NewRow(t))
      BY <1>4 DEF RowOK, NewRow, EventLogTypeOK
    <2>2. \A r \in gone : r.seq \in 1..Seen(t)
      BY <1>4 DEF ChainTo, View, Everything
    <2> QED
      BY <1>4, <1>5, <2>1, <2>2
  <1>10. (\A x \in Txs : \A r \in twrites'[x] : RowOK(r)) /\ Apart'
    BY <1>9 DEF Apart
  <1> QED
    BY <1>1, <1>3, <1>8, <1>10 DEF RowOK, Everything

\* A commit publishes what the transaction saw.
LEMMA CommitStep ==
    ASSUME LogInv, NEW t \in Txs, Commit(t)
    PROVE  LogInv' /\ Everything' = View(t)
  <1> USE EventLogAssumption DEF LogInv, Commit, Forget
  <1>1. holder = t
    BY DEF WritersHoldLock
  <1>2. Everything' = View(t) /\ counter' = Seen(t)
    BY DEF View, Seen, Everything
  <1>3. EventLogTypeOK'
    BY DEF EventLogTypeOK, RowOK, Everything, Months
  <1>4. ChainTo(Everything', gone', counter')
    BY <1>1, <1>2 DEF HolderSeesChain
  <1>5. WritersHoldLock' /\ Apart'
    BY <1>1 DEF WritersHoldLock, EventLogTypeOK, Apart
  <1>6. HolderSeesChain'
    BY DEF HolderSeesChain
  <1> QED
    BY <1>2, <1>3, <1>4, <1>5, <1>6 DEF RowOK

\* An abort forgets the transaction's rows and its counter value.
LEMMA AbortStep ==
    ASSUME LogInv, NEW t \in Txs, Abort(t)
    PROVE  LogInv'
  <1> USE EventLogAssumption DEF LogInv, Abort, Forget
  <1>1. EventLogTypeOK'
    BY DEF EventLogTypeOK, Everything, Months
  <1>2. WritersHoldLock'
    BY DEF WritersHoldLock, EventLogTypeOK
  <1>3. HolderSeesChain'
    <2>1. CASE holder = t
      BY <2>1 DEF HolderSeesChain
    <2>2. CASE holder # t /\ holder \in Txs
      <3>1. Seen(holder)' = Seen(holder) /\ View(holder)' = View(holder)
        BY <2>2 DEF Seen, View, EventLogTypeOK, Everything
      <3> QED
        BY <2>2, <3>1 DEF HolderSeesChain, EventLogTypeOK
    <2>3. CASE holder \notin Txs
      BY <2>3 DEF HolderSeesChain
    <2> QED
      BY <2>1, <2>2, <2>3
  <1> QED
    BY <1>1, <1>2, <1>3 DEF RowOK, Everything, Apart

\* Every step keeps the invariant.
LEMMA LogStep == LogInv /\ [EventLogNext]_logVars => LogInv'
  <1> SUFFICES ASSUME LogInv, [EventLogNext]_logVars PROVE LogInv'
    OBVIOUS
  <1>1. CASE NextMonth
    BY <1>1, EventLogAssumption
       DEF NextMonth, LogInv, EventLogTypeOK, Months, RowOK, WritersHoldLock, HolderSeesChain,
           Seen, View, Everything, Apart
  <1>2. CASE UNCHANGED logVars
    BY <1>2 DEF logVars, LogInv, EventLogTypeOK, RowOK, WritersHoldLock, HolderSeesChain,
           Seen, View, Everything, Apart
  <1> QED
    BY <1>1, <1>2, ClockStep, SeqStep, PrevStep, InsertStep, CommitStep, AbortStep
       DEF EventLogNext, AppendStep

(***************************************************************************)
(* Types, for the readers and the retention too.                            *)
(***************************************************************************)

\* The transaction that holds the counter row is ahead of the committed
\* counter; the others have written nothing.
Ahead ==
    \A t \in Txs :
        /\ t # holder => twrites[t] = {} /\ tpc[t] \in {"idle", "clock", "done"}
        /\ t = holder => /\ tpc[t] \in {"clock", "seq", "prev", "open"}
                         /\ tseq[t] > counter
                         /\ \A r \in twrites[t] : r.seq > counter

\* The types, for the uncommitted rows too.
LogTypes ==
    /\ EventLogTypeOK
    /\ DOMAIN twrites = Txs /\ DOMAIN tprev = Txs
    /\ \A t \in Txs : \A r \in twrites[t] : RowOK(r)

TypeInv == LogTypes /\ Ahead /\ VerifyTypeOK /\ RetentionTypeOK

\* Committed events are only ever added above the counter.
Grows ==
    /\ rows \subseteq rows'
    /\ \A r \in rows' : r \in rows \/ r.seq > counter
    /\ counter' >= counter
    /\ gone' = gone
-----------------------------------------------------------------------------
\* The newest event's number is one of the log's.
LEMMA NewestEvent ==
    ASSUME EventLogTypeOK, NEW S \in SUBSET rows
    PROVE  /\ MaxOf({r.seq : r \in S}) \in 0..MaxSeq
           /\ \A r \in S : r.seq <= MaxOf({q.seq : q \in S})
           /\ S # {} => MaxOf({r.seq : r \in S}) \in 1..MaxSeq
           /\ Greatest({r.seq : r \in S}) = MaxOf({r.seq : r \in S})
  <1> DEFINE T == {r.seq : r \in S}
  <1>1. T \in SUBSET (1..MaxSeq) /\ (S # {} => T # {})
    BY DEF EventLogTypeOK, Everything
  <1>2. MaxSeq \in Nat
    BY EventLogAssumption
  <1>3. \A r \in S : r.seq \in T
    OBVIOUS
  <1> HIDE DEF T
  <1>4. /\ MaxOf(T) \in 0..MaxSeq /\ \A n \in T : n <= MaxOf(T)
        /\ T # {} => MaxOf(T) \in T
        /\ Greatest(T) = MaxOf(T)
    BY <1>1, <1>2, MaxOfNumbers
  <1>5. /\ MaxOf(T) \in 0..MaxSeq
        /\ \A r \in S : r.seq <= MaxOf(T)
        /\ S # {} => MaxOf(T) \in 1..MaxSeq
    BY <1>1, <1>3, <1>4
  <1> QED
    BY <1>4, <1>5 DEF T
-----------------------------------------------------------------------------
\* A step of append_event keeps the types and the lock discipline, and commits
\* events above the counter only.
LEMMA AppendTypes ==
    ASSUME LogTypes, Ahead, [EventLogNext]_logVars
    PROVE  LogTypes' /\ Ahead' /\ Grows
  <1> USE EventLogAssumption DEF LogTypes, EventLogTypeOK, Ahead, Everything
  <1>1. ASSUME NEW t \in Txs, FetchDbClock(t) PROVE LogTypes' /\ Ahead' /\ Grows
    BY <1>1 DEF FetchDbClock, Months, RowOK, Grows
  <1>2. ASSUME NEW t \in Txs, NextEventSeq(t) PROVE LogTypes' /\ Ahead' /\ Grows
    BY <1>2 DEF NextEventSeq, Months, RowOK, Grows
  <1>3. ASSUME NEW t \in Txs, FetchPreviousChainHash(t) PROVE LogTypes' /\ Ahead' /\ Grows
    BY <1>3 DEF FetchPreviousChainHash, Months, RowOK, Grows
  <1>4. ASSUME NEW t \in Txs, InsertEvent(t) PROVE LogTypes' /\ Ahead' /\ Grows
    <2>1. NewRow(t).seq = tseq[t] /\ RowOK(NewRow(t)) /\ tseq[t] > counter
      BY <1>4 DEF InsertEvent, NewRow, RowOK
    <2> QED
      BY <1>4, <2>1 DEF InsertEvent, Months, RowOK, Grows
  <1>5. ASSUME NEW t \in Txs, Commit(t) PROVE LogTypes' /\ Ahead' /\ Grows
    <2>1. t = holder
      BY <1>5 DEF Commit, Forget
    <2> QED
      BY <1>5, <2>1 DEF Commit, Forget, Months, RowOK, Grows
  <1>6. ASSUME NEW t \in Txs, Abort(t) PROVE LogTypes' /\ Ahead' /\ Grows
    BY <1>6 DEF Abort, Forget, Months, RowOK, Grows
  <1>7. CASE NextMonth
    BY <1>7 DEF NextMonth, Months, RowOK, Grows
  <1>8. CASE UNCHANGED logVars
    BY <1>8 DEF logVars, Months, RowOK, Grows
  <1> QED
    BY <1>1, <1>2, <1>3, <1>4, <1>5, <1>6, <1>7, <1>8 DEF EventLogNext, AppendStep

\* The tick's own append starts from the committed counter.
LEMMA AlarmTypes ==
    ASSUME LogTypes, Ahead, VerifyTypeOK, VerifyAlarm
    PROVE  LogTypes' /\ Ahead' /\ Grows /\ VerifyTypeOK'
  <1> USE EventLogAssumption DEF LogTypes, EventLogTypeOK, Ahead, Everything
  <1>1. CASE AlreadyRecorded
    <2>1. UNCHANGED <<alarms, logVars>>
      BY <1>1 DEF VerifyAlarm
    <2> QED
      BY <2>1 DEF VerifyAlarm, logVars, VerifyTypeOK, RowOK, Grows
  <1>2. CASE ~AlreadyRecorded
    <2> DEFINE e == [seq |-> counter + 1, tx |-> NoTx, at |-> now,
                     chain |-> ChainHash(<<NoTx, counter + 1, now>>, LastChain(rows))]
               alarm == [seq |-> counter + 1, break |-> broken]
    <2>1. /\ holder = NoTx /\ counter < MaxSeq /\ counter' = counter + 1
          /\ rows' = rows \cup {e} /\ alarms' = Append(alarms, alarm)
          /\ UNCHANGED <<gone, holder, tpc, tat, tseq, tprev, twrites, now>>
      BY <1>2 DEF VerifyAlarm
    <2>2. e.seq = counter + 1 /\ RowOK(e)
      BY <2>1 DEF RowOK
    <2>3. alarm \in [seq : 1..MaxSeq, break : SUBSET (1..MaxSeq)]
      BY <2>1 DEF VerifyTypeOK
    <2> HIDE DEF e, alarm
    <2>4. alarms' \in Seq([seq : 1..MaxSeq, break : SUBSET (1..MaxSeq)])
      BY <2>1, <2>3 DEF VerifyTypeOK
    <2>5. VerifyTypeOK'
      BY <2>4 DEF VerifyAlarm, VerifyTypeOK
    <2>6. LogTypes' /\ Ahead' /\ Grows
      BY <2>1, <2>2 DEF RowOK, Grows
    <2> QED
      BY <2>5, <2>6
  <1> QED
    BY <1>1, <1>2

\* The tick's queries write nothing.
LEMMA QueryTypes ==
    ASSUME LogTypes, VerifyTypeOK,
           \/ VerifyBegin \/ VerifyFetchRows \/ VerifyFetchPrior \/ VerifyHashes
           \/ VerifyFetchCounter \/ VerifyFetchMax
    PROVE  VerifyTypeOK' /\ UNCHANGED logVars
  <1> USE EventLogAssumption DEF VerifyTypeOK
  <1>1. CASE VerifyBegin
    <2>1. MaxEventSeq \in 0..MaxSeq
      BY NewestEvent DEF LogTypes, MaxEventSeq
    <2> DEFINE k == MaxEventSeq - Depth + 1
    <2>2. Depth # 0 => k \in Int /\ k <= MaxSeq
      BY <2>1, DepthAssumption
    <2> HIDE DEF k
    <2>3. Depth # 0 => MaxOf({1, k}) = IF k <= 1 THEN 1 ELSE k
      BY <2>2 DEF MaxOf
    <2>4. vstart' \in 1..(MaxSeq + 1)
      BY <1>1, <2>2, <2>3 DEF VerifyBegin, k
    <2> QED
      BY <1>1, <2>4 DEF VerifyBegin
  <1>2. CASE VerifyFetchRows
    BY <1>2 DEF VerifyFetchRows, LogTypes, EventLogTypeOK, Everything
  <1>3. CASE VerifyFetchPrior
    BY <1>3 DEF VerifyFetchPrior
  <1>4. CASE VerifyHashes
    <2>1. Mismatches \subseteq 1..MaxSeq
      BY DEF Mismatches
    <2>2. broken' \subseteq 1..MaxSeq
      BY <1>4, <2>1 DEF VerifyHashes
    <2>3. vstart' \in 1..(MaxSeq + 1) /\ vrows' = {} /\ valid' \in BOOLEAN
      BY <1>4 DEF VerifyHashes
    <2> QED
      BY <1>4, <2>2, <2>3 DEF VerifyHashes
  <1>5. CASE VerifyFetchCounter
    BY <1>5 DEF VerifyFetchCounter, LogTypes, EventLogTypeOK, Everything
  <1>6. CASE VerifyFetchMax
    BY <1>6 DEF VerifyFetchMax
  <1> QED
    BY <1>1, <1>2, <1>3, <1>4, <1>5, <1>6

\* Retention and the anchors only remove rows.
LEMMA RetentionTypes ==
    ASSUME LogTypes, Ahead, RetentionTypeOK, RetentionNext
    PROVE  /\ LogTypes' /\ Ahead' /\ RetentionTypeOK'
           /\ rows' \subseteq rows /\ counter' = counter
  <1> USE EventLogAssumption DEF LogTypes, Ahead, RetentionTypeOK
  <1>1. CASE AnchorTick
    <2>1. Greatest({r.seq : r \in rows}) \in 1..MaxSeq
      BY <1>1, NewestEvent DEF AnchorTick
    <2> QED
      BY <1>1, <2>1 DEF AnchorTick, logVars, EventLogTypeOK, Everything, RowOK
  <1>2. ASSUME NEW m \in Months, RetentionCheck(m)
        PROVE  /\ LogTypes' /\ Ahead' /\ RetentionTypeOK'
               /\ rows' \subseteq rows /\ counter' = counter
    <2>1. Greatest({r.seq : r \in Partition(m)}) \in 0..MaxSeq
      <3>1. Partition(m) \in SUBSET rows
        BY DEF Partition
      <3> QED
        BY <3>1, NewestEvent
    <2> QED
      BY <1>2, <2>1 DEF RetentionCheck, logVars, EventLogTypeOK, Everything, RowOK
  <1>3. CASE RetentionAnchored
    BY <1>3 DEF RetentionAnchored, logVars, EventLogTypeOK, Everything, RowOK
  <1>4. CASE RetentionDrop
    <2>1. /\ rows' \subseteq rows /\ dropped' = dropped \cup {rpart}
          /\ lost' \subseteq lost \cup Partition(rpart) /\ gone' = gone \cup Partition(rpart)
          /\ Everything' = Everything
          /\ UNCHANGED <<anchors, rpart, rmax>> /\ rpc' = "idle"
          /\ UNCHANGED <<counter, holder, tpc, tat, tseq, tprev, twrites, now>>
      BY <1>4 DEF RetentionDrop, Partition, Everything
    <2>2. RetentionTypeOK'
      BY <2>1
    <2>3. LogTypes' /\ Ahead'
      BY <2>1 DEF EventLogTypeOK, RowOK
    <2> QED
      BY <2>1, <2>2, <2>3
  <1>5. CASE RetentionDropFails
    BY <1>5 DEF RetentionDropFails, logVars, EventLogTypeOK, Everything, RowOK
  <1> QED
    BY <1>1, <1>2, <1>3, <1>4, <1>5 DEF RetentionNext

LEMMA TypeInit == Init => TypeInv
  <1> SUFFICES ASSUME Init PROVE TypeInv
    OBVIOUS
  <1>1. LogTypes /\ Ahead
    BY EventLogAssumption
       DEF Init, EventLogInit, LogTypes, EventLogTypeOK, Ahead, Months, Everything
  <1>2. VerifyTypeOK /\ RetentionTypeOK
    BY EventLogAssumption
       DEF Init, VerifyInit, RetentionInit, VerifyTypeOK, RetentionTypeOK, Months
  <1> QED
    BY <1>1, <1>2 DEF TypeInv

\* Every step keeps the types, and all but retention's only add events.
LEMMA TypeStep ==
    ASSUME TypeInv, [Next]_vars
    PROVE  TypeInv' /\ (Grows \/ RetentionNext)
  <1>1. CASE EventLogNext /\ UNCHANGED <<verifyVars, retentionVars>>
    <2>1. LogTypes' /\ Ahead' /\ Grows
      BY <1>1, AppendTypes DEF TypeInv
    <2>2. VerifyTypeOK' /\ RetentionTypeOK'
      BY <1>1, <2>1 DEF Grows, TypeInv, verifyVars, retentionVars, VerifyTypeOK, RetentionTypeOK
    <2> QED
      BY <2>1, <2>2 DEF TypeInv
  <1>2. CASE VerifyNext /\ UNCHANGED retentionVars
    <2>1. gone' = gone => RetentionTypeOK'
      BY <1>2 DEF TypeInv, retentionVars, RetentionTypeOK
    <2>2. CASE VerifyAlarm
      BY <2>1, <2>2, AlarmTypes DEF TypeInv, Grows
    <2>3. CASE ~VerifyAlarm
      <3>1. VerifyTypeOK' /\ UNCHANGED logVars
        BY <1>2, <2>3, QueryTypes DEF VerifyNext, TypeInv
      <3>2. LogTypes' /\ Ahead' /\ Grows
        BY <3>1, AppendTypes DEF TypeInv
      <3> QED
        BY <2>1, <3>1, <3>2 DEF TypeInv, Grows
    <2> QED
      BY <2>2, <2>3
  <1>3. CASE RetentionNext /\ UNCHANGED verifyVars
    <2>1. VerifyTypeOK'
      BY <1>3 DEF TypeInv, verifyVars, VerifyTypeOK
    <2> QED
      BY <1>3, <2>1, RetentionTypes DEF TypeInv
  <1>4. CASE UNCHANGED vars
    <2>1. UNCHANGED logVars
      BY <1>4 DEF vars
    <2>2. LogTypes' /\ Ahead' /\ Grows
      BY <2>1, AppendTypes DEF TypeInv
    <2>3. VerifyTypeOK' /\ RetentionTypeOK'
      BY <1>4, <2>2 DEF Grows, vars, TypeInv, verifyVars, retentionVars, VerifyTypeOK, RetentionTypeOK
    <2> QED
      BY <2>2, <2>3 DEF TypeInv
  <1> QED
    BY <1>1, <1>2, <1>3, <1>4 DEF Next

LEMMA TypesKept == Spec => []TypeInv
  BY TypeInit, TypeStep, PTL DEF Spec

\* Every variable of the log, the tick and the retention pass keeps its type:
\* in particular start_seq stays within the log for every depth.
THEOREM AuditTypeCorrect == Spec => []TypeOK
  BY TypesKept, PTL DEF TypeInv, LogTypes, TypeOK
-----------------------------------------------------------------------------
-----------------------------------------------------------------------------
(***************************************************************************)
(* The chain under everyone who writes it.                                  *)
(***************************************************************************)

\* The tick's append extends the chain like any other.
LEMMA AlarmExtends ==
    ASSUME TypeInv, LogInv, VerifyAlarm
    PROVE  LogInv'
  <1>1. CASE AlreadyRecorded
    <2>1. UNCHANGED logVars
      BY <1>1 DEF VerifyAlarm
    <2> QED
      BY <2>1, LogStep
  <1>2. CASE ~AlreadyRecorded
    <2> DEFINE e == [seq |-> counter + 1, tx |-> NoTx, at |-> now,
                     chain |-> ChainHash(<<NoTx, counter + 1, now>>, LastChain(rows))]
    <2>1. /\ holder = NoTx /\ counter' = counter + 1 /\ rows' = rows \cup {e}
          /\ UNCHANGED <<gone, holder, tpc, tat, tseq, tprev, twrites, now>>
      BY <1>2 DEF VerifyAlarm
    <2>2. e.seq = counter + 1 /\ e.chain = ChainHash(Content(e), LastChain(rows))
      BY DEF Content
    <2> HIDE DEF e
    <2>3. counter \in Nat /\ ChainTo(Everything, gone, counter)
      BY EventLogAssumption DEF LogInv, EventLogTypeOK
    <2>4. Precedes(Everything, gone, counter + 1, LastChain(rows))
      BY <2>3, NewestLive DEF Everything
    <2>5. ChainTo(Everything \cup {e}, gone, counter + 1)
      BY <2>2, <2>3, <2>4, ExtendChain
    <2>6. Everything' = Everything \cup {e} /\ e \notin gone
      <3>1. \A r \in gone : r.seq \in 1..counter
        BY <2>3 DEF ChainTo, Everything
      <3> QED
        BY <2>1, <2>2, <2>3, <3>1 DEF Everything
    <2>7. LogTypes'
      BY AlarmTypes DEF TypeInv
    <2>8. WritersHoldLock' /\ HolderSeesChain' /\ Apart'
      BY <2>1, <2>6, EventLogAssumption DEF LogInv, WritersHoldLock, HolderSeesChain, Apart
    <2> QED
      BY <2>1, <2>5, <2>6, <2>7, <2>8 DEF LogInv, LogTypes
  <1> QED
    BY <1>1, <1>2

\* What is dropped leaves the chain of everything that was logged as it is:
\* the links over it are explained.
LEMMA DropKeepsChain ==
    ASSUME TypeInv, LogInv, RetentionDrop
    PROVE  LogInv' /\ Everything' = Everything
  <1> USE DEF LogInv
  <1>1. /\ gone' = gone \cup Partition(rpart) /\ rows' = rows \ Partition(rpart)
        /\ UNCHANGED <<counter, holder, tpc, tat, tseq, tprev, twrites, now>>
        /\ \A t \in Txs : twrites[t] \cap Partition(rpart) = {}
    BY DEF RetentionDrop, Partition
  <1>2. Everything' = Everything /\ \A t \in Txs : View(t)' = View(t) /\ Seen(t)' = Seen(t)
    BY <1>1 DEF Everything, View, Seen, Partition
  <1>3. ASSUME NEW S, NEW n, NEW c, Precedes(S, gone, n, c) PROVE Precedes(S, gone', n, c)
    BY <1>1, <1>3 DEF Precedes
  <1>4. ASSUME NEW S, NEW n, ChainTo(S, gone, n) PROVE ChainTo(S, gone', n)
    <2>1. Linked(S, gone')
      BY <1>3, <1>4 DEF ChainTo, Linked
    <2> QED
      BY <1>4, <2>1 DEF ChainTo
  <1>5. ChainTo(Everything, gone, counter)' /\ HolderSeesChain'
    BY <1>1, <1>2, <1>3, <1>4 DEF HolderSeesChain
  <1>6. EventLogTypeOK' /\ WritersHoldLock'
    BY <1>1, <1>2 DEF EventLogTypeOK, WritersHoldLock
  <1>7. Apart'
    BY <1>1 DEF Apart
  <1> QED
    BY <1>1, <1>2, <1>5, <1>6, <1>7 DEF RowOK

\* A step that changes the log is one of append_event, an alarm or a drop.
LEMMA EachStep ==
    ASSUME TypeInv, [Next]_vars
    PROVE  [EventLogNext]_logVars \/ (VerifyAlarm /\ ~AlreadyRecorded) \/ RetentionDrop
  <1>1. ASSUME VerifyNext, ~VerifyAlarm PROVE UNCHANGED logVars
    BY <1>1, QueryTypes DEF VerifyNext, TypeInv
  <1>2. ASSUME VerifyAlarm, AlreadyRecorded PROVE UNCHANGED logVars
    BY <1>2 DEF VerifyAlarm
  <1>3. ASSUME RetentionNext, ~RetentionDrop PROVE UNCHANGED logVars
    BY <1>3 DEF RetentionNext, AnchorTick, RetentionCheck, RetentionAnchored, RetentionDropFails
  <1> QED
    BY <1>1, <1>2, <1>3 DEF Next, vars

LEMMA LogKept == TypeInv /\ LogInv /\ [Next]_vars => LogInv'
  BY EachStep, LogStep, AlarmExtends, DropKeepsChain

\* The inductive invariant of the log.
LEMMA LogAlways == Spec => []LogInv
  BY LogInit, LogKept, TypesKept, PTL DEF Spec, Init

\* A chain up to the counter is gapless in the sense the verifier checks.
LEMMA ChainIsGapless == LogInv => GaplessChain
  <1> SUFFICES ASSUME LogInv PROVE {r.seq : r \in Everything} = 1..counter
    BY DEF LogInv, ChainTo, GaplessChain
  <1> QED
    BY DEF LogInv, ChainTo

\* The log is numbered without gap or duplicate, and linked but for what
\* retention dropped, whatever transactions overlap, abort and replay, and
\* whenever the verification tick appends to it.
THEOREM LogIsGapless == Spec => []GaplessChain
  BY LogAlways, ChainIsGapless, PTL
-----------------------------------------------------------------------------
\* A transaction's events appear in the log only when it commits: uncommitted
\* rows are its own, and it has no others.
OwnRows ==
    \A t \in Txs :
        /\ \A r \in twrites[t] : r.tx = t
        /\ tpc[t] # "done" => \A r \in Everything : r.tx # t
        /\ tpc[t] = "open" => twrites[t] # {}

\* The event numbered i.
Entry(S, i) == CHOOSE r \in S : r.seq = i

\* The refinement mapping of SerialAppends.
History == [i \in 1..counter |->
              LET r == CHOOSE r \in Everything : r.seq = i IN [tx |-> r.tx, at |-> r.at]]

\* Every number of a chain has its event.
LEMMA EntryOfChain ==
    ASSUME NEW S, NEW D, NEW n \in Nat, ChainTo(S, D, n), NEW i \in 1..n
    PROVE  Entry(S, i) \in S /\ Entry(S, i).seq = i
  <1>1. \E r \in S : r.seq = i
    BY DEF ChainTo
  <1> QED
    BY <1>1 DEF Entry

LEMMA OwnRowsInit == EventLogInit => OwnRows
  BY DEF EventLogInit, OwnRows, Everything

\* Every step keeps a transaction's rows its own.
LEMMA OwnRowsStep == LogInv /\ OwnRows /\ [EventLogNext]_logVars => OwnRows'
  <1> SUFFICES ASSUME LogInv, OwnRows, [EventLogNext]_logVars PROVE OwnRows'
    OBVIOUS
  <1> USE DEF LogInv, EventLogTypeOK, OwnRows, Everything
  <1>1. ASSUME NEW t \in Txs, FetchDbClock(t) PROVE OwnRows'
    BY <1>1 DEF FetchDbClock
  <1>2. ASSUME NEW t \in Txs, NextEventSeq(t) PROVE OwnRows'
    BY <1>2 DEF NextEventSeq
  <1>3. ASSUME NEW t \in Txs, FetchPreviousChainHash(t) PROVE OwnRows'
    BY <1>3 DEF FetchPreviousChainHash
  <1>4. ASSUME NEW t \in Txs, InsertEvent(t) PROVE OwnRows'
    <2>1. NewRow(t).tx = t
      BY DEF NewRow
    <2> QED
      BY <1>4, <2>1 DEF InsertEvent
  <1>5. ASSUME NEW t \in Txs, Commit(t) PROVE OwnRows'
    BY <1>5 DEF Commit, Forget
  <1>6. ASSUME NEW t \in Txs, Abort(t) PROVE OwnRows'
    BY <1>6 DEF Abort, Forget
  <1>7. CASE NextMonth
    BY <1>7 DEF NextMonth
  <1>8. CASE UNCHANGED logVars
    BY <1>8 DEF logVars
  <1> QED
    BY <1>1, <1>2, <1>3, <1>4, <1>5, <1>6, <1>7, <1>8 DEF EventLogNext, AppendStep

\* A commit is one atomic append of the abstract log.
LEMMA CommitAppends ==
    ASSUME LogInv, OwnRows, NEW t \in Txs, Commit(t)
    PROVE  Serial!AppendTx(t)
  <1> USE DEF LogInv
  <1>1. counter \in Nat /\ counter' \in Nat /\ Len(History) = counter /\ Len(History)' = counter'
    BY CommitStep, EventLogAssumption DEF History, EventLogTypeOK
  <1>2. ChainTo(Everything, gone, counter) /\ ChainTo(Everything', gone', counter')
        /\ Everything' = Everything \cup twrites[t]
    BY CommitStep DEF View
  <1>3. \A r \in twrites[t] : r.tx = t /\ r.seq \notin 1..counter /\ r.seq \in 1..counter'
    <2> SUFFICES ASSUME NEW r \in twrites[t] PROVE r.seq \notin 1..counter
      BY <1>2 DEF OwnRows, ChainTo
    <2>1. r.tx = t /\ r \notin Everything
      BY DEF OwnRows, Commit
    <2> QED
      BY <1>2, <2>1 DEF ChainTo
  <1>4. twrites[t] # {}
    BY DEF OwnRows, Commit
  <1>5. counter' > counter
    BY <1>1, <1>3, <1>4
  <1>6. \A i \in 1..counter : Entry(Everything, i)' = Entry(Everything, i) /\ Entry(Everything, i).tx # t
    <2> SUFFICES ASSUME NEW i \in 1..counter
                 PROVE  Entry(Everything', i) = Entry(Everything, i) /\ Entry(Everything, i).tx # t
      BY DEF Entry
    <2>1. Entry(Everything, i) \in Everything /\ Entry(Everything, i).seq = i
      BY <1>1, <1>2, EntryOfChain
    <2>2. Entry(Everything', i) \in Everything' /\ Entry(Everything', i).seq = i
      BY <1>1, <1>2, <1>5, EntryOfChain
    <2> QED
      BY <2>1, <2>2, <1>2 DEF ChainTo, OwnRows, Commit
  <1>7. \A i \in (counter + 1)..counter' : Entry(Everything, i)'.tx = t
    <2> SUFFICES ASSUME NEW i \in (counter + 1)..counter' PROVE Entry(Everything', i).tx = t
      BY DEF Entry
    <2>1. Entry(Everything', i) \in Everything' /\ Entry(Everything', i).seq = i
      BY <1>1, <1>2, EntryOfChain
    <2>2. Entry(Everything', i) \notin Everything
      BY <1>1, <1>2, <2>1 DEF ChainTo
    <2> QED
      BY <1>2, <1>3, <2>1, <2>2
  <1>8. /\ \A i \in 1..counter : History[i] = [tx |-> Entry(Everything, i).tx, at |-> Entry(Everything, i).at]
        /\ \A i \in 1..counter' : History'[i] = [tx |-> Entry(Everything, i)'.tx, at |-> Entry(Everything, i)'.at]
    BY DEF History, Entry
  <1>9. /\ Len(History') > Len(History)
        /\ \A i \in 1..Len(History) : History'[i] = History[i] /\ History[i].tx # t
        /\ \A i \in (Len(History) + 1)..Len(History') : History'[i].tx = t
    BY <1>1, <1>5, <1>6, <1>7, <1>8
  <1> QED
    BY <1>9 DEF Serial!AppendTx, History

\* So is the tick's own event.
LEMMA AlarmAppends ==
    ASSUME TypeInv, LogInv, VerifyAlarm, ~AlreadyRecorded
    PROVE  Serial!AppendAlarm
  <1> USE DEF LogInv
  <1> DEFINE e == [seq |-> counter + 1, tx |-> NoTx, at |-> now,
                   chain |-> ChainHash(<<NoTx, counter + 1, now>>, LastChain(rows))]
  <1>1. /\ counter \in Nat /\ counter' = counter + 1
        /\ Len(History) = counter /\ Len(History)' = counter'
    BY EventLogAssumption DEF History, EventLogTypeOK, VerifyAlarm
  <1>2. Everything' = Everything \cup {e} /\ e.seq = counter + 1 /\ e.tx = NoTx
    BY DEF VerifyAlarm, Everything
  <1> HIDE DEF e
  <1>3. ChainTo(Everything, gone, counter) /\ ChainTo(Everything', gone', counter')
    BY AlarmExtends
  <1>4. \A i \in 1..counter : Entry(Everything, i)' = Entry(Everything, i)
    <2> SUFFICES ASSUME NEW i \in 1..counter
                 PROVE  Entry(Everything', i) = Entry(Everything, i)
      BY DEF Entry
    <2>1. Entry(Everything, i) \in Everything /\ Entry(Everything, i).seq = i
      BY <1>1, <1>3, EntryOfChain
    <2>2. Entry(Everything', i) \in Everything' /\ Entry(Everything', i).seq = i
      <3>1. i \in 1..counter' /\ counter' \in Nat
        BY <1>1
      <3> QED
        BY <1>3, <3>1, EntryOfChain
    <2> QED
      BY <2>1, <2>2, <1>2, <1>3 DEF ChainTo
  <1>5. Entry(Everything', counter + 1) = e
    <2>1. counter + 1 \in 1..counter' /\ counter' \in Nat
      BY <1>1
    <2>2. Entry(Everything', counter + 1) \in Everything'
          /\ Entry(Everything', counter + 1).seq = counter + 1
      BY <1>3, <2>1, EntryOfChain
    <2> QED
      BY <1>2, <1>3, <2>2 DEF ChainTo
  <1>6. /\ \A i \in 1..counter :
              History[i] = [tx |-> Entry(Everything, i).tx, at |-> Entry(Everything, i).at]
        /\ \A i \in 1..counter' :
              History'[i] = [tx |-> Entry(Everything, i)'.tx, at |-> Entry(Everything, i)'.at]
    BY DEF History, Entry
  <1>7. Entry(Everything', counter').tx = NoTx
    BY <1>1, <1>2, <1>5
  <1>8. /\ Len(History') = Len(History) + 1
        /\ \A i \in 1..Len(History) : History'[i] = History[i]
        /\ History'[Len(History')].tx = NoTx
    <2>1. \A i \in 1..counter : i \in 1..counter'
      BY <1>1
    <2>2. counter' \in 1..counter'
      BY <1>1
    <2>3. History'[counter'] = [tx |-> Entry(Everything', counter').tx,
                               at |-> Entry(Everything', counter').at]
      BY <1>6, <2>2 DEF Entry
    <2>4. History'[counter'].tx = NoTx
      BY <1>7, <2>3
    <2>5. \A i \in 1..counter : History'[i] = History[i]
      BY <1>4, <1>6, <2>1
    <2> QED
      BY <1>1, <2>4, <2>5
  <1> QED
    BY <1>8 DEF Serial!AppendAlarm, History

LEMMA OwnRowsKept == TypeInv /\ LogInv /\ OwnRows /\ [Next]_vars => OwnRows'
  <1> SUFFICES ASSUME TypeInv, LogInv, OwnRows, [Next]_vars PROVE OwnRows'
    OBVIOUS
  <1>1. CASE VerifyAlarm /\ ~AlreadyRecorded
    <2>1. /\ \A r \in Everything' : r \in Everything \/ r.tx = NoTx
          /\ UNCHANGED <<tpc, twrites>>
      BY <1>1 DEF VerifyAlarm, Everything
    <2> QED
      BY <2>1, EventLogAssumption DEF OwnRows
  <1>2. CASE RetentionDrop
    <2>1. Everything' = Everything /\ UNCHANGED <<tpc, twrites>>
      BY <1>2, DropKeepsChain DEF RetentionDrop
    <2> QED
      BY <2>1 DEF OwnRows
  <1>3. CASE [EventLogNext]_logVars
    BY <1>3, OwnRowsStep
  <1> QED
    BY <1>1, <1>2, <1>3, EachStep

LEMMA OwnRowsAlways == Spec => []OwnRows
  BY LogAlways, TypesKept, OwnRowsInit, OwnRowsKept, PTL DEF Spec, Init

\* Refinement: overlapping transactions of append_event, the verification
\* tick's own events and the retention of old ones implement the abstract
\* append-only log, one committing transaction at a time.
THEOREM AppendsAreSerial == Spec => SerialAppends
  <1>1. Init => Serial!Init
    BY DEF Init, EventLogInit, Serial!Init
  <1>2. TypeInv /\ LogInv /\ OwnRows /\ [Next]_vars => [Serial!Next]_History
    <2> SUFFICES ASSUME TypeInv, LogInv, OwnRows, [Next]_vars PROVE [Serial!Next]_History
      OBVIOUS
    <2>1. ASSUME NEW t \in Txs, Commit(t) PROVE Serial!Next
      BY <2>1, CommitAppends DEF Serial!Next
    <2>2. CASE VerifyAlarm /\ ~AlreadyRecorded
      BY <2>2, AlarmAppends DEF Serial!Next
    <2>3. CASE UNCHANGED <<counter, Everything>>
      BY <2>3 DEF History
    <2>4. CASE RetentionDrop
      BY <2>3, <2>4, DropKeepsChain DEF RetentionDrop
    <2>5. CASE [EventLogNext]_logVars
      <3>1. CASE UNCHANGED <<counter, rows, gone>>
        BY <2>3, <3>1 DEF Everything
      <3> QED
        BY <2>1, <2>5, <3>1 DEF EventLogNext, AppendStep, NextMonth, FetchDbClock, NextEventSeq,
               FetchPreviousChainHash, InsertEvent, Abort, logVars
    <2> QED
      BY <2>2, <2>4, <2>5, EachStep
  <1>3. Spec => Serial!Init /\ [][Serial!Next]_History
    BY <1>1, <1>2, OwnRowsAlways, LogAlways, TypesKept, PTL DEF Spec
  <1> QED
    BY <1>3, PTL DEF SerialAppends, Serial!Spec, History
-----------------------------------------------------------------------------
\* A recorded alarm is a committed event.
AlarmsCommitted == \A i \in 1..Len(alarms) : alarms[i].seq <= counter

LEMMA AlarmFacts ==
    ASSUME TypeInv
    PROVE  /\ counter \in Nat /\ Len(alarms) \in Nat
           /\ \A i \in 1..Len(alarms) : alarms[i].seq \in 1..MaxSeq
  <1> DEFINE A == [seq : 1..MaxSeq, break : SUBSET (1..MaxSeq)]
  <1>1. counter \in Nat /\ alarms \in Seq(A)
    BY EventLogAssumption DEF TypeInv, LogTypes, EventLogTypeOK, VerifyTypeOK
  <1>2. \A a \in A : a.seq \in 1..MaxSeq
    OBVIOUS
  <1> HIDE DEF A
  <1>3. Len(alarms) \in Nat /\ \A i \in 1..Len(alarms) : alarms[i] \in A
    BY <1>1
  <1> QED
    BY <1>1, <1>2, <1>3

\* Adding events above the counter cannot bring back the number of an alarm.
LEMMA RecordGrows ==
    ASSUME TypeInv, BreakRecordedOnce, AlarmsCommitted, Grows, TypeInv', UNCHANGED alarms
    PROVE  BreakRecordedOnce' /\ AlarmsCommitted'
  <1>1. /\ \A i \in 1..Len(alarms) : alarms[i].seq \in 1..MaxSeq
        /\ counter \in Nat /\ counter' \in Nat
    BY AlarmFacts, EventLogAssumption DEF TypeInv, LogTypes, EventLogTypeOK
  <1>2. \A i \in 1..Len(alarms) : \A r \in rows' : r.seq = alarms[i].seq => r \in rows
    BY <1>1 DEF Grows, AlarmsCommitted
  <1>3. BreakRecordedOnce'
    BY <1>2 DEF BreakRecordedOnce
  <1> QED
    BY <1>1, <1>3 DEF Grows, AlarmsCommitted

\* The tick appends only for a break that no event of the log records.
LEMMA RecordAlarm ==
    ASSUME TypeInv, BreakRecordedOnce, AlarmsCommitted, VerifyAlarm, ~AlreadyRecorded
    PROVE  BreakRecordedOnce' /\ AlarmsCommitted'
  <1> DEFINE n == Len(alarms)
             alarm == [seq |-> counter + 1, break |-> broken]
  <1>1. /\ n \in Nat /\ counter \in Nat
        /\ \A i \in 1..n : alarms[i].seq \in 1..MaxSeq /\ alarms[i].seq <= counter
    BY AlarmFacts DEF AlarmsCommitted
  <1>2. /\ counter' = counter + 1 /\ alarms' = Append(alarms, alarm)
        /\ \A r \in rows' : r \in rows \/ r.seq = counter + 1
    BY DEF VerifyAlarm
  <1>3. /\ Len(alarms') = n + 1 /\ alarms'[n + 1] = alarm
        /\ \A i \in 1..n : alarms'[i] = alarms[i]
    BY <1>2 DEF TypeInv, VerifyTypeOK
  <1>4. AlarmsCommitted'
    <2> SUFFICES ASSUME NEW i \in 1..(n + 1) PROVE alarms'[i].seq <= counter'
      BY <1>3 DEF AlarmsCommitted
    <2> HIDE DEF n
    <2>1. CASE i = n + 1
      BY <2>1, <1>1, <1>2, <1>3
    <2>2. CASE i \in 1..n
      BY <2>2, <1>1, <1>2, <1>3
    <2> QED
      BY <1>1, <2>1, <2>2
  <1>5. ASSUME NEW i \in 1..(n + 1), NEW j \in 1..(n + 1), i < j,
               alarms'[i].break = alarms'[j].break, alarms'[i].break # {},
               NEW p \in rows', NEW q \in rows',
               p.seq = alarms'[i].seq, q.seq = alarms'[j].seq
        PROVE  FALSE
    <2>0. i \in 1..n /\ (j \in 1..n \/ j = n + 1)
      <3> HIDE DEF n
      <3> QED
        BY <1>1, <1>5
    <2>1. alarms'[i] = alarms[i] /\ p \in rows
      BY <1>1, <1>2, <1>3, <1>5, <2>0
    <2>2. CASE j \in 1..n
      <3>1. alarms'[j] = alarms[j] /\ q \in rows
        BY <1>1, <1>2, <1>3, <1>5, <2>2
      <3> QED
        BY <1>5, <2>0, <2>1, <2>2, <3>1 DEF BreakRecordedOnce
    <2>3. CASE j = n + 1
      <3>1. alarms'[j].break = broken
        BY <1>3, <2>3
      <3> QED
        BY <1>5, <2>0, <2>1, <3>1 DEF AlreadyRecorded
    <2> QED
      BY <2>0, <2>2, <2>3
  <1>6. BreakRecordedOnce'
    BY <1>3, <1>5 DEF BreakRecordedOnce
  <1> QED
    BY <1>4, <1>6

\* Every step keeps the record of breaks free of duplicates.
LEMMA RecordStep ==
    ASSUME TypeInv, BreakRecordedOnce, AlarmsCommitted, [Next]_vars
    PROVE  BreakRecordedOnce' /\ AlarmsCommitted'
  <1>1. TypeInv' /\ (Grows \/ RetentionNext)
    BY TypeStep
  <1>2. CASE VerifyAlarm /\ ~AlreadyRecorded
    BY <1>2, RecordAlarm
  <1>3. CASE RetentionNext /\ UNCHANGED verifyVars
    <2>1. rows' \subseteq rows /\ counter' = counter /\ alarms' = alarms
      BY <1>3, RetentionTypes DEF TypeInv, verifyVars
    <2> QED
      BY <2>1 DEF BreakRecordedOnce, AlarmsCommitted
  <1>4. CASE UNCHANGED alarms /\ Grows
    BY <1>1, <1>4, RecordGrows
  <1>5. ASSUME VerifyAlarm, AlreadyRecorded PROVE UNCHANGED alarms /\ Grows
    BY <1>5, AlarmTypes DEF VerifyAlarm, TypeInv
  <1>6. ASSUME VerifyNext, ~VerifyAlarm PROVE UNCHANGED alarms /\ Grows
    <2>1. UNCHANGED logVars
      BY <1>6, QueryTypes DEF VerifyNext, TypeInv
    <2>2. Grows
      BY <2>1, AppendTypes DEF TypeInv
    <2> QED
      BY <1>6, <2>2 DEF VerifyNext, VerifyBegin, VerifyFetchRows, VerifyFetchPrior,
             VerifyHashes, VerifyFetchCounter, VerifyFetchMax
  <1>7. ASSUME [EventLogNext]_logVars, UNCHANGED verifyVars PROVE UNCHANGED alarms /\ Grows
    BY <1>7, AppendTypes DEF TypeInv, verifyVars
  <1> QED
    BY <1>2, <1>3, <1>4, <1>5, <1>6, <1>7 DEF Next, vars

\* _chain_verification_tick records a break at most once, however the log grows,
\* shrinks and is verified again.
THEOREM RecordsOnce == Spec => []BreakRecordedOnce
  <1>1. Init => BreakRecordedOnce /\ AlarmsCommitted
    BY DEF Init, VerifyInit, BreakRecordedOnce, AlarmsCommitted
  <1>2. TypeInv /\ BreakRecordedOnce /\ AlarmsCommitted /\ [Next]_vars
          => (BreakRecordedOnce /\ AlarmsCommitted)'
    BY RecordStep
  <1> QED
    BY <1>1, <1>2, TypesKept, PTL DEF Spec
-----------------------------------------------------------------------------
\* Events that no replay writes carry the current month, so no partition that
\* retention looks at gets another one.
NewEventsAreNew ==
    \A t \in Txs \ Replays :
        /\ tpc[t] \in {"clock", "seq", "prev"} => tat[t] = now
        /\ \A r \in twrites[t] : r.at = now

RetentionCovered ==
    /\ rpc \in {"anchor", "drop"} => rpart < now
    /\ rpc = "anchor" => \A r \in Partition(rpart) : r.tx \in Replays \/ r.seq <= rmax
    /\ rpc = "drop" =>
         \A r \in Partition(rpart) : r.tx \in Replays \/ r.seq <= Greatest(anchors)

AnchorInv == NewEventsAreNew /\ RetentionCovered /\ LostOnlyToReplays

\* append_event writes to the current partition only, unless it replays.
LEMMA AppendIsNew ==
    ASSUME TypeInv, OwnRows, AnchorInv, [EventLogNext]_logVars, UNCHANGED retentionVars
    PROVE  AnchorInv'
  <1> USE DEF AnchorInv
  <1>1. now \in Nat /\ rpart \in Nat /\ tat \in [Txs -> Months] /\ DOMAIN twrites = Txs
        /\ tpc \in [Txs -> {"idle", "clock", "seq", "prev", "open", "done"}]
    BY EventLogAssumption DEF TypeInv, LogTypes, EventLogTypeOK, RetentionTypeOK, Months
  <1>2. NewEventsAreNew' /\ now' \in {now, now + 1} /\ \A r \in rows' : r \in rows \/ r.at = now \/ r.tx \in Replays
    <2> USE <1>1 DEF NewEventsAreNew, Forget
    <2>1. ASSUME NEW t \in Txs, FetchDbClock(t)
          PROVE  NewEventsAreNew' /\ now' = now /\ rows' = rows
      BY <2>1 DEF FetchDbClock
    <2>2. ASSUME NEW t \in Txs, NextEventSeq(t)
          PROVE  NewEventsAreNew' /\ now' = now /\ rows' = rows
      BY <2>2 DEF NextEventSeq
    <2>3. ASSUME NEW t \in Txs, FetchPreviousChainHash(t)
          PROVE  NewEventsAreNew' /\ now' = now /\ rows' = rows
      BY <2>3 DEF FetchPreviousChainHash
    <2>4. ASSUME NEW t \in Txs, InsertEvent(t)
          PROVE  NewEventsAreNew' /\ now' = now /\ rows' = rows
      <3>1. t \notin Replays => NewRow(t).at = now
        BY <2>4 DEF InsertEvent, NewRow
      <3> QED
        BY <2>4, <3>1 DEF InsertEvent
    <2>5. ASSUME NEW t \in Txs, Commit(t)
          PROVE  NewEventsAreNew' /\ now' = now /\ \A r \in rows' : r \in rows \/ r.at = now \/ r.tx \in Replays
      BY <2>5 DEF Commit, OwnRows
    <2>6. ASSUME NEW t \in Txs, Abort(t)
          PROVE  NewEventsAreNew' /\ now' = now /\ rows' = rows
      BY <2>6 DEF Abort
    <2>7. ASSUME NextMonth PROVE NewEventsAreNew' /\ now' = now + 1 /\ rows' = rows
      BY <2>7 DEF NextMonth, TypeInv, Ahead
    <2>8. ASSUME UNCHANGED logVars PROVE NewEventsAreNew' /\ now' = now /\ rows' = rows
      BY <2>8 DEF logVars
    <2> QED
      BY <2>1, <2>2, <2>3, <2>4, <2>5, <2>6, <2>7, <2>8 DEF EventLogNext, AppendStep
  <1>3. RetentionCovered'
    <2>1. rpc \in {"anchor", "drop"} =>
            \A r \in Partition(rpart)' : r \in Partition(rpart) \/ r.tx \in Replays
      BY <1>1, <1>2 DEF RetentionCovered, retentionVars, Partition
    <2>2. rpc \in {"anchor", "drop"} => rpart < now'
      BY <1>1, <1>2 DEF RetentionCovered
    <2> QED
      BY <2>1, <2>2 DEF RetentionCovered, retentionVars
  <1> QED
    BY <1>2, <1>3 DEF retentionVars, LostOnlyToReplays

\* So does the verification tick.
LEMMA AlarmIsNew ==
    ASSUME TypeInv, AnchorInv, VerifyNext, UNCHANGED retentionVars, VerifyAlarm
    PROVE  AnchorInv'
  <1> USE DEF AnchorInv
  <1>1. now \in Nat /\ rpart \in Nat
    BY EventLogAssumption DEF TypeInv, LogTypes, EventLogTypeOK, RetentionTypeOK, Months
  <1>2. /\ UNCHANGED <<tpc, tat, twrites, now>>
        /\ \A r \in rows' : r \in rows \/ r.at = now \/ r.tx \in Replays
    BY DEF VerifyAlarm, logVars
  <1>3. RetentionCovered'
    <2>1. rpc \in {"anchor", "drop"} =>
            \A r \in Partition(rpart)' : r \in Partition(rpart) \/ r.tx \in Replays
      BY <1>1, <1>2 DEF RetentionCovered, retentionVars, Partition
    <2> QED
      BY <1>2, <2>1 DEF RetentionCovered, retentionVars
  <1> QED
    BY <1>2, <1>3 DEF retentionVars, LostOnlyToReplays, NewEventsAreNew

\* Retention drops what it found covered, and anchors only grow.
LEMMA DropIsCovered ==
    ASSUME TypeInv, AnchorInv, RetentionNext
    PROVE  AnchorInv'
  <1> USE DEF AnchorInv
  <1>1. /\ now \in Nat /\ rpart \in Months /\ RetentionMonths \in Nat /\ Months \subseteq Nat
        /\ \A r \in rows : r.seq \in 1..MaxSeq
        /\ anchors \in SUBSET (1..MaxSeq) /\ MaxSeq \in Nat
    BY EventLogAssumption, RetentionAssumption
       DEF TypeInv, LogTypes, EventLogTypeOK, Everything, RetentionTypeOK, Months
  <1>2. CASE AnchorTick
    <2>1. anchors \subseteq anchors' /\ anchors' \in SUBSET (1..MaxSeq)
      BY <1>2, RetentionTypes DEF AnchorTick, TypeInv, RetentionTypeOK, RetentionNext
    <2>2. Greatest(anchors) \in 0..MaxSeq /\ Greatest(anchors') \in 0..MaxSeq
          /\ Greatest(anchors) <= Greatest(anchors')
      <3>1. /\ Greatest(anchors) \in 0..MaxSeq /\ Greatest(anchors') \in 0..MaxSeq
            /\ anchors # {} => Greatest(anchors) \in anchors
            /\ anchors = {} => Greatest(anchors) = 0
            /\ \A n \in anchors' : n <= Greatest(anchors')
        <4>1. anchors = {} => Greatest(anchors) = 0
          BY DEF Greatest
        <4> QED
          BY <1>1, <2>1, <4>1, MaxOfNumbers
      <3> QED
        BY <2>1, <3>1
    <2>3. UNCHANGED <<rpc, rpart, rmax, dropped, lost, rows, now, tpc, tat, twrites>>
      BY <1>2 DEF AnchorTick, logVars
    <2>4. \A r \in Partition(rpart) : r.seq \in Nat
      BY <1>1 DEF Partition
    <2>5. RetentionCovered'
      <3>1. Partition(rpart)' = Partition(rpart)
        BY <2>3 DEF Partition
      <3>2. rpc' = "drop" =>
              \A r \in Partition(rpart) : r.tx \in Replays \/ r.seq <= Greatest(anchors')
        BY <2>2, <2>3, <2>4 DEF RetentionCovered
      <3> QED
        BY <2>3, <3>1, <3>2 DEF RetentionCovered
    <2> QED
      BY <2>3, <2>5 DEF NewEventsAreNew, LostOnlyToReplays
  <1>3. ASSUME NEW m \in Months, RetentionCheck(m) PROVE AnchorInv'
    <2>1. \A r \in Partition(m) : r.seq <= Greatest({q.seq : q \in Partition(m)})
      <3>1. Partition(m) \in SUBSET rows
        BY DEF Partition
      <3> QED
        BY <3>1, NewestEvent DEF TypeInv, LogTypes
    <2>2. m < now
      BY <1>1, <1>3 DEF RetentionCheck
    <2>3. UNCHANGED <<lost, rows, now, tpc, tat, twrites, anchors>>
      BY <1>3 DEF RetentionCheck, logVars
    <2>4. rpart' = m /\ rmax' = Greatest({q.seq : q \in Partition(m)})
          /\ (rpc' = "drop" => Partition(m) = {})
      BY <1>3 DEF RetentionCheck
    <2>5. Partition(rpart)' = Partition(m)
      BY <2>3, <2>4 DEF Partition
    <2>6. RetentionCovered'
      BY <2>1, <2>2, <2>3, <2>4, <2>5 DEF RetentionCovered
    <2> QED
      BY <2>3, <2>6 DEF NewEventsAreNew, LostOnlyToReplays
  <1>4. CASE RetentionAnchored
    <2>1. UNCHANGED <<lost, rows, now, tpc, tat, twrites, anchors, rpart>>
      BY <1>4 DEF RetentionAnchored, logVars
    <2>2. rpc = "anchor" /\ (rpc' = "drop" => Greatest(anchors) >= rmax) /\ rpc' # "anchor"
      BY <1>4 DEF RetentionAnchored
    <2>3. Greatest(anchors) \in 0..MaxSeq /\ rmax \in 0..MaxSeq
      BY <1>1, MaxOfNumbers DEF TypeInv, RetentionTypeOK
    <2>4. \A r \in Partition(rpart) : r.seq \in Nat /\ (r.tx \in Replays \/ r.seq <= rmax)
      BY <1>1, <2>2 DEF Partition, RetentionCovered
    <2>5. Partition(rpart)' = Partition(rpart)
      BY <2>1 DEF Partition
    <2>6. rpc' = "drop" =>
            \A r \in Partition(rpart) : r.tx \in Replays \/ r.seq <= Greatest(anchors)
      BY <1>1, <2>2, <2>3, <2>4
    <2>7. RetentionCovered'
      BY <2>1, <2>2, <2>5, <2>6 DEF RetentionCovered
    <2> QED
      BY <2>1, <2>7 DEF NewEventsAreNew, LostOnlyToReplays
  <1>5. CASE RetentionDrop
    <2>1. Greatest(anchors) \in 0..MaxSeq
      BY <1>1, MaxOfNumbers
    <2>2. \A q \in Partition(rpart) : q.seq > Greatest(anchors) => q.tx \in Replays
      <3>1. \A q \in Partition(rpart) :
              q.seq \in Nat /\ (q.tx \in Replays \/ q.seq <= Greatest(anchors))
        BY <1>1, <1>5 DEF RetentionDrop, RetentionCovered, Partition
      <3> QED
        BY <2>1, <3>1
    <2>3. LostOnlyToReplays'
      BY <1>5, <2>2 DEF RetentionDrop, LostOnlyToReplays
    <2>4. rpc' = "idle" /\ UNCHANGED <<now, tpc, tat, twrites>>
      BY <1>5 DEF RetentionDrop
    <2> QED
      BY <2>3, <2>4 DEF NewEventsAreNew, LostOnlyToReplays, RetentionCovered
  <1>6. CASE RetentionDropFails
    BY <1>6 DEF RetentionDropFails, logVars, NewEventsAreNew, RetentionCovered, LostOnlyToReplays
  <1> QED
    BY <1>2, <1>3, <1>4, <1>5, <1>6 DEF RetentionNext

\* run_partition_retention loses no event that no anchor covers, except those
\* that a deterministic replay wrote into the aged partition.
THEOREM DropsOnlyAnchored == Spec => []LostOnlyToReplays
  <1>1. Init => AnchorInv
    BY DEF Init, EventLogInit, RetentionInit, AnchorInv, NewEventsAreNew, RetentionCovered,
           LostOnlyToReplays
  <1>2. TypeInv /\ OwnRows /\ AnchorInv /\ [Next]_vars => AnchorInv'
    <2> SUFFICES ASSUME TypeInv, OwnRows, AnchorInv, [Next]_vars PROVE AnchorInv'
      OBVIOUS
    <2>1. CASE EventLogNext /\ UNCHANGED <<verifyVars, retentionVars>>
      BY <2>1, AppendIsNew
    <2>2. CASE VerifyNext /\ UNCHANGED retentionVars
      <3>1. CASE VerifyAlarm
        BY <2>2, <3>1, AlarmIsNew
      <3>2. CASE ~VerifyAlarm
        <4>1. UNCHANGED logVars
          BY <2>2, <3>2, QueryTypes DEF VerifyNext, TypeInv
        <4> QED
          BY <2>2, <4>1, AppendIsNew
      <3> QED
        BY <3>1, <3>2
    <2>3. CASE RetentionNext /\ UNCHANGED verifyVars
      BY <2>3, DropIsCovered
    <2>4. CASE UNCHANGED vars
      BY <2>4, AppendIsNew DEF vars
    <2> QED
      BY <2>1, <2>2, <2>3, <2>4 DEF Next
  <1> QED
    BY <1>1, <1>2, TypesKept, OwnRowsAlways, PTL DEF Spec, AnchorInv
-----------------------------------------------------------------------------
\* The rows a verification holds are a stretch of the log from start_seq on,
\* whatever was committed since it fetched them.
Stretch ==
    /\ vrows \subseteq rows
    /\ \A r \in vrows : r.seq >= vstart
    /\ \A r \in rows : \A q \in vrows : vstart <= r.seq /\ r.seq <= q.seq => r \in vrows

\* The hash it starts from is the one before start_seq.
BaseBefore ==
    \/ vstart = 1 /\ vbase = Genesis
    \/ \E q \in rows : q.seq = vstart - 1 /\ vbase = q.chain

VerifyInv ==
    /\ vpc # "idle" => vstart <= counter + 1
    /\ vpc \in {"prior", "hash"} => Stretch
    /\ vpc = "hash" => BaseBefore
    /\ broken = {}

ChainInv == dropped = {} => gone = {} /\ VerifyInv

\* A log of which nothing was dropped is linked without exception.
LEMMA StrictLinks ==
    ASSUME LogInv, gone = {}
    PROVE  /\ ChainTo(rows, {}, counter)
           /\ \A r \in rows :
                \/ r.seq = 1 /\ r.chain = ChainHash(Content(r), Genesis)
                \/ \E q \in rows : q.seq = r.seq - 1 /\ r.chain = ChainHash(Content(r), q.chain)
  <1>1. ChainTo(rows, {}, counter) /\ counter \in Nat
    BY EventLogAssumption DEF LogInv, Everything, EventLogTypeOK
  <1>2. ASSUME NEW r \in rows
        PROVE  \/ r.seq = 1 /\ r.chain = ChainHash(Content(r), Genesis)
               \/ \E q \in rows : q.seq = r.seq - 1 /\ r.chain = ChainHash(Content(r), q.chain)
    <2>1. PICK c \in {Genesis} \cup {q.chain : q \in rows} :
            r.chain = ChainHash(Content(r), c) /\ Precedes(rows, {}, r.seq, c)
      BY <1>1 DEF ChainTo, Linked
    <2>2. r.seq \in 1..counter /\ \A q \in rows : q.seq \in 1..counter
      BY <1>1 DEF ChainTo
    <2>3. r.seq = 1 \/ \E p \in rows : p.seq = r.seq - 1
      <3>1. r.seq # 1 => r.seq - 1 \in 1..counter
        BY <1>1, <2>2
      <3> QED
        BY <1>1, <3>1 DEF ChainTo
    <2>4. CASE c = Genesis /\ \A p \in rows : ~(p.seq < r.seq)
      <3>1. r.seq = 1
        BY <2>2, <2>3, <2>4
      <3> QED
        BY <2>1, <2>4, <3>1
    <2>5. ASSUME NEW q \in rows, q.seq < r.seq, c = q.chain,
                 \A p \in rows : ~(q.seq < p.seq /\ p.seq < r.seq)
          PROVE  q.seq = r.seq - 1
      <3>1. r.seq # 1
        BY <2>2, <2>5
      <3>2. PICK p \in rows : p.seq = r.seq - 1
        BY <2>3, <3>1
      <3>3. p.seq \in Nat /\ q.seq \in Nat /\ r.seq \in Nat /\ ~(q.seq < p.seq /\ p.seq < r.seq)
        BY <2>2, <2>5
      <3> QED
        BY <2>5, <3>2, <3>3
    <2> QED
      BY <2>1, <2>4, <2>5 DEF Precedes
  <1> QED
    BY <1>1, <1>2

\* Events committed meanwhile do not disturb a verification.
LEMMA VerifyGrows ==
    ASSUME TypeInv, LogInv, VerifyInv, gone = {}, Grows, TypeInv', UNCHANGED verifyVars
    PROVE  VerifyInv'
  <1>1. /\ counter \in Nat /\ counter' \in Nat /\ counter' >= counter /\ vstart \in Nat
        /\ \A r \in rows : r.seq \in 1..counter
        /\ \A r \in rows' : r.seq \in Nat
    BY EventLogAssumption, StrictLinks
       DEF TypeInv, LogTypes, EventLogTypeOK, VerifyTypeOK, ChainTo, Grows, Everything
  <1>2. UNCHANGED <<vpc, vstart, vrows, vbase, broken>>
    BY DEF verifyVars
  <1>3. Stretch => Stretch'
    <2> SUFFICES ASSUME Stretch, NEW r \in rows', NEW q \in vrows,
                        vstart <= r.seq, r.seq <= q.seq
                 PROVE  r \in vrows
      BY <1>2 DEF Stretch, Grows
    <2>1. q.seq \in 1..counter
      BY <1>1 DEF Stretch
    <2>2. r \in rows
      BY <1>1, <2>1 DEF Grows
    <2> QED
      BY <2>2 DEF Stretch
  <1>4. BaseBefore => BaseBefore'
    BY <1>2 DEF BaseBefore, Grows
  <1>5. vpc # "idle" => vstart <= counter' + 1
    <2> SUFFICES ASSUME vpc # "idle" PROVE vstart <= counter' + 1
      OBVIOUS
    <2>1. vstart <= counter + 1
      BY DEF VerifyInv
    <2>2. counter \in Nat /\ counter' \in Nat /\ counter' >= counter /\ vstart \in Nat
      BY <1>1
    <2>3. \A a, b, c \in Nat : a <= b + 1 /\ c >= b => a <= c + 1
      OBVIOUS
    <2> QED
      BY <2>1, <2>2, <2>3
  <1>6. /\ vpc' = vpc /\ vstart' = vstart /\ broken' = broken
    BY <1>2
  <1> QED
    BY <1>3, <1>4, <1>5, <1>6, Zenon DEF VerifyInv

\* In an untouched chain every fetched row hashes the one carried into it.
LEMMA NoMismatch ==
    ASSUME TypeInv, LogInv, VerifyInv, gone = {}, vpc = "hash"
    PROVE  Mismatches = {}
  <1>1. /\ Stretch /\ BaseBefore
        /\ \A r, q \in rows : r.seq = q.seq => r = q
        /\ \A r \in rows : r.seq \in Nat /\ r.seq >= 1
        /\ vstart \in Nat /\ vstart >= 1
    BY EventLogAssumption, StrictLinks
       DEF VerifyInv, ChainTo, TypeInv, VerifyTypeOK
  <1>2. ASSUME NEW r \in vrows PROVE r.chain = ChainHash(Content(r), CarriedHash(r))
    <2> DEFINE before == {q \in vrows : q.seq < r.seq}
    <2>1. r \in rows /\ r.seq >= vstart
      BY <1>1 DEF Stretch
    <2>2. CASE r.seq = 1 /\ r.chain = ChainHash(Content(r), Genesis)
      <3>1. before = {} /\ vstart = 1
        BY <1>1, <2>1, <2>2 DEF Stretch
      <3>2. vbase = Genesis
        BY <1>1, <3>1 DEF BaseBefore
      <3> QED
        BY <2>2, <3>1, <3>2 DEF CarriedHash
    <2>3. ASSUME NEW q \in rows, q.seq = r.seq - 1, r.chain = ChainHash(Content(r), q.chain)
          PROVE  CarriedHash(r) = q.chain
      <3>1. CASE r.seq = vstart
        <4>1. before = {}
          BY <1>1, <2>1, <3>1 DEF Stretch
        <4>2. vstart # 1
          BY <1>1, <2>1, <2>3, <3>1
        <4>3. vbase = q.chain
          BY <1>1, <2>3, <3>1, <4>2 DEF BaseBefore
        <4> QED
          BY <4>1, <4>3 DEF CarriedHash
      <3>2. CASE r.seq > vstart
        <4>1. q \in before
          BY <1>1, <2>1, <2>3, <3>2 DEF Stretch
        <4>2. \A p \in before : p \in rows /\ p.seq <= q.seq
          BY <1>1, <2>1, <2>3 DEF Stretch
        <4> DEFINE last == CHOOSE x \in before : \A p \in before : p.seq <= x.seq
        <4> HIDE DEF before
        <4>3. last \in before /\ \A p \in before : p.seq <= last.seq
          BY <4>1, <4>2
        <4>4. last = q
          <5>1. last \in rows /\ last.seq <= q.seq /\ q.seq <= last.seq
            BY <4>1, <4>2, <4>3
          <5> HIDE DEF last
          <5> QED
            BY <1>1, <2>3, <5>1
        <4>5. LastChain(before) = q.chain
          BY <4>1, <4>4 DEF LastChain
        <4> QED
          BY <4>1, <4>5 DEF CarriedHash, before
      <3> QED
        BY <1>1, <2>1, <3>1, <3>2
    <2> QED
      BY <1>1, <2>1, <2>2, <2>3, StrictLinks
  <1> QED
    BY <1>2 DEF Mismatches

\* Each query of a verification keeps what the next one relies on.
LEMMA VerifySteps ==
    ASSUME TypeInv, LogInv, VerifyInv, gone = {}, VerifyNext, UNCHANGED logVars
    PROVE  VerifyInv'
  <1> USE DEF VerifyInv
  <1>1. /\ counter \in Nat /\ vstart \in Nat /\ vstart >= 1
        /\ ChainTo(rows, {}, counter) /\ counter' = counter /\ rows' = rows
    BY EventLogAssumption, StrictLinks
       DEF LogInv, EventLogTypeOK, TypeInv, VerifyTypeOK, logVars
  <1>2. CASE VerifyBegin
    <2>1. MaxEventSeq \in 0..MaxSeq /\ MaxEventSeq <= counter
      <3> DEFINE T == {r.seq : r \in rows}
      <3>1. T \in SUBSET (1..counter)
        BY <1>1 DEF ChainTo
      <3> HIDE DEF T
      <3>2. MaxOf(T) \in 0..counter
        BY <1>1, <3>1, MaxOfNumbers
      <3>3. counter <= MaxSeq /\ MaxSeq \in Nat
        BY EventLogAssumption DEF LogInv, EventLogTypeOK
      <3> QED
        BY <1>1, <3>2, <3>3 DEF MaxEventSeq, T
    <2> DEFINE k == MaxEventSeq - Depth + 1
    <2>2. Depth # 0 => k \in Int /\ k <= counter
      BY <1>1, <2>1, DepthAssumption
    <2> HIDE DEF k
    <2>3. Depth # 0 => MaxOf({1, k}) = IF k <= 1 THEN 1 ELSE k
      BY <2>2 DEF MaxOf
    <2>4. vstart' <= counter + 1
      BY <1>1, <1>2, <2>2, <2>3 DEF VerifyBegin, k
    <2> QED
      BY <1>1, <1>2, <2>4 DEF VerifyBegin
  <1>3. CASE VerifyFetchRows
    <2>1. Stretch'
      BY <1>1, <1>3 DEF VerifyFetchRows, Stretch, ChainTo
    <2> QED
      BY <1>1, <1>3, <2>1 DEF VerifyFetchRows
  <1>4. CASE VerifyFetchPrior
    <2>0. vstart <= counter + 1 /\ Stretch
      BY <1>4 DEF VerifyFetchPrior
    <2> DEFINE P == {r \in rows : vstart > 1 /\ r.seq = vstart - 1}
    <2>1. vbase' = LastChain(P) /\ vstart' = vstart /\ vrows' = vrows /\ vpc' = "hash"
      BY <1>4 DEF VerifyFetchPrior
    <2>2. BaseBefore'
      <3>1. CASE vstart = 1
        <4>1. P = {}
          BY <3>1
        <4> QED
          BY <2>1, <3>1, <4>1 DEF BaseBefore, LastChain
      <3>2. CASE vstart # 1
        <4>1. vstart - 1 \in 1..counter
          BY <1>1, <2>0, <3>2
        <4>2. PICK q \in rows : q.seq = vstart - 1
          BY <1>1, <4>1 DEF ChainTo
        <4>3. P = {q}
          BY <1>1, <3>2, <4>2 DEF ChainTo
        <4>4. LastChain(P) = q.chain
          <5>1. (CHOOSE r \in {q} : \A x \in {q} : x.seq <= r.seq) = q
            BY <1>1, <4>2
          <5> QED
            BY <4>3, <5>1 DEF LastChain
        <4> QED
          BY <1>1, <2>1, <4>2, <4>4 DEF BaseBefore
      <3> QED
        BY <3>1, <3>2
    <2>3. Stretch'
      BY <1>1, <1>4, <2>1 DEF VerifyFetchPrior, Stretch
    <2> QED
      BY <1>1, <1>4, <2>2, <2>3 DEF VerifyFetchPrior
  <1>5. CASE VerifyHashes
    <2>1. Mismatches = {}
      BY <1>5, NoMismatch DEF VerifyHashes
    <2> QED
      BY <1>1, <1>5, <2>1 DEF VerifyHashes
  <1>6. CASE VerifyFetchCounter
    BY <1>1, <1>6 DEF VerifyFetchCounter
  <1>7. CASE VerifyFetchMax
    BY <1>1, <1>7 DEF VerifyFetchMax
  <1>8. CASE VerifyAlarm
    BY <1>1, <1>8 DEF VerifyAlarm
  <1> QED
    BY <1>2, <1>3, <1>4, <1>5, <1>6, <1>7, <1>8 DEF VerifyNext

LEMMA ChainStep ==
    ASSUME TypeInv, LogInv, ChainInv, [Next]_vars
    PROVE  ChainInv'
  <1> SUFFICES ASSUME dropped' = {} PROVE gone' = {} /\ VerifyInv'
    BY DEF ChainInv
  <1>1. TypeInv'
    BY TypeStep
  <1>2. dropped = {} /\ ~RetentionDrop
    BY DEF Next, vars, retentionVars, RetentionNext, AnchorTick, RetentionCheck,
           RetentionAnchored, RetentionDrop, RetentionDropFails
  <1>3. gone = {} /\ VerifyInv
    BY <1>2 DEF ChainInv
  <1>4. ASSUME [EventLogNext]_logVars, UNCHANGED verifyVars PROVE gone' = {} /\ VerifyInv'
    <2>1. Grows
      BY <1>4, AppendTypes DEF TypeInv
    <2> QED
      BY <1>1, <1>3, <1>4, <2>1, VerifyGrows DEF Grows
  <1>5. ASSUME VerifyNext PROVE gone' = {} /\ VerifyInv'
    <2>1. CASE UNCHANGED logVars
      BY <1>3, <1>5, <2>1, VerifySteps DEF logVars
    <2>2. CASE VerifyAlarm
      BY <1>3, <2>2 DEF VerifyAlarm, VerifyInv, logVars
    <2> QED
      BY <1>5, <2>1, <2>2, QueryTypes DEF VerifyNext, TypeInv
  <1>6. ASSUME RetentionNext, UNCHANGED verifyVars PROVE gone' = {} /\ VerifyInv'
    <2>1. UNCHANGED logVars
      BY <1>2, <1>6 DEF RetentionNext, AnchorTick, RetentionCheck, RetentionAnchored,
             RetentionDropFails
    <2> QED
      BY <1>4, <1>6, <2>1
  <1> QED
    BY <1>4, <1>5, <1>6 DEF Next, vars

\* Verification never accuses a log that only append_event wrote, whatever is
\* committed between its queries and wherever it starts.
THEOREM NoFalseBreak == Spec => []NoBreakWithoutDrop
  <1>1. Init => ChainInv
    BY DEF Init, EventLogInit, VerifyInit, VerifyInv, ChainInv
  <1>2. TypeInv /\ LogInv /\ ChainInv /\ [Next]_vars => ChainInv'
    BY ChainStep
  <1>3. ChainInv => NoBreakWithoutDrop
    BY DEF ChainInv, VerifyInv, NoBreakWithoutDrop
  <1> QED
    BY <1>1, <1>2, <1>3, LogAlways, TypesKept, PTL DEF Spec
=============================================================================
