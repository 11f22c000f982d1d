------------------------------ MODULE EventLog ------------------------------
(***************************************************************************)
(* append_event of nce/event_log.py: concurrent PG transactions that append *)
(* signed, hash-chained events to the log of one namespace.  Namespaces     *)
(* share nothing, so one is enough.                                         *)
(*                                                                          *)
(* A transaction may append several events.  Each append reads the clock,   *)
(* bumps the namespace's row of event_sequences (which locks that row until *)
(* the transaction ends), reads the chain hash of the newest event, and     *)
(* inserts its own.  SHA-256 is taken as injective: a chain hash is the     *)
(* pair of the event's content and the previous chain hash.  Signatures,    *)
(* parameters and parents are part of the content that is not told apart.   *)
(***************************************************************************)
EXTENDS Integers

CONSTANTS
    Txs,      \* transactions that call append_event
    NoTx,     \* none of them (a free lock, an event of the verification tick)
    Replays,  \* transactions of a deterministic replay: historic occurred_at
    MaxSeq,   \* bound: events in the log
    MaxMonth  \* bound: months that pass

ASSUME EventLogAssumption ==
    /\ NoTx \notin Txs
    /\ Replays \subseteq Txs
    /\ MaxSeq \in Nat /\ MaxMonth \in Nat

VARIABLES
    counter,  \* event_sequences.seq, committed
    rows,     \* event_log, committed
    gone,     \* its rows whose partition was dropped: history, nobody reads it
    holder,   \* transaction that holds the lock on the counter row
    tpc,      \* step of each transaction
    tat,      \* occurred_at of the append in progress
    tseq,     \* event_sequences.seq as the transaction left it
    tprev,    \* previous_chain_hash it read
    twrites,  \* rows it inserted, uncommitted
    now       \* the current month: event_log is partitioned by it

logVars == <<counter, rows, gone, holder, tpc, tat, tseq, tprev, twrites, now>>

Months == 0..MaxMonth

\* 32 zero bytes.
Genesis == <<>>

\* The signed fields of an event.
Content(r) == <<r.tx, r.seq, r.at>>

ChainHash(content, prev) == <<content, prev>>

\* SELECT chain_hash ... ORDER BY event_seq DESC LIMIT 1
LastChain(S) ==
    IF S = {} THEN Genesis
    ELSE (CHOOSE r \in S : \A q \in S : q.seq <= r.seq).chain

EventLogInit ==
    /\ counter = 0
    /\ rows = {} /\ gone = {}
    /\ holder = NoTx
    /\ tpc = [t \in Txs |-> "idle"]
    /\ tat = [t \in Txs |-> 0]
    /\ tseq = [t \in Txs |-> 0]
    /\ tprev = [t \in Txs |-> Genesis]
    /\ twrites = [t \in Txs |-> {}]
    /\ now = 0

-----------------------------------------------------------------------------
\* _fetch_db_clock, or the source event's time in a deterministic replay.
FetchDbClock(t) ==
    /\ tpc[t] \in {"idle", "open"}
    /\ \E m \in (IF t \in Replays THEN 0..now ELSE {now}) : tat' = [tat EXCEPT ![t] = m]
    /\ tpc' = [tpc EXCEPT ![t] = "clock"]
    /\ UNCHANGED <<counter, rows, gone, holder, tseq, tprev, twrites, now>>

\* The upsert waits for the row's lock and keeps it until the transaction ends.
NextEventSeq(t) ==
    /\ tpc[t] = "clock"
    /\ holder \in {NoTx, t}
    /\ LET seq == IF holder = t THEN tseq[t] ELSE counter
       IN  seq < MaxSeq /\ tseq' = [tseq EXCEPT ![t] = seq + 1]
    /\ holder' = t
    /\ tpc' = [tpc EXCEPT ![t] = "seq"]
    /\ UNCHANGED <<counter, rows, gone, tat, tprev, twrites, now>>

FetchPreviousChainHash(t) ==
    /\ tpc[t] = "seq"
    /\ tprev' = [tprev EXCEPT ![t] = LastChain(rows \cup twrites[t])]
    /\ tpc' = [tpc EXCEPT ![t] = "prev"]
    /\ UNCHANGED <<counter, rows, gone, holder, tat, tseq, twrites, now>>

NewRow(t) ==
    LET content == <<t, tseq[t], tat[t]>>
    IN  [seq |-> tseq[t], tx |-> t, at |-> tat[t], chain |-> ChainHash(content, tprev[t])]

\* Mutant: the caller forgot the transaction, every insert commits on its own.
InsertEvent_Autocommit(t) ==
    /\ tpc[t] = "prev"
    /\ rows' = rows \cup {NewRow(t)}
    /\ counter' = tseq[t]
    /\ holder' = NoTx
    /\ tpc' = [tpc EXCEPT ![t] = "idle"]
    /\ UNCHANGED <<gone, tat, tseq, tprev, twrites, now>>

InsertEvent(t) ==
    /\ tpc[t] = "prev"
    /\ twrites' = [twrites EXCEPT ![t] = @ \cup {NewRow(t)}]
    /\ tpc' = [tpc EXCEPT ![t] = "open"]
    /\ UNCHANGED <<counter, rows, gone, holder, tat, tseq, tprev, now>>

\* The transaction is over: its own copies are gone.
Forget(t) ==
    /\ tpc' = [tpc EXCEPT ![t] = "done"]
    /\ tat' = [tat EXCEPT ![t] = 0]
    /\ tseq' = [tseq EXCEPT ![t] = 0]
    /\ tprev' = [tprev EXCEPT ![t] = Genesis]
    /\ twrites' = [twrites EXCEPT ![t] = {}]

Commit(t) ==
    /\ tpc[t] = "open"
    /\ rows' = rows \cup twrites[t]
    /\ counter' = tseq[t]
    /\ holder' = NoTx
    /\ Forget(t)
    /\ UNCHANGED <<gone, now>>

\* Mutant: the counter behaves like a PG sequence and survives the rollback.
Abort_KeepsCounter(t) ==
    /\ tpc[t] \notin {"idle", "done"}
    /\ counter' = IF holder = t THEN tseq[t] ELSE counter
    /\ holder' = IF holder = t THEN NoTx ELSE holder
    /\ Forget(t)
    /\ UNCHANGED <<rows, gone, now>>

\* Any error of the caller or the server: PG undoes the counter and the rows.
Abort(t) ==
    /\ tpc[t] \notin {"idle", "done"}
    /\ holder' = IF holder = t THEN NoTx ELSE holder
    /\ Forget(t)
    /\ UNCHANGED <<counter, rows, gone, now>>

\* A new month.  A transaction lives far less than a month.
NextMonth ==
    /\ now < MaxMonth
    /\ \A t \in Txs : tpc[t] \in {"idle", "done"}
    /\ now' = now + 1
    /\ UNCHANGED <<counter, rows, gone, holder, tpc, tat, tseq, tprev, twrites>>

AppendStep(t) ==
    \/ FetchDbClock(t) \/ NextEventSeq(t) \/ FetchPreviousChainHash(t)
    \/ InsertEvent(t) \/ Commit(t) \/ Abort(t)

EventLogNext == NextMonth \/ \E t \in Txs : AppendStep(t)

-----------------------------------------------------------------------------
\* Every event ever committed.
Everything == rows \cup gone

EventLogTypeOK ==
    /\ counter \in 0..MaxSeq
    /\ \A r \in Everything :
         r.seq \in 1..MaxSeq /\ r.tx \in Txs \cup {NoTx} /\ r.at \in Months
    /\ holder \in Txs \cup {NoTx}
    /\ tpc \in [Txs -> {"idle", "clock", "seq", "prev", "open", "done"}]
    /\ tat \in [Txs -> Months]
    /\ tseq \in [Txs -> 0..MaxSeq]
    /\ now \in Months

\* Event n of S may carry on from hash c: that of an earlier event, or the
\* genesis sentinel, with nothing in between but the dropped events D.
Precedes(S, D, n, c) ==
    \/ c = Genesis /\ \A p \in S : p.seq < n => p \in D
    \/ \E q \in S :
         /\ q.seq < n /\ c = q.chain
         /\ \A p \in S : q.seq < p.seq /\ p.seq < n => p \in D

Linked(S, D) ==
    \A r \in S : \E c \in {Genesis} \cup {q.chain : q \in S} :
        r.chain = ChainHash(Content(r), c) /\ Precedes(S, D, r.seq, c)

\* Committed events are numbered 1, 2, ... without gap or duplicate up to the
\* counter, and form one chain, although transactions overlap, append several
\* events and abort after having bumped the counter: an event hashes the one
\* before it, and skips only events whose partition was dropped
\* (event_log.py:1003, 1234).
GaplessChain ==
    /\ {r.seq : r \in Everything} = 1..counter
    /\ \A r, q \in Everything : r.seq = q.seq => r = q
    /\ Linked(Everything, gone)

\* Refinement: overlapping transactions look as if each had appended all its
\* events at one instant.
Serial == INSTANCE AppendOnlyLog WITH
    Tick <- NoTx,
    history <- [i \in 1..counter |->
                  LET r == CHOOSE r \in Everything : r.seq = i IN [tx |-> r.tx, at |-> r.at]]

\* Each committing transaction is one atomic append of the abstract log, and
\* nothing else changes what has been logged.
SerialAppends == Serial!Spec
=============================================================================
