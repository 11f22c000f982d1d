--------------------------- MODULE AppendOnlyLog ----------------------------
(***************************************************************************)
(* What the event log of a namespace promises its readers: a history that   *)
(* only ever grows at its end, one whole transaction at a time.             *)
(***************************************************************************)
EXTENDS Naturals, Sequences

CONSTANTS
    Txs,   \* transactions
    Tick   \* the verification tick

VARIABLE history  \* sequence of [tx, at] entries

Init == history = <<>>

\* Transaction t appends its events, all at once; it has no others.
AppendTx(t) ==
    /\ Len(history') > Len(history)
    /\ \A i \in 1..Len(history) : history'[i] = history[i] /\ history[i].tx # t
    /\ \A i \in (Len(history) + 1)..Len(history') : history'[i].tx = t

\* The tick records a failure.
AppendAlarm ==
    /\ Len(history') = Len(history) + 1
    /\ \A i \in 1..Len(history) : history'[i] = history[i]
    /\ history'[Len(history')].tx = Tick

Next == AppendAlarm \/ \E t \in Txs : AppendTx(t)

Spec == Init /\ [][Next]_history
=============================================================================
