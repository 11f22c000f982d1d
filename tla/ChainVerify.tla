---------------------------- MODULE ChainVerify -----------------------------
(***************************************************************************)
(* _chain_verification_tick of nce/cron.py and verify_merkle_chain of       *)
(* nce/event_log.py, for one namespace.  The tick runs in a READ COMMITTED  *)
(* transaction: each of its queries sees the commits before that query.     *)
(***************************************************************************)
EXTENDS EventLog, Sequences

CONSTANT Depth  \* NCE_CHAIN_VERIFY_STARTUP_DEPTH, 0 for the whole chain

ASSUME DepthAssumption == Depth \in Nat

VARIABLES
    vpc,       \* next query of the tick
    vstart,    \* start_seq
    vrows,     \* rows it fetched
    vbase,     \* chain hash before the first of them
    vcounter,  \* event_sequences.seq as it read it
    broken,    \* first_break of the last verification: {} or {seq}
    valid,     \* verdict of the last verification
    alarms     \* seq and first_break of the chain_verification_failed events

verifyVars == <<vpc, vstart, vrows, vbase, vcounter, broken, valid, alarms>>

MaxOf(S) == CHOOSE m \in S \cup {0} : \A n \in S : n <= m

MaxEventSeq == MaxOf({r.seq : r \in rows})

VerifyInit ==
    /\ vpc = "idle" /\ vstart = 1 /\ vrows = {} /\ vbase = Genesis /\ vcounter = 0
    /\ broken = {} /\ valid = TRUE /\ alarms = <<>>

\* Mutant: start_seq is not kept at or above 1.
VerifyBegin_Unclamped ==
    /\ vpc = "idle"
    /\ vstart' = MaxEventSeq - Depth + 1
    /\ vpc' = "rows"
    /\ UNCHANGED <<vrows, vbase, vcounter, broken, valid, alarms, logVars>>

VerifyBegin ==
    /\ vpc = "idle"
    /\ vstart' = IF Depth = 0 THEN 1 ELSE MaxOf({1, MaxEventSeq - Depth + 1})
    /\ vpc' = "rows"
    /\ UNCHANGED <<vrows, vbase, vcounter, broken, valid, alarms, logVars>>

VerifyFetchRows ==
    /\ vpc = "rows"
    /\ vrows' = {r \in rows : r.seq >= vstart}
    /\ vpc' = "prior"
    /\ UNCHANGED <<vstart, vbase, vcounter, broken, valid, alarms, logVars>>

\* Mutant: every check starts from the genesis sentinel.
VerifyFetchPrior_Genesis ==
    /\ vpc = "prior"
    /\ vbase' = Genesis
    /\ vpc' = "hash"
    /\ UNCHANGED <<vstart, vrows, vcounter, broken, valid, alarms, logVars>>

\* Only asked for when start_seq > 1; a missing row leaves the genesis sentinel.
VerifyFetchPrior ==
    /\ vpc = "prior"
    /\ vbase' = LastChain({r \in rows : vstart > 1 /\ r.seq = vstart - 1})
    /\ vpc' = "hash"
    /\ UNCHANGED <<vstart, vrows, vcounter, broken, valid, alarms, logVars>>

\* Up to the first break, recomputed and stored hashes agree, so the hash the
\* loop carries into a row is the stored one of the row fetched before it.
CarriedHash(r) ==
    LET before == {q \in vrows : q.seq < r.seq}
    IN  IF before = {} THEN vbase ELSE LastChain(before)

Mismatches == {r.seq : r \in {q \in vrows : q.chain # ChainHash(Content(q), CarriedHash(q))}}

\* A check that does not start at 1 ends here.  The rows are not used again.
VerifyHashes ==
    /\ vpc = "hash"
    /\ broken' = {m \in Mismatches : \A n \in Mismatches : m <= n}
    /\ valid' = (Mismatches = {})
    /\ vpc' = IF vstart = 1 THEN "counter" ELSE IF Mismatches = {} THEN "idle" ELSE "alarm"
    /\ vstart' = 1 /\ vrows' = {} /\ vbase' = Genesis
    /\ UNCHANGED <<vcounter, alarms, logVars>>

VerifyFetchCounter ==
    /\ vpc = "counter"
    /\ vcounter' = counter
    /\ vpc' = "max"
    /\ UNCHANGED <<vstart, vrows, vbase, broken, valid, alarms, logVars>>

VerifyFetchMax ==
    /\ vpc = "max"
    /\ valid' = (valid /\ vcounter = MaxEventSeq)
    /\ vpc' = IF valid' THEN "idle" ELSE "alarm"
    /\ vcounter' = 0
    /\ UNCHANGED <<vstart, vrows, vbase, broken, alarms, logVars>>

\* Mutant: the failure is recorded by every tick that finds it.
AlreadyRecorded_Never == FALSE

\* params ->> 'first_break' = str(first_break): a NULL never equals 'None', so
\* a failure without first_break is never found; nor is one that retention dropped.
AlreadyRecorded ==
    \E i \in 1..Len(alarms) :
        /\ broken # {} /\ alarms[i].break = broken
        /\ \E r \in rows : r.seq = alarms[i].seq

\* The tick appends a chain_verification_failed event unless one is recorded,
\* and commits.  Under the counter's lock its append is one step.
VerifyAlarm ==
    /\ vpc = "alarm"
    /\ vpc' = "idle"
    /\ IF AlreadyRecorded
       THEN UNCHANGED <<alarms, logVars>>
       ELSE /\ holder = NoTx
            /\ counter < MaxSeq
            /\ counter' = counter + 1
            /\ LET content == <<NoTx, counter + 1, now>>
               IN  rows' = rows \cup {[seq |-> counter + 1, tx |-> NoTx, at |-> now,
                                       chain |-> ChainHash(content, LastChain(rows))]}
            /\ alarms' = Append(alarms, [seq |-> counter + 1, break |-> broken])
            /\ UNCHANGED <<gone, holder, tpc, tat, tseq, tprev, twrites, now>>
    /\ UNCHANGED <<vstart, vrows, vbase, vcounter, broken, valid>>

VerifyNext ==
    \/ VerifyBegin \/ VerifyFetchRows \/ VerifyFetchPrior \/ VerifyHashes
    \/ VerifyFetchCounter \/ VerifyFetchMax \/ VerifyAlarm

VerifyTypeOK ==
    /\ vpc \in {"idle", "rows", "prior", "hash", "counter", "max", "alarm"}
    /\ vstart \in 1..(MaxSeq + 1)
    /\ \A r \in vrows : r.seq \in 1..MaxSeq
    /\ vcounter \in 0..MaxSeq
    /\ broken \subseteq 1..MaxSeq
    /\ valid \in BOOLEAN
    /\ alarms \in Seq([seq : 1..MaxSeq, break : SUBSET (1..MaxSeq)])
=============================================================================
