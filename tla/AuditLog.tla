------------------------------ MODULE AuditLog ------------------------------
(***************************************************************************)
(* The event log of a namespace with everyone who reads and writes it:      *)
(* append_event, the chain verification tick, the anchor tick and the       *)
(* retention of old partitions.                                             *)
(***************************************************************************)
EXTENDS ChainVerify, EventRetention

vars == <<logVars, verifyVars, retentionVars>>

Init == EventLogInit /\ VerifyInit /\ RetentionInit

Next ==
    \/ EventLogNext /\ UNCHANGED <<verifyVars, retentionVars>>
    \/ VerifyNext /\ UNCHANGED retentionVars
    \/ RetentionNext /\ UNCHANGED verifyVars

Spec == Init /\ [][Next]_vars

TypeOK ==
    /\ EventLogTypeOK
    /\ VerifyTypeOK
    /\ RetentionTypeOK

\* run_partition_retention drops "ONLY when fully anchored": no event leaves the
\* database before an anchor covers it (garbage_collector.py:973).
OnlyAnchoredDropped == lost = {}

\* What does hold, although the check, the anchors and the DROP are steps of
\* different processes: an event dropped before an anchor covers it is one that
\* a deterministic replay wrote into the aged partition.  Events stamped with the
\* database clock never are (garbage_collector.py:1173).
LostOnlyToReplays == \A r \in lost : r.tx \in Replays

\* As long as no partition has been dropped, verification never finds a broken
\* hash in a log that only append_event wrote, wherever it starts and however
\* many transactions commit between its queries.
NoBreakWithoutDrop == dropped = {} => broken = {}

\* "Record the failure AT MOST ONCE per (namespace, first_break)": the log never
\* holds two chain_verification_failed events for one break, although each of
\* them makes the log longer, moves the depth the next tick starts from, and may
\* itself be dropped by retention.
BreakRecordedOnce ==
    \A i, j \in 1..Len(alarms) :
        /\ i < j /\ alarms[i].break = alarms[j].break /\ alarms[i].break # {}
        => ~ \E p, q \in rows : p.seq = alarms[i].seq /\ q.seq = alarms[j].seq
=============================================================================
