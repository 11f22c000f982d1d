--------------------------- MODULE EventRetention ---------------------------
(***************************************************************************)
(* The tamper anchor (_anchor_tick of nce/cron.py) and the retention of     *)
(* event_log partitions (run_partition_retention of                         *)
(* nce/garbage_collector.py), for one namespace.  Partition m holds the     *)
(* rows whose occurred_at is in month m.  Retention reads, decides and      *)
(* drops in separate steps.  A row that a replay writes for a month whose   *)
(* partition is gone goes to event_log_default, which is never dropped.     *)
(* The other namespaces of a shared partition can only keep it from being   *)
(* dropped, and the 30 days the code takes for a month only move the cutoff.*)
(***************************************************************************)
EXTENDS EventLog

CONSTANT RetentionMonths  \* NCE_EVENT_RETENTION_MONTHS

ASSUME RetentionAssumption == RetentionMonths \in Nat \ {0}

VARIABLES
    anchors,   \* max_seq of the anchor blobs in the WORM bucket
    rpc,       \* step of the retention pass
    rpart,     \* partition it looks at
    rmax,      \* that partition's max(event_seq), as read
    dropped,   \* partitions dropped
    lost       \* rows dropped without an anchor over them

retentionVars == <<anchors, rpc, rpart, rmax, dropped, lost>>

RetentionInit ==
    /\ anchors = {}
    /\ rpc = "idle" /\ rpart = 0 /\ rmax = 0
    /\ dropped = {} /\ lost = {}

Partition(m) == {r \in rows : r.at = m}

Greatest(S) == CHOOSE m \in S \cup {0} : \A n \in S : n <= m

\* The newest event's sequence number (and chain hash) goes to the bucket.
AnchorTick ==
    /\ rows # {}
    /\ anchors' = anchors \cup {Greatest({r.seq : r \in rows})}
    /\ anchors' # anchors
    /\ UNCHANGED <<rpc, rpart, rmax, dropped, lost, logVars>>

\* An aged partition: its end is at least RetentionMonths back.
RetentionCheck(m) ==
    /\ rpc = "idle"
    /\ m + RetentionMonths < now
    /\ m \notin dropped
    /\ rpart' = m
    /\ rmax' = Greatest({r.seq : r \in Partition(m)})
    /\ rpc' = IF Partition(m) = {} THEN "drop" ELSE "anchor"
    /\ UNCHANGED <<anchors, dropped, lost, logVars>>

\* Mutant: any anchor will do.
RetentionAnchored_AnyAnchor ==
    /\ rpc = "anchor"
    /\ rpc' \in IF anchors # {} THEN {"drop", "idle"} ELSE {"idle"}
    /\ rmax' = 0
    /\ UNCHANGED <<anchors, rpart, dropped, lost, logVars>>

\* Anchor coverage, then the archive manifest (whose failure keeps the partition).
RetentionAnchored ==
    /\ rpc = "anchor"
    /\ rpc' \in IF Greatest(anchors) >= rmax THEN {"drop", "idle"} ELSE {"idle"}
    /\ rmax' = 0
    /\ UNCHANGED <<anchors, rpart, dropped, lost, logVars>>

\* DROP TABLE waits for transactions that have written to the partition, and
\* takes whatever is in it by then.
RetentionDrop ==
    /\ rpc = "drop"
    /\ \A t \in Txs : \A r \in twrites[t] : r.at # rpart
    /\ rows' = rows \ Partition(rpart)
    /\ gone' = gone \cup Partition(rpart)
    /\ lost' = lost \cup {r \in Partition(rpart) : r.seq > Greatest(anchors)}
    /\ dropped' = dropped \cup {rpart}
    /\ rpc' = "idle"
    /\ UNCHANGED <<anchors, rpart, rmax>>
    /\ UNCHANGED <<counter, holder, tpc, tat, tseq, tprev, twrites, now>>

\* The DROP raises (a lock timeout, say): logged, and tried again by a later pass.
RetentionDropFails ==
    /\ rpc = "drop"
    /\ rpc' = "idle"
    /\ UNCHANGED <<anchors, rpart, rmax, dropped, lost, logVars>>

RetentionNext ==
    \/ AnchorTick \/ (\E m \in Months : RetentionCheck(m))
    \/ RetentionAnchored \/ RetentionDrop \/ RetentionDropFails

RetentionTypeOK ==
    /\ anchors \subseteq 1..MaxSeq
    /\ rpc \in {"idle", "anchor", "drop"}
    /\ rpart \in Months
    /\ rmax \in 0..MaxSeq
    /\ dropped \subseteq Months
    /\ lost \subseteq gone
=============================================================================
