----------------------------- MODULE Shredding ------------------------------
(***************************************************************************)
(* shred_memory (nce/orchestrators/memory.py), which destroys a memory's    *)
(* key and derivatives, and the cron job that recomputes memories.embedding *)
(* in place (nce/reembedding_worker.py).  The job reads rows, keys and      *)
(* documents in separate transactions and writes the vectors back by id.    *)
(***************************************************************************)
EXTENDS MemoryVectors

CONSTANTS
    SweepBatch,      \* REEMBED_BATCH_SIZE
    MaxSweepFaults   \* bound: failed queries and failed sweeps

ASSUME SweepAssumption == SweepBatch \in Nat \ {0} /\ MaxSweepFaults \in Nat

VARIABLES
    sweep,       \* the state of the cron job's run
    sweepFaults

sweepVars == <<sweep, sweepFaults>>

IdleSweep == [pc |-> "idle", cursor |-> 0, last |-> 0, batch |-> {}, keys |-> {},
              got |-> [m \in Memories |-> "none"]]

ShreddingInit == sweep = IdleSweep /\ sweepFaults = 0

-----------------------------------------------------------------------------
\* Mutant: the wrapped key is left on the row.
ShredCommit_KeepsKey(m) ==
    /\ m \in rows
    /\ shred[m] # "durable"
    /\ UNCHANGED dek
    /\ vec' = [vec EXCEPT ![m] = "none"]
    /\ emb' = [emb EXCEPT ![m] = [k \in Models |-> "none"]]
    /\ shred' = [shred EXCEPT ![m] = "durable"]
    /\ UNCHANGED <<rows, doc, stamped, sweepVars>>

\* The durable phase, one transaction.  Calling it again is legal.
ShredCommit(m) ==
    /\ m \in rows
    /\ shred[m] # "durable"
    /\ dek' = dek \ {m}
    /\ vec' = [vec EXCEPT ![m] = "none"]
    /\ emb' = [emb EXCEPT ![m] = [k \in Models |-> "none"]]
    /\ shred' = [shred EXCEPT ![m] = "durable"]
    /\ UNCHANGED <<rows, doc, stamped, sweepVars>>

\* The best-effort phase: the tombstone over the episode, which may fail.
Tombstone(m) ==
    /\ shred[m] = "durable"
    /\ shred' = [shred EXCEPT ![m] = "done"]
    /\ doc' \in {doc, [doc EXCEPT ![m] = IF @ \in {"plain", "cipher"} THEN "tombstone" ELSE @]}
    /\ UNCHANGED <<rows, dek, vec, stamped, emb, sweepVars>>

-----------------------------------------------------------------------------
\* ReembeddingWorker._run_memories_phase

SweepFault == sweepFaults < MaxSweepFaults /\ sweepFaults' = sweepFaults + 1

Stale == {m \in rows : vec[m] # "none" /\ m \notin stamped}

\* The next batch after the run's own cursor; none ends the run.
FetchStale ==
    LET left == {m \in Stale : m > sweep.cursor}
    IN  /\ sweep.pc = "idle"
        /\ \/ left = {} /\ sweep' = IdleSweep
           \/ \E last \in left :
                 /\ EndsBatch(left, SweepBatch, last)
                 /\ sweep' = [sweep EXCEPT !.pc = "keys", !.last = last, !.batch = UpTo(left, last)]
        /\ UNCHANGED <<vectorVars, sweepFaults>>

FetchKeys ==
    /\ sweep.pc = "keys"
    /\ \/ sweep' = [sweep EXCEPT !.pc = "docs", !.keys = dek \cap sweep.batch]
          /\ UNCHANGED sweepFaults
       \/ sweep' = [sweep EXCEPT !.pc = "docs", !.keys = {}] /\ SweepFault
    /\ UNCHANGED vectorVars

\* Without a text a row falls back on its name and path, if it has any.
FallbackText(m) == IF m \in Named THEN "meta" ELSE "none"

\* A key that cannot be unwrapped skips the row.
TextOf(m) ==
    IF doc[m] = "cipher" /\ m \in sweep.keys \cap Unreadable THEN "none"
    ELSE LET t == IF doc[m] = "code" THEN "plain" ELSE Decrypt(m, doc[m], m \in sweep.keys)
         IN  IF t = "none" THEN FallbackText(m) ELSE t

\* The texts of the batch, without the documents the query did not return.
Resolved(lost) ==
    sweep' = [sweep EXCEPT !.pc = "write", !.keys = {},
       !.got = [m \in Memories |-> IF m \notin sweep.batch THEN "none"
                                   ELSE IF m \in lost THEN FallbackText(m) ELSE TextOf(m)]]

\* An error of the query on MongoDB is logged: the documents not read by then
\* count as missing.
ResolveTexts ==
    /\ sweep.pc = "docs"
    /\ \/ Resolved({}) /\ UNCHANGED sweepFaults
       \/ SweepFault /\ \E lost \in SUBSET sweep.batch : Resolved(lost)
    /\ UNCHANGED vectorVars

\* Mutant: the vector is replaced, the model id is not.
UpdateBatch_Unstamped ==
    LET done == {m \in Memories : sweep.got[m] # "none"}
    IN  /\ sweep.pc = "write"
        /\ vec' = [m \in Memories |-> IF m \in done THEN sweep.got[m] ELSE vec[m]]
        /\ sweep' = [IdleSweep EXCEPT !.cursor = sweep.last]
        /\ UNCHANGED <<rows, doc, dek, stamped, emb, shred, sweepFaults>>

\* Mutant: the batch's cursor is one past its last row.
UpdateBatch_PastEnd ==
    LET done == {m \in Memories : sweep.got[m] # "none"}
    IN  /\ sweep.pc = "write"
        /\ vec' = [m \in Memories |-> IF m \in done THEN sweep.got[m] ELSE vec[m]]
        /\ stamped' = stamped \cup done
        /\ sweep' = [IdleSweep EXCEPT !.cursor = sweep.last + 1]
        /\ UNCHANGED <<rows, doc, dek, emb, shred, sweepFaults>>

\* UPDATE memories ... WHERE id, whatever has become of the row, and the
\* run's cursor.
UpdateBatch ==
    LET done == {m \in Memories : sweep.got[m] # "none"}
    IN  /\ sweep.pc = "write"
        /\ vec' = [m \in Memories |-> IF m \in done THEN sweep.got[m] ELSE vec[m]]
        /\ stamped' = stamped \cup done
        /\ sweep' = [IdleSweep EXCEPT !.cursor = sweep.last]
        /\ UNCHANGED <<rows, doc, dek, emb, shred, sweepFaults>>

\* The run is closed as failed or paused, or the process dies: the next run
\* starts with a fresh cursor.
SweepFails ==
    /\ sweep # IdleSweep
    /\ SweepFault
    /\ sweep' = IdleSweep
    /\ UNCHANGED vectorVars

SweepStep == FetchStale \/ FetchKeys \/ ResolveTexts \/ UpdateBatch

ShreddingNext ==
    \/ \E m \in Memories : ShredCommit(m) \/ Tombstone(m)
    \/ SweepStep \/ SweepFails

SweepTypeOK ==
    /\ sweep \in [pc : {"idle", "keys", "docs", "write"}, cursor : {0} \cup Memories,
                  last : {0} \cup Memories, batch : SUBSET Memories, keys : SUBSET Memories,
                  got : [Memories -> Contents]]
    /\ sweepFaults \in 0..MaxSweepFaults
=============================================================================
