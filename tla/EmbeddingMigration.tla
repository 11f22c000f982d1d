------------------------- MODULE EmbeddingMigration -------------------------
(***************************************************************************)
(* The lifecycle of an embedding migration (nce/orchestrators/migration.py) *)
(* and the loop that carries it out (nce/re_embedder.py, one per MCP        *)
(* server).  Administrators' calls read the migration's status without a    *)
(* lock and write in a later statement; the loop checks the status only     *)
(* when it picks the migration.                                             *)
(***************************************************************************)
EXTENDS MemoryVectors

CONSTANTS
    MaxMigrations,  \* bound: migrations ever started
    Admins,         \* concurrent administrators' requests
    Loops,          \* re_embedder loops
    BatchSize,      \* LIMIT of a batch
    MaxLoopFaults   \* bound: errors and restarts of the loops

ASSUME MigrationAssumption ==
    /\ MaxMigrations \in Nat
    /\ BatchSize \in Nat \ {0}
    /\ MaxLoopFaults \in Nat

Migrations == 1..MaxMigrations

VARIABLES
    modelStatus, \* embedding_models.status
    status,      \* embedding_migrations.status; unused, or starting (uncommitted)
    target,      \* target_model_id
    cursor,      \* last_memory_id, 0 for NULL
    nodesDone,   \* last_node_id is at the end
    before,      \* rows that existed when the migration was started
    admin,       \* the statement an administrator's transaction has reached
    storing,     \* model lists read by store_memory calls in progress
    loop,        \* the pass of each re_embedder loop
    loopFaults

migrationVars == <<modelStatus, status, target, cursor, nodesDone, before, admin,
                   storing, loop, loopFaults>>

control == <<modelStatus, status, target, before, admin, storing>>

IdleAdmin == [op |-> "idle", mig |-> 0]

NotStoring == [on |-> FALSE, models |-> {}]

NoText == [m \in Memories |-> "none"]

\* A pass at the point pc, with the batch of migration g that ends with last.
Pass(pc, g, last, batch) ==
    [pc |-> pc, mig |-> g, last |-> last, batch |-> batch, got |-> NoText]

IdleLoop == Pass("idle", 0, 0, {})

MigrationInit ==
    /\ modelStatus = [k \in Models |-> IF k = ActiveModel THEN "active" ELSE "retired"]
    /\ status = [g \in Migrations |-> "unused"]
    /\ target = [g \in Migrations |-> ActiveModel]
    /\ cursor = [g \in Migrations |-> 0]
    /\ nodesDone = [g \in Migrations |-> FALSE]
    /\ before = [g \in Migrations |-> {}]
    /\ admin = [a \in Admins |-> IdleAdmin]
    /\ storing = [m \in Memories |-> NotStoring]
    /\ loop = [w \in Loops |-> IdleLoop]
    /\ loopFaults = 0

-----------------------------------------------------------------------------
\* Administrators.  Migrations are numbered in the order of started_at.

Live(g) == status[g] \in {"running", "validating"}

\* INSERT ... WHERE NOT EXISTS: sees committed rows only.
StartCheck(a, g, k) ==
    /\ admin[a] = IdleAdmin
    /\ status[g] = "unused"
    /\ \A h \in Migrations : h < g => status[h] # "unused"
    /\ \A h \in Migrations : ~Live(h)
    /\ admin' = [admin EXCEPT ![a] = [op |-> "start", mig |-> g]]
    /\ status' = [status EXCEPT ![g] = "starting"]
    /\ target' = [target EXCEPT ![g] = k]
    /\ UNCHANGED <<modelStatus, cursor, nodesDone, before, storing, loop, loopFaults>>

StartCommit(a) ==
    LET g == admin[a].mig
    IN  /\ admin[a].op = "start"
        /\ admin' = [admin EXCEPT ![a] = IdleAdmin]
        /\ status' = [status EXCEPT ![g] = "running"]
        /\ modelStatus' = [modelStatus EXCEPT ![target[g]] = "migrating"]
        /\ before' = [before EXCEPT ![g] = rows]
        /\ UNCHANGED <<target, cursor, nodesDone, storing, loop, loopFaults>>

\* VALID_TRANSITIONS
ValidTransitions ==
    [s \in {"running", "validating"} |->
        IF s = "running" THEN {"validating", "aborted"} ELSE {"committed", "aborted"}]

\* The status check of commit_migration (after its quality gate has passed or
\* been overridden) and of abort_migration.
StatusCheck(a, g, to) ==
    /\ admin[a] = IdleAdmin
    /\ Live(g) /\ to \in ValidTransitions[status[g]]
    /\ admin' = [admin EXCEPT ![a] = [op |-> to, mig |-> g]]
    /\ UNCHANGED <<modelStatus, status, target, cursor, nodesDone, before, storing,
                   loop, loopFaults>>

\* The updates of commit_migration, at its COMMIT.
CommitWrite(a) ==
    LET g == admin[a].mig
    IN  /\ admin[a].op = "committed"
        /\ admin' = [admin EXCEPT ![a] = IdleAdmin]
        /\ modelStatus' = [k \in Models |->
              IF k = target[g] THEN "active"
              ELSE IF modelStatus[k] = "active" THEN "retired" ELSE modelStatus[k]]
        /\ status' = [status EXCEPT ![g] = "committed"]
        /\ UNCHANGED <<target, cursor, nodesDone, before, storing, loop, loopFaults>>

\* The updates of abort_migration, at its COMMIT.
AbortWrite(a) ==
    LET g == admin[a].mig
    IN  /\ admin[a].op = "aborted"
        /\ admin' = [admin EXCEPT ![a] = IdleAdmin]
        /\ modelStatus' = IF modelStatus[target[g]] = "migrating"
                          THEN [modelStatus EXCEPT ![target[g]] = "active"] ELSE modelStatus
        /\ status' = [status EXCEPT ![g] = "aborted"]
        /\ UNCHANGED <<target, cursor, nodesDone, before, storing, loop, loopFaults>>

AdminNext ==
    /\ \E a \in Admins :
        \/ \E g \in Migrations : \E k \in Models : StartCheck(a, g, k)
        \/ \E g \in Migrations : \E to \in {"committed", "aborted"} : StatusCheck(a, g, to)
        \/ StartCommit(a) \/ CommitWrite(a) \/ AbortWrite(a)
    /\ UNCHANGED vectorVars

-----------------------------------------------------------------------------
\* store_memory, as far as vectors go: the document is written and the models
\* are listed by statements of their own before the row is inserted.

StoreBegin(m) ==
    /\ m \notin rows \cup CodeChunks
    /\ ~ storing[m].on
    /\ storing' = [storing EXCEPT ![m] = [on |-> TRUE,
          models |-> {k \in Models : modelStatus[k] \in {"active", "migrating"}}]]
    /\ doc' = [doc EXCEPT ![m] = StoredDoc(m)]
    /\ UNCHANGED <<rows, dek, vec, stamped, emb, shred, modelStatus, status, target, cursor,
                   nodesDone, before, admin, loop, loopFaults>>

StoreCommit(m) ==
    /\ storing[m].on
    /\ storing' = [storing EXCEPT ![m] = NotStoring]
    /\ rows' = rows \cup {m}
    /\ dek' = IF m \in Encrypted THEN dek \cup {m} ELSE dek
    /\ vec' = [vec EXCEPT ![m] = "plain"]
    /\ emb' = [emb EXCEPT ![m] =
                 [k \in Models |-> IF k \in storing[m].models THEN "plain" ELSE "none"]]
    /\ UNCHANGED <<doc, stamped, shred, modelStatus, status, target, cursor, nodesDone, before,
                   admin, loop, loopFaults>>

-----------------------------------------------------------------------------
\* run_re_embedding_worker

Move(w, pass) == loop' = [loop EXCEPT ![w] = pass]

\* Rows after the cursor of migration g.
Left(g) == {m \in rows : m > cursor[g]}

\* The query for the oldest running migration.
Picks(w, g) ==
    /\ loop[w].pc = "idle"
    /\ status[g] = "running"
    /\ \A h \in Migrations : h < g => status[h] # "running"

\* Mutant: the cursor is saved when the batch is read, not with its vectors.
PickBatch_SavesCursor(w, g) ==
    /\ Picks(w, g)
    /\ \E last \in Left(g) :
        /\ EndsBatch(Left(g), BatchSize, last)
        /\ cursor' = [cursor EXCEPT ![g] = last]
        /\ Move(w, Pass("docs", g, last, UpTo(Left(g), last)))
    /\ UNCHANGED <<control, nodesDone, loopFaults>>

\* The migration's next batch of memories.  The migration and the batch are two
\* reads of the code, taken as one: what happens to the migration in between is
\* as unseen as what happens right after them.
PickBatch(w, g) ==
    /\ Picks(w, g)
    /\ \E last \in Left(g) :
        /\ EndsBatch(Left(g), BatchSize, last)
        /\ Move(w, Pass("docs", g, last, UpTo(Left(g), last)))
    /\ UNCHANGED <<control, cursor, nodesDone, loopFaults>>

\* No memory is left: the nodes, then `validating'.
PickNodes(w, g) ==
    /\ Picks(w, g)
    /\ Left(g) = {}
    /\ Move(w, Pass(IF nodesDone[g] THEN "finish" ELSE "nodes", g, 0, {}))
    /\ UNCHANGED <<control, cursor, nodesDone, loopFaults>>

\* The episodes of the batch, then their keys, are read.
ReadDocs(w) ==
    /\ loop[w].pc = "docs"
    /\ Move(w, [loop[w] EXCEPT !.pc = "keys",
          !.got = [m \in Memories |-> IF m \in loop[w].batch THEN doc[m] ELSE "none"]])
    /\ UNCHANGED <<control, cursor, nodesDone, loopFaults>>

\* keys is the set of wrapped keys the query returned.
TextsWith(w, keys) ==
    Move(w, [loop[w] EXCEPT !.pc = "write",
       !.got = [m \in Memories |-> Decrypt(m, loop[w].got[m], m \in keys)]])

ReadKeys(w) ==
    /\ loop[w].pc = "keys"
    /\ TextsWith(w, dek)
    /\ UNCHANGED <<control, cursor, nodesDone, loopFaults>>

LoopFault == loopFaults < MaxLoopFaults /\ loopFaults' = loopFaults + 1

\* The query for the keys fails: the batch is read as legacy plaintext.
KeysFail(w) ==
    /\ loop[w].pc = "keys"
    /\ LoopFault
    /\ TextsWith(w, {})
    /\ UNCHANGED <<control, cursor, nodesDone>>

\* Mutant: a batch leaves the cursor where it was.
WriteBatch_KeepsCursor(w) ==
    LET g == loop[w].mig
        got == loop[w].got
    IN  /\ loop[w].pc = "write"
        /\ emb' = [m \in Memories |-> [k \in Models |->
              IF k = target[g] /\ emb[m][k] = "none" THEN got[m] ELSE emb[m][k]]]
        /\ Move(w, IdleLoop)
        /\ UNCHANGED <<control, cursor, nodesDone, loopFaults>>

\* One transaction inserts the vectors (ON CONFLICT DO NOTHING) and moves the
\* cursor; a batch without any text writes nothing, the cursor included.
WriteBatch(w) ==
    LET g == loop[w].mig
        got == loop[w].got
    IN  /\ loop[w].pc = "write"
        /\ \/ /\ \E m \in Memories : got[m] # "none"
              /\ emb' = [m \in Memories |-> [k \in Models |->
                    IF k = target[g] /\ emb[m][k] = "none" THEN got[m] ELSE emb[m][k]]]
              /\ cursor' = [cursor EXCEPT ![g] = loop[w].last]
           \/ /\ \A m \in Memories : got[m] = "none"
              /\ UNCHANGED <<emb, cursor>>
        /\ Move(w, IdleLoop)
        /\ UNCHANGED <<control, nodesDone, loopFaults>>

\* The graph nodes, whose labels are always there, as one batch.
WriteNodes(w) ==
    /\ loop[w].pc = "nodes"
    /\ nodesDone' = [nodesDone EXCEPT ![loop[w].mig] = TRUE]
    /\ Move(w, IdleLoop)
    /\ UNCHANGED <<control, cursor, loopFaults>>

\* UPDATE ... SET status = 'validating' WHERE id, whatever the status is now.
MarkValidating(w) ==
    /\ loop[w].pc = "finish"
    /\ status' = [status EXCEPT ![loop[w].mig] = "validating"]
    /\ Move(w, IdleLoop)
    /\ UNCHANGED <<modelStatus, target, before, admin, storing, cursor, nodesDone, loopFaults>>

\* An error inside the pass is logged and the loop starts over, as does the
\* loop of a restarted server.
LoopFails(w) ==
    /\ loop[w].pc # "idle"
    /\ LoopFault
    /\ Move(w, IdleLoop)
    /\ UNCHANGED <<control, cursor, nodesDone>>

LoopStep(w) ==
    \/ /\ \/ \E g \in Migrations : PickBatch(w, g) \/ PickNodes(w, g)
          \/ ReadDocs(w) \/ ReadKeys(w) \/ WriteNodes(w) \/ MarkValidating(w)
       /\ UNCHANGED vectorVars
    \/ WriteBatch(w) /\ UNCHANGED <<rows, doc, dek, vec, stamped, shred>>

MigrationNext ==
    \/ AdminNext
    \/ \E m \in Memories : StoreBegin(m) \/ StoreCommit(m)
    \/ \E w \in Loops : LoopStep(w)
    \/ \E w \in Loops : (KeysFail(w) \/ LoopFails(w)) /\ UNCHANGED vectorVars

LoopPass == [pc : {"idle", "docs", "keys", "write", "nodes", "finish"}, mig : 0..MaxMigrations,
             last : {0} \cup Memories, batch : SUBSET Memories,
             got : [Memories -> Contents \cup Docs]]

MigrationTypeOK ==
    /\ modelStatus \in [Models -> {"active", "migrating", "retired"}]
    /\ status \in [Migrations -> {"unused", "starting", "running", "validating", "committed",
                                  "aborted"}]
    /\ target \in [Migrations -> Models]
    /\ cursor \in [Migrations -> {0} \cup Memories]
    /\ nodesDone \in [Migrations -> BOOLEAN]
    /\ before \in [Migrations -> SUBSET Memories]
    /\ admin \in [Admins -> [op : {"idle", "start", "committed", "aborted"}, mig : 0..MaxMigrations]]
    /\ storing \in [Memories -> [on : BOOLEAN, models : SUBSET Models]]
    /\ loop \in [Loops -> LoopPass]
    /\ loopFaults \in 0..MaxLoopFaults
=============================================================================
