# A TLA+ model of the Neuro-Cognitive Engine

NCE stores memories of agents in four stores (PostgreSQL, MongoDB, MinIO, Redis),
keeps a signed, hash-chained event log, and moves work between its parts through a
transactional outbox. This directory models the parts where that can go wrong: writes
that span stores, background jobs that race them, and logs that must stay
consistent whatever overlaps or dies.

## 1. The system and its parts

| Part | State | Operations | Interacts with | Hard because |
|---|---|---|---|---|
| `store_memory` / `store_artifact` saga (`nce/orchestrators/memory.py`) | MinIO object, Mongo document, `memories` row, `saga_execution_log` row | upload, quarantine, log start, Mongo insert, PG transaction, two log updates, rollback | event log and outbox (same PG transaction), recovery, collector | each call can fail, its answer can be lost, the task can die or be cancelled |
| Saga recovery (`nce/cron.py`) | Redis lock, list of overdue rows | list, verify, finalise | saga log, event log | several instances, lock TTL, races a slow saga |
| Garbage collector (`nce/garbage_collector.py`) | work lists in memory | forward, MinIO and reverse sweep | all three stores | reads first, deletes later |
| Outbox relay (`nce/outbox_relay.py`, `nce/events/bus.py`) | `outbox_events`, `processed_outbox_events`, `dead_letter_queue` | poll, deliver, mark, dead-letter, fire post-commit actions | every producer; handlers; RQ | concurrent relays, savepoints, crash around COMMIT |
| Event log (`nce/event_log.py`) | `event_log`, `event_sequences` | `append_event` | almost every writer | numbers and chain hashes allocated by overlapping transactions |
| Chain verification (`nce/cron.py`, `nce/event_log.py`) | verdict, `chain_verification_failed` events | verify from a depth, record | event log | several READ COMMITTED queries |
| Anchors and partition retention | WORM anchor blobs, partitions | anchor, check, archive, DROP | event log, verification, replay | check and DROP are separate |
| Embedding migration and re-embedding (`nce/orchestrators/migration.py`, `nce/re_embedder.py`, `nce/reembedding_worker.py`) | `embedding_migrations`, `embedding_models`, `memory_embeddings`, `memories.embedding`, cursors | start, commit, abort; batches by keyset; in-place sweep | `store_memory`, `shred_memory`, MongoDB | several loops and administrators, status checked long before it is written |
| Crypto-shredding (`shred_memory`, `nce/envelope.py`) | `wrapped_dek`, vectors, episode | durable transaction, best-effort tombstone | both re-embedders | batches in flight hold the text or its key |
| Inventory (`nce/vertical_modules/inventory`) | `inventory_items`, ledger, `goods_receipts`, `inventory_rma`, reservations | transfer, consume, receive, restock, dispose, reserve and release kits, reconcile | assets engine, graph mirror | many row locks per transaction, multi-transaction kits |
| Quotas (`nce/quotas.py`, `manage_quotas`) | `resource_quotas`, Redis counters | charge, roll back, flush, expire, set, delete, reset | every tool call | two stores for one number, timeouts, stale reads |
| Autonomy governor (`nce/autonomy/governor.py`, approval queue and tool switch in `nce/admin_handlers`, `_actor_trust_tick` in `nce/cron.py`) | `action_idempotency`, `action_approval_queue`, `actor_trust`, the hash `nce:tools:disabled` | governed call: switch, key, propose or execute, mark, audit; approve, reject; toggle; hourly recount | event log, handlers of the vertical modules | calls race for a key and roll back, administrators act on stale reads, two writers share the trust counters |
| Dead-letter queue, RQ tasks, replay, A2A grants, signing keys, ATMS, bridges, source mode, other vertical modules, handlers, launcher | | | | not modelled: see section 8 |

What makes each part correct:

* saga, recovery, collector: a memory whose caller saw it committed is whole in every
  store; the log does not claim rows that do not exist; final log states are final;
  leftovers of failed calls are reclaimed; recorded commits are completed;
* relay: each event is applied exactly once or dead-lettered once, for every crash;
* event log: one gapless chain; transactions look atomic; verification neither misses
  nor invents a break; nothing leaves the database before an anchor covers it (which
  deterministic replays break, section 3);
* re-embedding: a migration offered for validation is complete; what was shredded stays
  forgotten; every row that can be read is reached;
* inventory: stock never goes negative, sessions do not deadlock, a document moves stock
  once, the ledger reconciles, a kit is reserved as a whole as long as callers release only
  what they reserved;
* quotas: no charge is lost, none is invented, calls are admitted within the limit, and
  the database catches up with Redis;
* governor: a key stands for one effect and one audit entry, what is reported happened,
  verdicts are final and counted once until the next recount, an emergency stop takes hold.

`PROJECT.json` lists every part under `components` and every hazard with its line under
`hazards`.

## 2. Modules

```
MemorySaga ──┬── SagaRecovery ─────┐
             └── GarbageCollector ─┴── TriStack ── MCTriStack
                                          └────── TriStackProofs
OutboxRelay ──┬── MCOutboxRelay
              └── OutboxRelayProofs
AppendOnlyLog ◁─ EventLog ──┬── ChainVerify ───┐
                            └── EventRetention ┴── AuditLog ──┬── MCAuditLog
                                                              └── AuditLogProofs
MemoryVectors ──┬── EmbeddingMigration ──┐
                └── Shredding ───────────┴── Reembedding ──┬── MCReembedding
                                                           └── ReembeddingProofs
Stock ── Kitting ── Inventory ──┬── MCInventory
                                └── InventoryProofs ──┬── SumTheorems
Quotas ──┬── MCQuotas                                 │
         └── QuotasProofs ────────────────────────────┘
Governor ──┬── MCGovernor
           └── GovernorProofs
```

**MemorySaga.** One saga is one call. Its document, object and row have fresh
identifiers, so a store is the set of sagas whose item it holds. `pc` is the place in
the call: `called` (after the upload), `started`, `mongo`, `committed`, `logged`,
`done`; a failure goes to `rbMongo`, `rbPg`, `rbLog` (the three steps of
`_apply_rollback_on_failure`) and, for an artifact, `rmObj`. A failed insert or upload
may have taken effect. A PG transaction whose answer is lost is in `indoubt` until the
server settles it, possibly after the rollback has looked for its row. `Crash` is a
dead process or a cancelled task: no rollback runs. Redis is left out: its errors are
swallowed and it is never a source for another store.

**SagaRecovery.** `_saga_recovery_tick` on a set of cron instances: `RecoveryStart`
takes the lock and lists; `RecoverOne` is the verifying read and the finalising
transaction; `RecoveryCrash` leaves the lock to its TTL. The branches for a missing row
and a payload without `memory_id` are left out because `RecordedSagaHasRow`, checked and
proved, makes them unreachable (`memory_id` is written by the same statement as
`pg_committed`).

**GarbageCollector.** A pass of `_collect_orphans`, one step per read and per delete.
Paged reads are one read (rows are never deleted, later pages can only add references).

**TriStack** composes the three.

**OutboxRelay.** A relay pass is one transaction. `out[r]` holds the outcome of every
event it has locked, and `ApplyTx` turns it into table updates at COMMIT. Own-connection
handlers take effect at once (`ownApplied`). `CommitUnseen` is a COMMIT that succeeds
although the process never learns of it.

**EventLog.** One step per statement of `append_event`. `holder` is the row lock on
`event_sequences`, which the upsert takes and the end of the transaction releases.
Chain hashes are pairs of content and previous hash, i.e. SHA-256 is taken as injective.
A transaction in `Replays` is a deterministic replay, which stamps its events with a month
of the past instead of the database clock. At the end of a transaction its own copies are
forgotten (`Forget`).
**AppendOnlyLog** is the abstract specification: a history that grows by one whole
transaction at a time.

**ChainVerify** splits the verification tick into its queries. **EventRetention** has
the anchor tick and the retention pass; partition *m* is the month *m*. There is one
namespace: the others of a shared partition can only keep it from being dropped; and the
30 days the code counts for a month only move the cutoff. **AuditLog** composes the three.

**MemoryVectors** has the tables that re-embedding and forgetting share. A vector is
represented by what it was computed from: the text, the ciphertext taken for text, or
name and path only. `Decrypt` is `maybe_decrypt_raw_data`, including its back-compatible
reading of a payload without key as plaintext.

**EmbeddingMigration.** Administrators' calls are split where the code splits them: the
check of the status, and the writes at the transaction's COMMIT (`StatusCheck`,
`CommitWrite`, `AbortWrite`; `StartCheck`, `StartCommit`). A pass of `re_embedder` reads a
batch, its documents and its keys in three steps and writes vectors and cursor in one.
`before[g]` is the set of rows that existed when migration `g` was started. Graph nodes,
whose labels are always there, are one batch. The commit gate's numbers are left out: the
gate may pass or be overridden, so `StatusCheck` follows.

**Shredding.** `shred_memory` is `ShredCommit` and `Tombstone`; the sweep of
`reembedding_worker` reads rows, keys and documents separately and updates rows by id.
**Reembedding** composes the two.

**Stock.** A call is the set of rows it has to write; each statement takes one row lock,
in the order the code takes them, and the guard of an UPDATE is evaluated when the lock is
obtained (READ COMMITTED). What was written becomes visible in `Commit`. `start` is the
transaction's `now()`. **Kitting** adds reservations, which are transactions of one
statement, and the kit calls that run one per line. `do_release_kit` is a call of its own
(`ReleaseKit`, one per releaser at a time): it may name any kit at any moment, reserved or
not, again and again, because neither it nor `do_release_stock` knows whose units it takes.
`got` has the lines of a kit that stand, `stuck` those whose rollback failed and was only
logged, and `stray` counts, per item, the units released for a line that did not stand or
that its kit call was still going to use. **Inventory** composes them.

**Quotas.** A call selects the rows of a resource, runs the Lua script once per row, and
takes its charges back one `DECRBY` at a time. The rows it has read (`view`) and charged
(`steps`) are sets; `Before` is the order of both loops, by resource type and the
namespace's row first, so the first row of `view` and the latest of `steps` are determined.
`stray` has the charges a call made and
does not know of. Without Redis a charge is one transaction. The flush loop's GET and
UPDATE, a reset's UPDATE, DEL and COMMIT are separate steps. `trust` says whether a row's
count still means something: `expired` after a TTL has passed, `given up` after a reset or
after a key that could not be flushed has expired.

**Governor.** `pc` is the place of a caller in `@governed`: `called` and `toolChecked`
before the two reads of the switch, which happen inside the caller's open transaction but
before it has written anything, `open` past the switch, then `propose` and
`insert`, or `exec`, `take` (both look-ups passed), `holding` (key inserted), `ran` and
`marking`. The INSERT of a key waits for the transaction that has inserted it, and an
administrator's UPDATE for a call that has marked the item; what a call writes is visible
with `Commit`. Administrators read an item and resolve it in two steps. Whether `confirm`
is set and what `evaluate_policy` decides is left open in `CheckKey`. Handlers are taken
as writing to the caller's transaction only. A call that loses the race catches the
UniqueViolationError in a transaction PostgreSQL has then aborted; as it writes nothing
afterwards, `already` changes no table. `_actor_trust_tick` is two steps, the query that
counts the agent's `quarantine_confirmed` and `quarantine_rejected` events and the upsert
that sets both counters of `actor_trust` to these counts; `ConfirmMemory` and
`RejectMemory` stand for the calls of `active_learning.py` that write such events. One tick
runs at a time: its CronLock's TTL of an hour and a minute is taken not to expire under it.
`base` and `erased` remember what the last tick wrote and which verdicts it wrote over.

Definitions named `X_Something` after a definition `X` are deliberate bugs; they are
used by no specification and serve to show that the properties notice them.

## 3. Runs

| Run | Question | Result |
|---|---|---|
| `TriStackSafety` | Do collector, recovery and rollback leave committed memories and the log intact? | holds (1.04 M states) |
| `TriStackLive` | Are recorded commits completed and orphans reclaimed? | holds |
| `TriStackStuck` | Is a saga that died in `started` resolved? | **no**: the tick only lists `pg_committed` |
| `OutboxRelay` | Exactly-once effect, one dead letter, actions at most once, and does every event leave the outbox? | holds |
| `AuditLogSafety` | One gapless chain, atomic transactions, nothing lost unanchored but a replay's events, no invented break before a drop, each break recorded once? | holds (0.6 M states) |
| `RetentionReplay` | Are only anchored events dropped? | **no**: a deterministic replay writes into the aged partition between check and DROP |
| `ReembedSafety` | Is a validated migration complete, does a shredded memory stay forgotten? | holds (3.0 M states) |
| `ReembedLive` | Do migrations and sweeps get to the end? | holds, unless a whole batch has no text |
| `MigrationTransitions` | Do migrations only make the transitions of `VALID_TRANSITIONS`? | **no**: the loop overwrites `aborted` with `validating` |
| `InventorySafety` | No deadlock, no negative stock, ledger, documents and kits right, whoever releases what? | holds (0.2 M states) |
| `Quotas` | No lost or invented charge, limits kept, flush catches up? | holds |
| `Governor` | Exactly one effect per key, true reports, final verdicts, trust counted since the last recount, and does an emergency stop take hold? | holds (0.5 M states) |

The runs marked **no** each state what a docstring, comment or document says; the
quotation and the line are under `findings`. Facts the models show without a run of their own:

* a live row whose document is gone stays live as long as the collector finds no candidate
  documents, because the pass then returns before the reverse sweep (`GcCandidates`);
* the post-commit action of a published event is lost when the process dies after COMMIT
  or the action fails (`DrainCrash`, `FireAction`): it runs at most once, not at least once;
* a failed outbox event is overtaken by later ones (`DeliverFails`);
* after retention has dropped the oldest partition, verification starts the first remaining
  row from the genesis sentinel and reports a break (`VerifyFetchPrior`); an append between
  its two counter reads makes it report a sound log as corrupted (`VerifyFetchCounter`,
  `VerifyFetchMax`); a failure without `first_break` is recorded by every tick that meets it;
* two concurrent `start_migration` calls both succeed (`StartCheck`), and an abort leaves
  the old and the new model active (`AbortWrite`);
* a sweep's batch that read a text before `shred_memory` writes its vector afterwards
  (`UpdateBatch`); a ciphertext whose key is gone or could not be fetched is embedded as
  text (`Decrypt`, `KeysFail`);
* transfers and consumptions do not look at reservations, so that less may be on hand than
  is reserved; a kit call that is cut off leaves its lines reserved (`CutOff`);
* a kit that is released twice, or before it was reserved, takes the units another kit has
  reserved, without any fault (`ReleaseLine`), and that kit's own rollback or release may
  then be refused (`UndoFails`, `ReleaseRefused`): that nobody does so is "a caller-side
  accounting invariant, not one this primitive enforces" (`reservation.py:133-143`);
* the hourly trust tick erases the verdicts of the approval queue: administrators add to
  `confirmations` and `rejections` (`muscles.py:227`), and the tick sets both to counts of
  quarantine events (`cron.py:1637-1648`), although its comment says "we only update the
  trust column here" (`cron.py:1609`). An agent without quarantine events keeps its
  verdicts. `TrustSinceTick` therefore speaks only of the verdicts since (`WriteTrust`);
* a quota reset deletes the counter before it commits, so that a call or a flush in between
  brings the old usage back (`ResetCounter`, `ResetCommit`);
* the asset of a serial is committed on a connection of its own and stays when the receipt's
  transaction is lost (`SeedAssets`, `Abort`), although `goods_receipt.py:895` says
  "nothing is orphaned by a rollback";
* two concurrent proposals with one key queue two items (`FindPending`, `InsertPending`);
  `tests/unit/test_action_approval_queue.py:342` asks for one, of sequential calls;
* an item that is queued while its action is being executed stays pending, and can be
  approved for nothing; a rejected item does not stop a confirmed call (`CheckKey`);
* a call passes the switch when, between its two reads, the stop is moved from `*` to the
  tool's own field (`CheckTool`, `CheckAll`).

## 4. Bounds

* `MaxFaults`: failures and crashes per behaviour. Three are enough for a failed call, a
  failed rollback step and a failed sweep or tick in one behaviour.
* Two sagas (one plain, one artifact): a document or object of one must not be taken for
  the other's; items are otherwise independent. The liveness run uses one saga, because
  sagas do not block each other.
* Two cron instances and two relays: every race is between two of them.
* Three events, `BatchSize` 2, `MaxAttempts` 2: a batch smaller than the backlog, a first
  retry and an exhausted retry.
* Two memories, two models, one migration. `ReembedSafety` has two administrators, a commit
  racing an abort, one batch of two memories that are there from the start, an encrypted and
  a plain one, and a fault of the loop and of the sweep; `ReembedLive` has one
  administrator, a memory stored before and one stored during the migration. A second loop doubles the time without a new case; the proofs cover any number.
* Two inventory sessions, three calls: crossing transfers, a retry after a loss and a
  concurrent repetition; longer cycles of sessions are covered by the proof. One receipt
  with two lines, one RMA, two kit calls that want the same two articles in opposite order
  and one caller that releases, as often as there is something to release. `Bounded` admits
  three stock and kit calls in one history, two of each where no fault happens, and lets
  releases run against at most one stock call; the proofs know no such bound.
* Quotas: two calls, three rows (the namespace's tokens and memories, and an agent's
  tokens, a row that is only inserted later), one administrative command: a refusal at
  the second row, a concurrent charge, and a change under way.
* Governor: one key, because calls with different keys share only the switch and the
  counters (the proof has any number); two callers, one without Redis client, so that
  each can win the race; two items and two administrators: a duplicate proposal, and an
  approval racing a rejection and an execution; one rolled-back transaction; one quarantine
  verdict, so that ticks with something to count run before, between and after the
  administrators' verdicts, in histories without a stop and without a rollback (`Bounded`).
* Two appending transactions, one of them a replay: an append races an append, and a row
  lands in the past. `MaxSeq`, `MaxMonth`: enough events for a transaction with several of them between two
  others, and enough months for a partition to age past `RetentionMonths` = 1.

`Age` may only happen once a call's PG transaction has ended: the window is 24 hours by
default. A deployment that shortens `GC_ORPHAN_AGE_SECONDS` below the duration of a
call leaves this assumption, and `CommittedIsWhole` with it. `NextMonth` waits for
running transactions for the same reason. Row-level security is taken as transparent:
every job sees the rows of the namespace it works on.

## 5. Fairness

`TriStack`: a call that has begun goes on or its task dies; PostgreSQL settles the
transactions it holds; time passes (`Age`, `Overdue`, lock TTL); the scheduler starts
recovery ticks on some instance and `run_gc_loop` repeats its pass. Nothing requires a
call to be made, and failures are never forced. `OutboxRelay`: each relay loop goes on.
Handlers need not ever succeed: the attempt count makes the event settle. Failures are
bounded by `MaxFaults`; with unboundedly many the store itself would never recover.
`Reembedding`: each loop polls for ever and cron runs the sweep again and again; nothing
requires an administrator to act or a memory to be stored. `Quotas`: the flush loop visits
every key of its scan in every round (strong fairness per key, because keys come and go),
and a reset in progress commits or fails. `Governor`: a governed call that has begun goes on
to its end, handlers included; nothing requires calls, verdicts or the switch to be used.

Deadlock checking is off for the outbox, the event log, the re-embedding, the inventory,
the quotas and the governor, where all work done is a proper end; whether inventory sessions block each
other is `NoDeadlock`. Sagas have no such end: the collector runs on.

## 6. What is proved

The eight proof modules hold for all values of the constants.

*TriStack.* `CommittedIsWhole` is not inductive: nothing in it keeps the collector from
holding a document whose row is about to be committed. `StoresInv` adds that a call
before its commit has young items and no row (`BeforeCommit`), that an in-doubt
transaction is young (`InDoubtIsYoung`), that the log follows the call
(`LogFollowsCall`), and that everything on the collector's delete list is old and
without row (`TodoIsGarbage`); so nothing on that list can ever be committed. From it
follow `TypeCorrect`, `CommittedStaysWhole`, `LogIsTruthful` and `FinalStatesAreFinal`.
`RecoveryInv` (one instance ticks at a time, listed rows are not recovered yet) gives
`RecoveredAtMostOnce`; it assumes, as the statement does, that a tick fits in the lock's TTL.

*EventLog* (in `AuditLogProofs`). `LogInv` says that only the holder of the counter lock has uncommitted rows
and that what it sees, committed and own rows together, is a chain up to its own counter
(`HolderSeesChain`). `LastOfChain` and `ExtendChain` are the two facts about chains. From
it follow `LogIsGapless`, and with `OwnRows` the refinement `AppendsAreSerial`: a commit
is one `AppendTx`, every other step a stutter.

*OutboxRelay.* `EventAccounted` says nothing of what relays hold. The invariant adds that
no two relays hold one row, that what is held is unpublished and not exhausted, and that a
relay's pending actions are those of events it published and nobody has fired. So every
COMMIT moves each of its rows exactly one step.

*AuditLog.* `RecordsOnce` needs that an alarm still in the log is seen by the
deduplicating query, which in turn needs `LogInv`: numbers are not reused. `NoFalseBreak`
carries the tick's partial reads: the rows it fetched are a segment of the committed chain
and the prior hash is that of the row before it. `DropsOnlyAnchored` assumes nothing of
`Replays`. `NewEventsAreNew` says that an event stamped with the database clock goes to the
current month's partition, and `RetentionCovered` that an aged partition therefore only
gains events of replays while retention is between its steps: any other event in it is
covered by what was read, and after the check by an anchor.

*Reembedding.* `BackfillComplete` needs that everything up to the cursor of a migration
has its vector or never will (`MigrationsIntact`) and that a pass in progress covers the
rows between the cursor and its last one (`PassCovers`); several passes on one cursor keep
both because rows of `before` are never removed and the cursor is only written with the
vectors. `ForgottenForGood` follows from the type invariant, `RowsIntact` (a shredded row
has no key) and `NoKeyNoText`.

*Inventory.* `Exclusive` (a row is held by one session), `Ascending` (held rows precede
the ones still needed) and `Checked` (a guard that was passed still holds at COMMIT,
because its row is locked) are the invariant. `LockOrderSound` takes a session of the
group that holds the greatest row: what it waits for would be greater still.

*Kits.* `KitsWhole` equates `qty_reserved` and the stray units with a sum over kit calls of
sums over the lines that stand. It needs `LinesStand`: where a kit call is tells which of its
lines stand (reserving: none of those in `left`; undoing: those in `left` and those whose
rollback failed; refused: only the latter). A step changes a kit's share by one line
(`ReserveLineStep`, `GiveBackStep`) and the total by as much (`OneKitMoves`); a stray release
moves units from one term of the left side to the other (`StrayStep`). That a rollback is
refused only after a stray release is `ShortOfUnits`: while no unit of the item has strayed,
what is reserved covers every line that stands. The theorem holds for any releasers, any
order of releases and any faults.

*Sums.* `SumTheorems` is about `SumFunctionOnSet` of the community module `Functions`, a
fold that takes elements out of a set by CHOOSE. `FoldExists` and `FoldUnique` show that its
recursive definition has one solution on a finite set, `FoldAnyOrder` that any element may be
taken out first, and `SumFacts`, `SumAgrees`, `SumAdd`, `SumNat` and `SumZero` are what the other
modules cite. The induction is over sets of numbers and of subsets, not over a predicate: a
statement that fails has a least or a smallest failing instance (`LeastNumber`,
`SmallestSet`), which the next smaller one contradicts.

*Quotas.* `NoChargeLost` and `NoPhantomCharge` say of a row that its count is at least, or
exactly, what is charged on it; neither survives a step without knowing what the call in
progress has read. `Fresh` is the heart: a `used_amount` in a call's hands is still the row's
as long as there is no counter, because what would change the row needs a counter
(a flush, by `Kept`), another mode (`Plain`), or a reset, which gives the count up
(`Resets`); so the counter the script creates starts from the row's true count. `Kept` also
keeps a counter alive while a call may have to take a charge back, `Once` keeps a call from
charging a row twice, `Unborn` keeps rows not yet inserted at zero. `OneCall` is the sum: a
step of one call changes what is outstanding by what it changes of its own part.
`AdmissionSound` follows: the script compares count plus delta with the limit it was given,
and the count covers all charges.

*Governor.* `ExactlyOnce` needs `KeyHeld`: at most one open transaction has inserted a key,
and then the key is not committed, so that `Commit` adds the first effect. `TrustSinceTick`
needs `Resolved` (resolved_by and status agree), `TickRead` (the log holds at least what the
tick has counted), and that items marked by a call are still
pending or approved, which is part of the type invariant: then marking turns no rejected
item into an executed one and changes neither of the two counts; a tick's upsert empties
both by putting every resolved item into `erased`. `VerdictsAreFinal`
follows from the same.

Assumptions on constants: `SagaAssumption`, `RecoveryAssumption`, `EventLogAssumption`,
`VectorsAssumption`, `MigrationAssumption`, `SweepAssumption`, `StockAssumption`,
`KittingAssumption`, `OutboxAssumption`, `DepthAssumption`, `RetentionAssumption`,
`QuotaAssumption` and `GovernorAssumption`. They only say that the parameters have the right kind;
`StockAssumption` also that receipt and RMA keys differ and quantities are positive;
`KittingAssumption` and `QuotaAssumption` that the calls of a behaviour and the lines of a
kit are finitely many, and `QuotaAssumption` that a row starts within its limit, which
`chk_quota` enforces.

## 7. What is only model-checked

Liveness (`PgCommittedIsCompleted`, `OrphansAreReclaimed`, `EventSettles`, `RunsToTheEnd`,
`SweepCatchesUp`, `FlushCatchesUp`, `EmergencyStop`), which this prover does not reach.
Every invariant and every action property that a passing run checks is also proved.

## 8. Not modelled, and what could come next

* `DeadLetterQueue`: RQ tasks, retry counters, poison pills and replay of dead letters;
  it would be composed with `OutboxRelay` through `dead_letter_queue`.
* `Replay`, `A2AGrants`, `SigningKeys`, `SourceModeFlip`, bridges and
  the economy module: one state machine each.
* The shadow-column migration of `reembedding_migration.py`.
* `Atms`: label propagation as operators against a reference definition.

Left out for good: searches and graph queries (read-only), scoring and extraction
(floating point and language models), HTTP and MCP handlers (routing; they are most of the
code by size), infrastructure, migrations and the launcher. Of the collector, the cascade
over dependants, edge pruning and contradiction retention are left out: no other component
reads what they delete. Of the inventory, valuation and replenishment (arithmetic on the
ledger), the purchase-order lines of a receipt with their row locks, and the graph node a
repeated RMA upserts. Of the recovery tick, its LIMIT 100: the model's few overdue rows fit
in one list, and a longer backlog takes several ticks. Of the re-embedding loop, that the
migration and its batch are read by two statements: `PickBatch` takes them as one. Of the
quotas, `reset_at`, which no code writes. Of active learning, everything but the events
that the trust tick counts. Of the governor, the trust score itself (a formula over the
counters), the policy's thresholds and what a handler does outside its transaction: such a
call is repeated when the transaction is lost after it.
