# Contextra: TLA+ models of its stateful core

Contextra is a local memory layer for AI agents, written in Rust: a key-value
store with a write-ahead log; vector, text and graph indexes over it;
transactions over all of them; checkpoints; and an agent engine that uses them.
This directory holds TLA+ modules for these parts, TLC configurations that check
them, and proofs checked by TLAPS.

File names below are relative to `src/crates/`. "The log" is the write-ahead log.

## 1. Inventory

### 1.1 Components with concurrent or durable state

| Component | State | Operations | Interacts with |
|---|---|---|---|
| Commit (`contextra-store/src/lsm/ops/write.rs`, `lsm/commit.rs`) | `next_seq_no`, `last_committed_tx`, `commit_mutex`, intent locks | `put`, `delete`, `put_if_absent`, `commit` | transaction buffer, log, memtable, flush |
| Group commit (`lsm/group_commit.rs`, same `commit`) | `pending_commit_queue` | leader, follower, timeout | log, flush, rollback |
| Log (`wal/`) | file, `last_hmac`, `truncate_lock`, `poisoned`; one flusher actor per log | `prepare_batch`, `append_batch`, `truncate`, `find_tx_offset`, `replay` | commit, flush, recovery |
| Memtable (`memtable.rs`, `lsm/guard.rs`) | active and frozen tables, versions per key | `put`, `get_at_seq`, `iter_latest` | commit, flush, get |
| Flush (`lsm/ops/compaction.rs`) | `flush_counter`, `segment_counter` | `flush`, by a committer, a caller, startup | memtable, log, SSTables, MANIFEST |
| SSTables and MANIFEST (`sstable/`, `manifest/`) | open tables, sorted by `max_seq`; log of Add, Remove, Replace | open, append, rollover | flush, compaction, recovery |
| Compaction (`compaction/engine.rs`) | one background task | select a tier, merge, replace, swap | SSTables, MANIFEST |
| Get and scan (`lsm/ops/read.rs`, `lsm/scan.rs`) | a snapshot per call | `get`, `scan_prefix`, `scan_range` | all of the above |
| Recovery (`lsm/recovery.rs`) | none | `new`, `rollback_to_tx` | all files |
| MVCC (`contextra-mvcc`) | snapshot pins, sequence log, transaction buffer | `pin`, `unpin`, `stage`, `drain` | commit, compaction |
| Checkpoints (`contextra-checkpoint`) | `tx_counter`, `allocated_hwm`, manifests, orphans | `allocate_tx`, `create`, `restore`, `delete` | the store, through `StorageEngine` |
| Transactions (`contextra-engine/src/transaction`) | staged operations, old values, `CommitIntent` | commit over storage, HNSW, text and graph; compensation; `repair_on_open` | all indexes, the store |
| HNSW index (`contextra-vector/src/hnsw`) | nodes, id map, tombstones, `SequenceLog`, rebuild flag | commit, two-phase rebuild, search, pins | transactions |
| Text index (`contextra-text`) | posting lists in the store, a cache of whole lists, document count | upsert, delete, `resolve_tombstones`, `commit_stats`, search | transactions, the store |
| Graph (`contextra-graph`) | CSR arrays in memory; entities and deletion markers in the store | add and remove entities, load | transactions, the store |
| Agent engine (`contextra-agent`) | contexts, budget, audit entries, dead letter queue | `run`, `replay_from`, retries, orphan recovery | collections, checkpoints, the store |
| KV cache (`contextra-kvcache`) | prefix tree, tiers | admit, evict | engine |

All other crates (ranking, routing, inference back ends, cryptography, sandbox,
bindings, compliance tools) are numerical, protocol I/O, or have no state that
concurrent steps share. PROJECT.json lists every component with its status.

### 1.2 What is hard here

* **Interleavings.** `flush` takes no `commit_mutex`; the group-commit leader
  gives `commit_mutex` up during its append; `get` reads the memtables and the
  table list in two lock sections; compaction merges without a lock.
  Text transactions and searches share one cache of posting lists; a rebuild of
  the HNSW index runs beside commits; a rollback of the store by one agent task
  or by orphan recovery runs beside the commits of everybody else.
* **Failures.** An append may fail, with or without part of the batch in the
  file; a flush or the removal of a log may fail; a follower may time out.
  One of four indexes may fail after the others have committed; compensation may
  fail; a tool may fail or take too long after it has consumed its tokens.
* **Crashes.** A flush consists of a new log, a table, a MANIFEST entry, a swap
  and the removal of the old log; the process may die between any two, and again
  during the recovery, whose counters are recomputed from what it finds. A crash
  between the storage commit and the indexes is met by the intent at the next open.
* **Boundaries.** The batch of ids behind the persisted mark; `next_seq_no` after
  a rollback or a restart; the unsigned count of documents; the token budget.

PROJECT.json lists them as hazards, each at its line with the properties about it.

### 1.3 What makes the components correct

* A committed value is read by `get` and by scans until it is overwritten or
  deleted: across flushes, compactions, failures, crashes and recoveries.
* A caller who was told Ok finds its transaction readable and on disk; one who
  was told Err finds nothing of it; everyone is told something.
* Sequence numbers and internal transaction ids are never given out twice.
* The log stays replayable: its sequence numbers increase, its HMAC chain holds.
* The store comes up again after a crash.
* A transaction takes effect on all its documents or on none, and the indexes
  agree with the store when nobody is at work.
* A rebuilt vector index has every live document and no deleted one; a pinned
  reader finds what it pinned. A posting list has the documents of its term.
* A step that an agent has committed has its audit entry; nothing committed
  disappears but by a replay, which undoes its own steps exactly; the budget
  covers what was consumed; `run` returns.

## 2. Modules

| Module | Models | Extended by |
|---|---|---|
| `LsmTree` | the store with `group_commit_window_micros = 0`: commit, flush, compaction, MANIFEST, get, scan, crash and recovery | `MCLsmTree`, `LsmTreeProofs` |
| `GroupCommit` | the default commit path (a window of 500 microseconds): leaders, followers, log, HMAC chain, rollback after a failed append | `MCGroupCommit`, `GroupCommitProofs` |
| `CheckpointTxCounter` | `PersistentCheckpointStore::allocate_tx` and the counter part of `open` | `MCCheckpointTxCounter`, `CheckpointTxCounterProofs` |
| `HnswIndex` | commits of the vector index, its sequence log, the two-phase rebuild, pinned readers | `MCHnswIndex`, `HnswIndexProofs` |
| `AtomicCommit` | what a collection promises of a transaction (abstract) | instantiated by `DbTransaction` |
| `DbTransaction` | a transaction over store, HNSW, text and graph: staging, commit, compensation, intents, crash, repair at open | `MCDbTransaction`, `DbTransactionProofs` |
| `TextIndex` | posting lists, tombstones, the shared cache, document count, searches | `MCTextIndex`, `TextIndexProofs` |
| `StorageTx` | the store as its clients see it, `rollback_to_tx` and reopening included, as operators on a value | `AgentEngine` |
| `AgentEngine` | the agent engine with checkpoints, guards, orphan registry, dead letter queue and budget, over `StorageTx` | `MCAgentEngine`, `AgentEngineProofs` |
| `NatSetLemmas` | facts on sets of naturals that the proofs cite | the proof modules of counter, group commit, LSM tree, HNSW index, text index and agent engine |

The models overlap where the code does, each at the grain its properties need.
`LsmTree` has one committer at a time and everything around it; `GroupCommit` has
many committers and, of the rest, only what a commit touches (its flush is two
steps: freeze with a new log; publish and remove the old log).
`CheckpointTxCounter` sees the store as one key that is in the memtable or in an
SSTable. `DbTransaction` takes a commit of the store, of the HNSW index and of the
text index as one step each; their inside is in `LsmTree`, `HnswIndex` and
`TextIndex`. `AgentEngine` composes the agent with the store of `StorageTx`.

### 2.1 LsmTree

State: the fields of `LsmStorage` under their own names; `commit`, `flush[f]`,
`compaction` and `reader[r]` are the program counter and locals of a running call;
`wal_files`, `wal_data`, `manifest` and `torn` are the disk (`torn` are SSTable
files created and not yet synced); `committed` is a history of the value each key
should have.

* A transaction writes one key, and the value is the TxId. An entry carries its
  sequence number, its tombstone flag and the log it was written to. A memtable
  is a set of entries: in a running process they are pushed in sequence order,
  at replay file by file (`PushedBefore`), which is what `iter_latest` and the
  lookup depend on.
* `commit` is Prepare, Append, Apply, then the flush if the memtable is full; a
  failed append is one step with the whole of `rollback_to_tx_locked` (to the last
  committed transaction, under `commit_mutex` and `state.write`).
* `flush` has a step for each point where another task or a crash can come in:
  create the log, swap under `state.write`, create the table file, write it and
  enter it in the MANIFEST, publish, remove the old log. Three callers: the
  committer, any other task, startup.
* Compaction: select and merge, MANIFEST Replace, swap; an abort; and the rollover
  of the MANIFEST in two steps. A tier is any set of tables, neighbours in
  `max_seq` order unless the constant `Environment` holds "tier gaps" (sizes are
  not modelled).
* `Crash` may happen in any state, `Replay`, the startup flush, `RemoveOldWal` and
  `Opened` are `LsmStorage::new`.
* The Cargo feature `encryption-at-rest`, off by default, is the constant
  `encryption_at_rest`: the callback of the log scan below `find_tx_offset` is
  compiled only with it.

Not in it: pinned snapshots (`min_active_seqno` is u64::MAX), transactions with
several operations, `put_if_absent`, budgets and back-pressure, intent files of
rollbacks, byte formats.

### 2.2 GroupCommit

State: `pc[t]`, the prepared `entry[t]`, and a leader's `batch`, `first_prev`,
`its_wal`, `keep`; `pending_commit_queue`; each log with its `last_hmac` and its
`poisoned` flag; the memtable, the frozen one and the SSTables as sequences in the
order of the puts. The HMAC of an entry is its TxId, so a chain is intact when
each entry names the TxId before it. TxIds are committed in any order.

`commit_mutex` is held across steps only by a rollback and a flush, `truncate_lock`
only by an append; both are read off `pc`. Actions follow `commit` from Lead or
Follow through TakeQueue, the append and its three outcomes, then Apply (or
ApplyAndFreeze and FlushDone), or RollbackScan and RollbackTruncate. The answer to
the followers is part of the leader's last step. FollowerTimeout and DropQueue are
a follower's timeout: it clears whatever queue is pending.

Not in it: cancelled commit futures, flushes by other callers and failing flushes
(in `LsmTree`), restarts.

### 2.3 CheckpointTxCounter

Each step of `allocate_tx` between two awaits or atomic operations is an action.
The storage engine is `LsmStorage`: its `get` shows the versions of internal
transactions in the memtables and not those in SSTables (`lsm/ops/read.rs:77`), so
`GetHwm` is what the memtable has. Open is the counter part of `open`; a store ends
by Drop (the storage engine lives on) or by Crash (its memtable is replayed and
flushed). History: `issued`, what the open store has returned, and `earlier`, what the
stores before it have.

### 2.4 HnswIndex

State: `index` (nodes, `doc_to_node`, tombstones), `seq_log`, `last_tx_id`, the
`tx_buffer`, the running `commit` and `rebuild`, whether a rebuild job waits
(`jobs`), and the `pins`. A vector is the transaction that inserted it. History:
`live`, the vector each document should have; `unordered`, documents committed by a
transaction older than the last one, `late`, those of them committed during a
rebuild; `torn`, a rebuild has taken its snapshot inside a commit; `exposed`, readers
that pinned between the two phases of a rebuild.

* Stage and Rollback work on the buffer; Commit drains it under `write_mutex`, then
  CommitApply once per operation (other threads see the index in between), deletes
  before inserts (`AppliedBefore`), CommitLog, CommitAdvance. CommitFails loses the
  drained operations.
* RebuildStart, RebuildSkipped (the flag is taken). Phase 1: RebuildSnapshot under the
  read locks, then RebuildInsert, one copy at a time without a lock. Phase 2 under
  `write_mutex`: RebuildLock reads `changes_since`, RebuildReplay applies one change at
  a time in the stable order by sequence number, RebuildSwap. RebuildFails.
  Pin and Unpin are `search_at` at the newest sequence number.

Not in it: searches at a sequence number older than `last_tx_id` (any is accepted; such
a reader pins what may be gone already), the links between nodes and the search along
them, the quantizer, the memory-mapped part, `rebuild_region`, and `rollback_to_tx` of the index.

### 2.5 DbTransaction and AtomicCommit

State: `phase` of the database; `doc`, `text`, `entity`, `deleted` and `intent` are
in the storage engine, where one commit makes them durable together; `index` and
`graph` are in memory. Of each transaction: `pc`, `writes`, the `old` values it read,
`erased` entities, `attempts` of compensation. A document's content is the
transaction that wrote it. History: `applied` (committed to storage and not
compensated), `stale` and `undone` (documents that compensation, cancellation or
deletion leave different in an index).

* insert_op and delete_op stage; StageText and StageGraph; StorageCommit or
  StorageFails; IndexCommit, TextCommit, GraphCommit, each of which may fail;
  then compensate_text, compensate_hnsw, compensate_lsm with AttemptFails; Marker.
* Cancel drops the future of `commit` at an await; Crash in any state; Open, Repair,
  RepairFails and Settle are the next start. Settle may fail to write the intent, which
  is only logged ("settle error").

`AtomicCommit` has the version of each document and an outcome for each transaction.
A transaction takes effect in one step on all its documents, or never; a crash
decides all that are open. The refinement mapping: `value` shows the old versions of
the documents of a transaction in doubt (in the store, and still to be compensated
if an index fails); `outcome` is committed when the last index has committed, or when
nobody is left to compensate.

Not in it: relationships of the graph, the 30-second timeout of `repair_on_open`,
bulk insertion, several collections, and transactions that write a document twice
(`commit_text_staged` stages all its deletions before all its upserts, whatever their
order was).

### 2.6 TextIndex

State: in the storage engine `doc`, the postings `pl`, the whole lists `plb`, the
tombstones `tbs` and `meta`; in memory the cache `resident` and `total_docs` (WIDTH
bits, it wraps). Of each transaction its place, its operation, the pairs of document
and term it has yet to do (`todo`) and the one it is at (`at`, `read`), and what it has
staged, one variable for each kind of key: `staged_doc`, `staged_plb`, `put_pl`,
`delete_pl`, `put_tbs`, `delete_tbs`, `staged_stats`. A text is a set of terms; a value
that may be absent is a set with at most one element. History: `raced`, terms whose
list two transactions used at a time, or that a `resolve_tombstones` read again after
it had emptied the list (`Forgotten`); `skewed`, the count was not kept up.

Actions: Begin of a deletion, an upsert or both (update); DeleteStart, UpsertStart,
ResolveStart and ResolveLive; for each term `ensure_term_loaded`, InsertList and
StagePosting, between which others run; StorageCommit, `commit_stats`, MetaCommit;
Rollback and LateRollback, which drop the shared cache; a search in its steps; Crash.

A search is a latest one, as all of `search` and of the engine's fusion are: it looks at the
lists and at the tombstones (`Hit`). Only a search at a sequence number looks up the
document's length as well (`wand.rs:464`).

Not in it: scores and WAND pruning, term frequencies, the tokenizers, the order of
`InvertedIndex::commit` when it is called alone, by repair and compensation: there the
statistics come before the storage commit, of one transaction.

### 2.7 StorageTx and AgentEngine

`StorageTx` gives each call of the `StorageEngine` trait as an operator from store to
store: Put, Commit, Rollback, `RollbackToTx` (truncated log, dropped, rebuilt and
spanning tables), Flush, Reopen, Found, Scan. All internal transactions have one id.

`AgentEngine`: `ctx[t]` belongs to the caller of `run`, `call[t]` is the place and the
locals of a running `run`; the rest is shared. A step is the code between two calls
of the store. RecoverRead and RecoverOrphan; LimitReached, Decide, StepBegin,
CheckpointRead, CheckpointSave; Reserve (with the cases without an estimate, of a Start
node, and without a tool), ToolOk, ToolError, ToolTimeout,
RetryRefused; LetterPut and LetterCommit; AuditPut and AuditCommit; StepPut and
StepCommit; Advance; FinalPut, FinalCommit, FinalFlush. Around it: Replay,
FlushOrphans, MemtableFull, ClientPut and ClientCommit, Restart. `departures` is a
history of events after which the code keeps less (section 5); among them "ahead" (the last
committed id has reached the counter of the collections), "blind" (a restart after which rows
are not visible) and "stale" (a run while a checkpoint of a later step is still stored).

Simplified: `replay_from` (list, restore, `rollback_to_tx`) is one step; the orphan
file is written in one step; the intent locks of `put_if_absent` are part of the
check of the buffer; one sequence number per commit; a failing write of the mark is
in `CheckpointTxCounter`. A rollback that fails in orphan recovery leaves the store as it
is and keeps the orphan. Not in it: the event loop, cancellation, what tools write
themselves, drain and remove of the dead letter queue, compaction.

## 3. Runs

| Run | Bounds | Shows |
|---|---|---|
| `tx_counter` | 2 tasks, batch 3, 5 ids | **violation** of `FreshTx` |
| `lsm` | 2 keys, 5 transactions, 2 crashes; deletes, failed appends | `ReadLatest`, `ScanLatest`, `SeqAboveStored`, `ActiveLogKept` |
| `lsm_concurrent` | 1 key, 1 reader, 3 transactions; flushes by others, failing flushes and unlinks | `ReadLatest` while the process lives, `GetUndisturbed` |
| `lsm_live` | 1 key, 2 transactions, 2 crashes or failed startups, all failures | `ComesUp`, `CommitReturns` |
| `lsm_append_fails` | the default build, a failed append | **violation** of `ReadLatest` |
| `group_commit` | 4 transactions, failed appends, timeouts, torn writes, flushes | `DurableUntilFlush`, `ChainIntact`, `AckedReadable`, `LogInOrder`, `FailedAbsent`, `EveryoneAnswered` |
| `group_commit_flush_race` | 3 transactions, no fault | **violation** of `AckedDurable` |
| `hnsw` | 2 documents, 1 reader, 4 transactions, failing commits and rebuilds | `IndexLatest`, `NoGhost`, `PinnedFound` |
| `db_transaction` | 2 documents, 2 transactions, 1 crash, nine kinds of error, timeout and cancellation | the refinement `AtomicSpec`, `Agreement`, `CommitReturns`, `Reopens` |
| `db_intent` | 1 document, 2 transactions, 1 crash, no error | **violation** of `IntentTrue` |
| `text_index` | 2 documents, 1 term, 3 transactions, 1 crash; rollbacks before and after the storage commit | `PostingsKept`, `NoGhost`, `StatsExact` |
| `agent` | 1 task on a graph of 6 nodes with a cycle, 2 steps, 1 other client, 2 runs; of replay, restart, failed append, full memtable, client write, timeout at most 2 in all; tools fail at will | `CommittedAudited`, `CommittedKept`, `ReplayExact`, `BudgetCovers`, `BudgetReturned`, `RunReturns` |

**Why the bounds are enough.** A flush needs one commit more than the memtable
holds (0 to 2 entries), a merge needs two tables, so three to five transactions
give tables that were merged and tables that were not, a memtable, and a log with
entries. Two crashes give a crash during the recovery from a crash. In
`GroupCommit` a leader, its follower, the next leader and one more transaction
are all the roles that meet: a batch is appended while another queue fills. A
batch of three ids is exhausted within five, by two tasks that race for it.
`MAX_FILES` bounds the retries of failing flushes. In `HnswIndex` four transactions
give an insert, a delete that makes a rebuild due, and two commits during it. In
`DbTransaction` a second transaction meets what the first left behind, and a crash
meets any two places of commit. In `TextIndex` two documents share the list of the
term while a third transaction rolls back. In `AgentEngine` two disturbances are a
fault and a second one in its repair, such as a failed append and then a restart
or a replay; a budget of 3, an estimate of 2 and tools that take 0 or 3 make
reservations that are refunded, exceeded and refused, and the tool of the Start node,
which has no estimate, is charged without one. The graph has a cycle of a Task and a
Decision, which only `MAX_WORKFLOW_STEPS`, 2 in the run, ends; `MAX_STEPS` bounds the
model should the code's limit be lifted. Two tasks are beyond TLC's
reach there; the client stands for the writes of all others. 8 entries for a rebuilt
table (`MIN_ENTRIES_FOR_SSTABLE_REBUILD`) are 2 in the run. `MAX_COLLECTION_SEQUENCE`,
above which `allocate_tx` hands out nothing, is never reached there; the proofs need it,
since it keeps the ids of clients apart from the internal ones.

Deadlock is not checked where a bounded number of transactions ends; it is checked in
`GroupCommit`, which may only stop when everyone has an answer.

**Conditions.** Each safety property is checked with the largest set of events
under which the code keeps it; what it does not keep is in section 5. `ReadLatest`
holds with crashes and failed appends (`lsm`) and, without a crash, with flushes
by anybody and failing flushes (`lsm_concurrent`); the combination does not.
`DurableUntilFlush` speaks of the time until a flush or a truncation, `AckedReadable` (in
its part on the tables) until a truncation, `ChainIntact` until a flush or a failed
commit, `LogInOrder` until a timeout or a truncation, `FailedAbsent` until a torn write,
`ComesUp` of stores without a partial table in the MANIFEST. The conditions on
truncation came out of the proofs. A leader's rollback after a flush sets `next_seq_no`
back to what memtable and tables hold, below entries that another leader has prepared,
and a log gets numbers out of order; and where TxIds are not in order in a log, a rollback
truncates acknowledged entries with it. The properties of `HnswIndex`,
`TextIndex` and `AgentEngine`, and `Agreement`, except what their history variables
record: the exception names the documents, terms or events concerned, the property
holds for all the others. In `DbTransaction` no two transactions at work write the
same document. In `AgentEngine` the caller advances the step after a failure and
replays after a restart, as the comments on `audit_log` ask.

**Fairness.** `lsm_live`: weak fairness of `new()`, and of the committer's steps,
which are straight-line code on a running executor and wait for no other task.
`group_commit`: weak fairness of each started commit; the mutexes are
tokio's, granted in the order of the requests, and no step disables another's
forever. `db_transaction`: the future of a commit is polled until it ends or is
dropped, an open that was refused is tried again, and repair goes on.
`agent`: weak fairness of the steps of a running `run`; tools return or the timeout of
the engine ends them. `RunReturns` presupposes that every cycle of the graph has a
Start or a Task, since Decisions count no step (section 5). Nothing is assumed of callers, timeouts, failures, compaction or crashes.

## 4. Proofs

Every theorem is of the form `Spec => []P`, or a refinement, for all values of the
constants that the module's assumptions admit: any keys, tasks, transactions, documents,
any bounds and, unless said otherwise, every `Environment` of faults. The table has the
properties that are proved, with the hypothesis beyond the module's ASSUMEs.

| Module | Theorem | Property | Hypothesis | Inductive invariant |
|---|---|---|---|---|
| `CheckpointTxCounterProofs` | `CounterTypes` | types (no run) | `CounterAssumption` | `CounterInv` |
| | `FreshAmongManifests`, `MarkBeforeUse`, `OpenNeverRefuses` | `FreshWhereScanned`, `ReservedFirst`, `OpenSucceeds` (no run) | `CounterAssumption` | `CounterInv` |
| `GroupCommitProofs` | `CommitTypes`, `ErrMeansAbsent` | `TypeOK`, `FailedAbsent` | | `CommitInv` |
| | `OkMeansReadable`, `OkMeansDurable` | `AckedReadable`, `DurableUntilFlush` | | `AckInv` |
| | `LogsInOrder` | `LogInOrder` | | `OrderInv`, `AckInv` |
| | `ChainsIntact` | `ChainIntact` | | `ChainInv`, `AckInv` |
| `LsmTreeProofs` | `LsmTypes`, `ActiveLogStays` | `TypeOK`, `ActiveLogKept` | | `LsmInv` |
| | `GetsReadLatest`, `ScansReadLatest`, `GetsUndisturbed` | `ReadLatest`, `ScanLatest`, `GetUndisturbed` | `Orderly` | `OrderlyInv` |
| | `SeqNosFresh` | `SeqAboveStored` | `Orderly` or no append errors | `OrderlyInv`, `SeqInv` |
| `DbTransactionProofs` | `DbTypes` | `TypeOK` | `Isolated` | `DbInv` |
| | `IntentsUpheld` | `IntentUpheld` (no run) | `Isolated` | `DbInv` |
| | `AtomicRefinement` | `AtomicSpec` | `Isolated` | `DbInv` |
| | `IndexesAgree` | `Agreement` | `Isolated` | `AgreeInv` |
| `HnswIndexProofs` | `TypeCorrect`, `IndexLatestTheorem`, `PinnedFoundTheorem` | `TypeOK`, `IndexLatest`, `PinnedFound` | | `Inv` |
| | `NoGhostTheorem` | `NoGhost` | `Plain` | `Inv` |
| `TextIndexProofs` | `TextTypes`, `PostingsSurvive`, `NoGhosts` | `TypeOK`, `PostingsKept`, `NoGhost` | | `TextInv` |
| | `NumberOfDocuments` | `StatsExact` | | `TextInv`, `StatsInv` |
| `AgentEngineProofs` | `TypeCorrect` | `TypeOK` | | `EngineType` |
| | `KeptTheorem` | `CommittedKept` | `encryption_at_rest` | `KeepInv` |
| | `AuditedTheorem` | `CommittedAudited` | `encryption_at_rest` | `AuditInv` |
| | `BudgetTheorem` | `BudgetCovers` | callers replay after a restart | `BudgetInv` |
| | `ReplayTheorem` | `ReplayExact` | `encryption_at_rest`; callers replay after a restart and go on to the next step after a failure | `SplitInv`, `BudgetInv`, `KeepInv` |

TLC checked each invariant on small instances before it was proved. The definitions are
in the component's module (those of `AgentEngine` and `HnswIndex` with their proofs), the
proofs in a module of their own: one lemma per part of the invariant, in it one step per
action or group of actions; for `AgentEngine` one lemma per action.

### 4.1 CheckpointTxCounter

`FreshTx` is violated (run `tx_counter`). What the code does keep, although `open` may not
find the mark: `FreshWhereScanned`, no id is returned that the open store has returned or
that a stored manifest names; `ReservedFirst`, whatever the open store has returned lies
under a mark on disk; `OpenSucceeds`, the check for a regression never fires. None is
inductive. `CounterInv` adds: no manifest names an id above the mark on disk, whichever
level holds it (`ManifestsReserved`); and, for an open store (`Reserved`), ids in flight are
below the counter, distinct and not yet returned, what is returned and what manifests name
lies below the counter and under `allocated_hwm`, which is on disk before the store
believes in it, and the three places between lock and unlock belong to the holder of
`hwm_lock`. One lemma per group of actions: `OpenStep`, where the counter comes from the
mark or from the manifests; `AllocateStep`, one step per action of `allocate_tx`; and the
steps of the storage engine, which move the mark and do not change it. The hypothesis
`CounterAssumption` is that the batch is not empty and that "nobody" is no task.

### 4.2 GroupCommit

The only assumption is `GroupAssumption`: TxIds are positive, finitely many.
`FailedAbsent` is not inductive: a transaction that is told Err was a follower a step
before, and then nothing says that its entry was not written. `CommitInv` adds what
does. `OneOwner`: a transaction waits in the pending queue, or is in the batch of one
leader, or belongs to nobody; so no second leader can append it after the first has
told it Err, and DropQueue tells Err only to transactions in no batch. `NotWritten`,
until a torn write: the queue and the batches of leaders that have not appended are in
no log and no table. `OneHolder`: one rollback or flush at a time holds
`commit_mutex`, and the truncation point lies inside the log, so a truncation removes
entries and adds none. `BatchLands` and `BatchRefused` are the two ways a batch ends.

`AckInv` carries what a leader knows to the moment it answers: after its append its
batch is in the log, after its apply in the memtable, and while it flushes in the
frozen table, which nobody else replaces because `commit_mutex` is held.
`OrderInv` is about numbers in flight. A leader appends without `commit_mutex`, so that
a log is in order needs more than the order of the preparations: one leader leads and
one appends at a time (`truncate_lock` is taken before `commit_mutex` is given up), and
what waits in the queue has greater numbers than what is being appended, which has
greater ones than its log (`LaterGreater`). `ChainInv` says the same of the HMACs: first
log, batch in flight, leader and queue form one chain that ends in `last_hmac`.

### 4.3 LsmTree

`LsmInv` holds in every environment. It adds to the types `PhaseInv` (commits, merges
and gets run in an open store), `Bounded` (every maximum that the code takes is of a
bounded set) and `LogInv`: file numbers are below `flush_counter`; the logs that running
flushes have created for themselves are distinct, not active and not about to go; the
active log exists and is not about to go. `ActiveLogStays` follows, also for a flush that
overtakes another and for the old logs of a startup.

`ReadLatest` is not true in every environment (section 5), so its theorem has a
hypothesis, `Orderly`: callers commit and delete, appends may fail on a store with
encryption at rest, and the process may crash at any step, any number of times; no
flushes by other callers, no failing flushes or unlinks, no rollovers of the MANIFEST,
no tiers with gaps. The run `lsm` is an instance. `OrderlyInv` has one part for each
place that holds data:

* `DiskInv`: at most one log has entries, and log and MANIFEST together, without an
  append that is not yet applied, have the committed value of every key; the MANIFEST
  alone has it once the flush has written its table. The tables are `Ordered` (the one
  with the greater `max_seq` has the newer version of every key both have), and
  `FlushedWhole`: a log was flushed as a whole or not at all. So the replay of a log that
  survived its flush brings nothing new (`LogRedundant`), and a startup flush under a
  reused file name replaces a table with what that table had.
* `MemoryInv`, `TasksInv`: memtable or frozen table are the log's entries; a commit has
  the newest sequence number; the flush's table is the newest version of each key.
* `ManifestInv`: the MANIFEST differs from the open tables by what the running merge and
  the running flush have entered, in whichever order they did.
* `CompactionInv`: the inputs of a merge are neighbours by age; if deletes are dropped,
  no other table has anything older. `MergeOrdered` and `MergeValue` say that the swap keeps
  order and values.
* `TablesInv`: memtables and open tables together have the committed value of every
  key, and the memtables are newer than the tables until the flush has published.
* `ReaderInv`: a get that no commit to its key has overtaken finds the same value at each
  of its steps, although it clones memtables and tables at different times.

`SeqAboveStored` needs less. While a process runs without append errors `next_seq_no` only
grows, so everything it holds stays below (`SeqInv`), whatever flushes, unlinks and
rollovers do. The rollback of a failed append recomputes it from memtable and open
tables: then the theorem is about orderly environments only. With append errors and
flushes by callers, failing flushes or failing unlinks it is not proved, and the code
does not guarantee it: the recomputed number does not look at tables that are being
written, nor at logs that were left behind.

### 4.4 DbTransaction

`Isolated` excludes two failures ("same document": two transactions at work write one
document; "partial compensation": an attempt commits although some of its puts were
refused); with either, the properties are violated (section 5).

`IntentTrue` is violated by repair (run `db_intent`). `IntentUpheld` is the part that holds:
no document has the version of an Aborted transaction, and a Committed one was not undone.
It is not inductive: that compensation removes a transaction's version
depends on what it puts back. `DbInv` adds, beside the types: `Disjoint`, transactions
at work write different documents; `Quiet`, nobody is at work while the database is
down or under repair; `Recorded`, which places of `commit` and which intents go with a
transaction that storage has; `OldKept`, the old values are current until the storage
commit, and then the current ones are the transaction's own; `Origin`, every version
in the store or to be put back was committed by a transaction that is not Aborted, and
in the latter case is over. The refinement uses `Disjoint` and `OldKept`: the abstract
value of a document is the old one of the only transaction in doubt that writes it, a
compensation maps to an abort, IndexCommit and TextCommit to stutters, a crash to one
Decide of all that were at work. `OriginKept` covers the steps that leave the documents
alone.

`Agreement` speaks of documents that nobody is at work on. `AgreeInv` says what becomes of
the others on the way there: what a commit has written so far in each index it has
written completely, and an index it has not reached has the old version (`TxStored`,
`TxIndexed`); what compensation will not restore is in `stale` or `undone` already.

### 4.5 TextIndex

`PostingsKept` and `NoGhost` speak of the storage engine and the cache; what keeps them is
in the transactions. `TextInv`: one transaction writes a document (`Exclusive`), and
stages in the end a posting for each term of its new text and a tombstone for each
term of the old one, with `todo` for what is missing (`Writes`); `resolve_tombstones`
stages removals of postings only where the committed text lacks the term (`Resolves`);
and for every term that has not raced the whole list is that of the postings, stale
postings have tombstones (`StoredInv`), and the cached list is the committed one or, for
the term's user, the one it has staged (`CacheInv`). The conclusion holds for every set
of operations and any number of documents, terms and transactions. The proof brought up
the case `Forgotten` (section 5), which needs five transactions.

`StatsExact` relates a counter modulo 2^WIDTH to the number of documents. It is stated with
cardinalities: `total_docs`, plus the committed transactions that have yet to count one
document more, less those that have yet to count one less. `StatsInv` says what each
transaction carries to `commit_stats` (`Counts`: whether its document will be there, less
whether it is there now, which stays true because nobody else writes the document), that
only finitely many documents and transactions have come so far, and that one transaction at
a time is about to write `meta:stats`. The proof has the arithmetic of a counter that
wraps: `Division`, `Congruent`, `RemainderOfSum`.

### 4.6 HnswIndex

The properties speak of the live index between commits, and a swap makes the index that a
rebuild has built the live one; so `Inv` says of every step of a rebuild what its index
will be worth. While copies are made, a document that has not changed since the snapshot
has its vector in the last of its copies (`LatestBuild`). While the delta is replayed, it
has its vector once no insert of it is left, and each delete that is left has an insert
after it (`LatestReplay`). The two meet in RebuildLock, where the delta is read from the
sequence log: `Chain` says that the entries of a document above the snapshot are ordered as
its transactions were, so that the order by sequence number is the order in which they
happened. A commit of a transaction older than the last one breaks `Chain`: these are the
exceptions `late` and `unordered` of the properties.

`GhostIndex`, `GhostBuild` and `GhostReplay` are the same argument for deletes. They need
that the snapshot saw no half of a commit (`torn`), and `Plain`: no caller inserts a document
that is present, or inserts and deletes one in a transaction. Without `Plain` the property
is violated (section 5). `DeletionsInv`, `ClosedInv` and `PinInv` are about readers: what
`deletions` remembers of a document is its last delete, so a tombstone that phase 1 drops
is older than every pin it has seen.

TLC checked `Inv` in the environment of the run (970,550 states) and, with one document,
in the full environment (6.2 million states). The theorems hold for any documents, readers,
threshold and number of transactions.

### 4.7 AgentEngine

The theorems hold for any graph, tasks, budget, limits and `Environment`, any number of
runs, replays and restarts. The lemmas come in three layers: what each operator of
`StorageTx` does to a store; what each action does; the temporal step.

`EngineType`: rows with an internal id are those of the checkpoint store, so a checkpoint
that is found has a client's id in it, to which a replay can set `last_committed_tx`;
`CallOK`: what a call has reserved is part of what its context has consumed, at every
place from which it may return, so that the refund never goes below zero.

`CommittedKept` is an action property about what can be read, and a read depends on
`last_committed_tx`. `KeepInv` says that unless a restart was blind every row of a client is
visible, and unless survivors of a rollback were left in the memtable only, everything is
logged. A failed commit rolls back to `last_committed_tx`, and an orphan is rolled back to
only if the barrier found nothing after it: with `KeepInv` neither cuts the log nor any
table (`RollbackKeeps`), whoever else is at work.

`CommittedAudited` needs `AuditInv`, since a replay rolls back to any checkpoint. `Paired`:
the row of a step has an audit entry with a smaller TxId and a smaller sequence number,
and if the row is in an SSTable then so is the entry. `rollback_to_tx` removes by TxId in
the tables and by position in the log, so it never removes the entry and leaves the row
(`RollbackAudit`). A flush keeps the newest version of a key: that this is the entry
needs `OneEntry`, which `put_kv_if_absent` keeps because it looks at the buffer too
(`StagedFresh`). Between the commit of the entry and that of the step, `Auditing` carries the
entry; that another's failed commit, rollback or flush does not take it away, and that
nobody drains a transaction of somebody else, is `HoldersApart` and `StepsOwned`.

Without the feature `encryption_at_rest` both properties are false: the log is truncated to
nothing after any failed commit (run `lsm_append_fails` shows it for the store).

`BudgetCovers` compares a counter with what is reserved and a sum over the audit log. `BudgetInv` never compares two
sums: of each task, and of each stored checkpoint, it says that *some* bound per step is above
every entry of that step, staged ones included, and adds up to at most the tokens consumed
(`Covers`). A task's own bound counts what is neither reserved nor about to be audited
(`Spare`), so that a tool's result, its reconciliation and the audit entry that follows are
one exchange; a checkpoint's bound is for the entries up to its transaction id, which are those
that a replay from it keeps. An action either adds one entry, of the current step, paid for
by its task (the bound of that step is raised), or takes entries away: rollbacks, flushes
and restarts show the proof nothing but a smaller set of rows (`Shrinks`). The sum is a
recursive function; that it exists, and that it grows with its terms, is proved by least
counterexample (`NatSetLemmas`). The hypothesis is that callers replay after a restart. The
theorem does not need `encryption_at_rest`: a log that loses entries owes less.

The exceptions of `BudgetCovers` came out of this proof: as first stated it passed the bounds
of the run, and TLC refuted it with four runs (section 5). A restart that gives ids out again
needs no exception (`CheckpointsOlder`): after it all checkpoints are in sstables, the task has
to replay before it runs, and the rollback of that replay removes the checkpoints from the
sstables, internal records being above every target. A task that runs therefore has only
checkpoints below the ids to come.

`ReplayExact` says what a rollback of the *whole* store does to one task's audit log.
`SplitInv` says it of every stored checkpoint before any replay (`Splits`): a rollback to its
transaction keeps the entries before its step and removes those from it on, staged ones
included. To be kept an entry must have a lower id and, as long as it is in the log, stand
before the first record of a client that is above the target, because there the log is cut
(`KeptBy`); a commit by anybody keeps that, since it writes behind everything in the log
(`LogOrdered`), and so does any operation that only removes (`Retains`). A checkpoint divides
when it is read, because its step has no entry yet (`Early`) and everything committed is at or
below `last_committed_tx`; an entry staged later is of a step at or after every checkpoint of
its task (`NoneLater`, which "stale" excepts) and has a higher id (`CheckpointsOlder` of
`BudgetInv`). That a run after a failure goes on to the next step is needed for `Early`: on
the same step it would save a checkpoint behind the entry of the failure.

### 4.8 Only model-checked

* Liveness (`ComesUp`, `CommitReturns`, `EveryoneAnswered`, `Reopens`, `RunReturns`): the
  prover has no rules for fairness and ENABLED.
* `BudgetReturned`, the bound on the budget from above.
* `ReadLatest` and `GetUndisturbed` with flushes by callers and failing flushes
  (`lsm_concurrent`), where several flushes and several logs are about at a time.

No module declares a RECURSIVE operator.

## 5. Where the code departs from what it says

Four runs show one departure each (PROJECT.json, findings): `lsm_append_fails`,
`group_commit_flush_race`, `tx_counter` and `db_intent`. The models show these
too, with the constants given (others as in the run's configuration):

| Said | Shown by | What happens |
|---|---|---|
| "Ensures durability by logging all operations before they are applied" (`contextra-store/src/lsm/mod.rs:25`) | `LsmTree`, `ReadLatest`: 1 key, MAX_TX 2, MAX_CRASHES 1, {"caller flush"} | A flush between append and apply removes the log that holds the commit; a crash loses it. |
| "WAL Replay bei Neustart stellt MemTable deterministisch wieder her" (`lsm/mod.rs:16`) | `LsmTree`, `Reopens`: MAX_TX 2, MAX_CRASHES 2, limit 0, {} | A second startup flush reuses, and empties, the name of a table in the MANIFEST; a crash then leaves a table `new()` refuses. |
| "non-critical if it fails, as it will be replayed safely" (`lsm/ops/compaction.rs:146`) | `LsmTree`, `ReadLatest`: MAX_TX 2, MAX_CRASHES 1, limit 0, {"unlink error"} | `wal.log` sorts after `wal-0...0.log`, so its older versions are replayed last. |
| "Compaction darf keine Daten verlieren" (`lsm/mod.rs:5`) | `LsmTree`, `ReadLatest`: MAX_TX 3, MAX_CRASHES 1, limit 0, {"rollover"} | A table added between the listing and the rename of a MANIFEST rollover is lost. |
| "no older SSTables exist, so GC'ing it is safe" (`compaction/engine.rs:614`) | `LsmTree`, `ReadLatest`: MAX_TX 3, limit 0, {"caller flush", "delete"} | A slow flush publishes the older value after the tombstone was dropped. |
| "Snapshot-Konsistenz über die gesamte Methode" (`lsm/ops/read.rs:27`) | `LsmTree`, `GetLinearizable`: 1 reader, MAX_TX 2, {"caller flush"} | A commit and its flush between the loads and the lock sections make `get` answer None for a key that has a value. |
| "`commit_mutex` serialization prevents race conditions between a failing transaction undergoing WAL HMAC rollback and a concurrent successful commit" (`contextra-store/tests/wal_hmac_rollback_race.rs:5`) | `GroupCommit`, `AckedDurable`: 2 transactions, limit 9, {"append error"} | The rollback truncates what another leader has appended and then acknowledges. |
| "WAL HMAC-Kette enthält keine Gabelungen nach Group-Commit" (`tests/wal_hmac_chain_ordering.rs:2`) | `GroupCommit`, `ChainIntact` without `wal = 0`: 3 transactions, limit 0, {} | Entries chained to the old log are the first of the new one after a flush. |
| "preventing snapshot inversion" (`lsm/mod.rs:53`) | `GroupCommit`, `MemtableInOrder`: 2 transactions, limit 9, {} | Two leaders apply in the opposite order of their sequence numbers. |
| "Folgetransaktionen erfolgreich durchlaufen" (`tests/group_commit_timeout.rs:4`) | `GroupCommit`, `ChainIntact` without its condition on commits: 3 transactions, limit 9, {"timeout"} | A timeout drops prepared entries; the chain goes on from their HMAC. |
| "vermeidet Kollisionen" (`contextra-checkpoint/src/store.rs:137`) | read off `PersistHwm` and `FetchAdd` | The mark is written under the last id of the batch that it reserves, which is handed out later. |
| "persisted to guarantee TxId monotonicity across restarts" (`contextra-checkpoint/src/store.rs:97`) | run `tx_counter` | `LsmStorage::get` shows no internal versions from SSTables, and the mark is flushed as soon as it is written; the next `open` does not find it and ids repeat. |
| "Compaction darf keine Daten verlieren" (`lsm/mod.rs:5`) | `LsmTree`, `ReadLatest`: MAX_TX 4, limit 0, {"tier gaps"} | A tier of tables of similar size that are no neighbours by age is merged into a table that sorts behind a newer one. |
| "Ermittlung aller seit `snapshot_tx` getätigten Operationen via `SequenceLog::changes_since()`, Replay des Deltas" (`docs/decisions/ADR-061-2-phasen-lock-fuer-hnsw-rebuild.md:8`) | `HnswIndex`, `IndexLatest` without `late`; `NoGhost` without `torn` | A transaction with a smaller id that commits during a rebuild is not in the delta; a snapshot between the log entry of a deletion and its `last_tx_id` takes older tombstones of the document for live nodes. |
| "Pins a historical sequence number to prevent rebuild from purging" (`contextra-mvcc/src/seq_log.rs:111`) | `HnswIndex`, `PinnedFound` without `exposed`, `unordered` or `torn` | A pin taken between the phases does not hold back tombstones that phase 1 has dropped. |
| as above | `HnswIndex`, `NoGhost`: {"overwrite"} or {"insert_then_delete"} | The old node of an overwritten document is no tombstone; deletes are applied before inserts, whatever their order. |
| "Commits the transaction atomically across all 4 indices (LSM, HNSW, BM25, CSR)." (`contextra-engine/src/transaction/db_transaction_commit.rs:114`) | `DbTransaction`, `AtomicSpec`, `Agreement`, `IntentUpheld`: {"same document"} and an index error | The lock of a key is given up before the transaction begins; compensation puts back over another's commit. |
| "Transaction was aborted and compensated." (`contextra-engine/src/transaction/intent.rs:24`) | run `db_intent` | A crash before the intent is settled: repair marks a transaction Aborted when none of its documents exists, also one that has only deleted and is committed. |
| as above | `DbTransaction`, `IntentUpheld`: {"index error", "compensation error", "partial compensation"} | An attempt commits, intent Aborted included, although some of its puts were refused. |
| "Commits the transaction atomically across all 4 indices" | `DbTransaction`, `Agreement` without `stale` and `undone` | Compensation of HNSW and text deletes the document instead of restoring the old version, and does not undo postings and graph keys; an entity that the graph's memory does not know is not removed; a deletion marker is never erased, so a re-inserted entity is skipped at the next open. |
| "while maintaining full BM25 correctness" (`contextra-text/tests/tombstone_update.rs:4`) | `TextIndex`, `FullyFound`: 1 document, 2 terms, 2 transactions, {"upsert", "update"} | The tombstones of an update hide the document under the terms it keeps, until `resolve_tombstones`, which only tests call; so does the repair after a crash. |
| "removes posting-list entries for terms that are no longer present" (`contextra-text/src/inverted/index_struct.rs:323`) | `TextIndex`, `NoGhost` without `Forgotten` in `raced`: 2 documents, 1 term, 5 transactions, no crash, {"upsert", "delete", "resolve"} | With two dead tombstones of one term, removing the first document empties the cached list, which leaves the cache; for the second the committed list is read, with the first document in it, and staged as a whole. Its tombstone is gone, so searches find the first document again. No two transactions overlap. |
| "Ensures single-writer serialization during transactional stats commits" (`contextra-text/src/inverted/index_struct.rs:13`) | `TextIndex`, `StatsExact` without `skewed` | The lock is released before the number is written; an update counts one document less; the unsigned count wraps below zero. |
| the cache of posting lists | `TextIndex`, `PostingsKept` and `NoGhost` without `raced` | Whole lists staged by two transactions overwrite each other; a rollback drops what others have changed; a search at an older sequence number puts its list into the shared cache. |
| "zero deletion/update paths by design" (`contextra-agent/src/audit.rs:3`) | `AgentEngine`, 2 tasks, `CommittedAudited` without "erased" | `replay_from` rolls the whole store back, commits of running tasks included; there is no barrier. |
| a restart keeps what is committed | `AgentEngine`, `CommittedKept` without "blind" | Recovery ignores the `max_tx_id` of a table whose newest record is internal (`lsm/recovery.rs:337`): with no user transaction in the log `last_committed_tx` is too low, rows are unreadable and ids are used again. A completed run and a restart suffice. |
| "um Datenverlust neuerer Transaktionen zu verhindern" (`contextra-checkpoint/src/guard.rs:189`) | `AgentEngine`, `CommittedKept` without "raced" | Orphan recovery reads `last_tx_id` once, then rolls back over what was committed since. |
| survivors of a spanning table | `AgentEngine`, `CommittedKept` without "unlogged" | Fewer than eight live only in the memtable, and `next_seq_no` does not count them; a restart loses them. |
| as above | `AgentEngine`, `CommittedAudited` without "blind": 3 runs, {"tool_error", "run_without_replay"} | After a flush and a restart ids are used again: the entry of a failure is put over that of a success, and the row of the step becomes readable again with it. |
| replaying from a checkpoint that a replay has outdated | `AgentEngine`, `ReplayExact` without "stale": 2 replays, 3 runs, a failed append | The checkpoint saved after the flush at an End node survives a replay to an earlier step; a replay from it later rolls back to a transaction that is no longer its own. |
| ids of the dead letter queue | `AgentEngine`, `ReplayExact` without "ahead"; 2 tasks, `CommittedAudited` without "mixed" | Its counter is independent of `next_tx`: two users stage under one id, and the failure of one drains the other; and `last_tx_id` runs ahead, so that a replay keeps audit entries and the steps cannot run again. |
| the budget of a replayed task | `AgentEngine`, `BudgetCovers` without "ahead": 4 runs | The letters of a timeout and of an error push `last_tx_id` past the counter; the replay keeps the audit entry of the step it repeats, and the tokens of that entry are not in the restored budget. |
| the comments on `audit_log` | `AgentEngine`, `ReplayExact`: {"same_step"}; `BudgetCovers`: 3 runs, {"run_without_replay"} | A second run on the same step saves its checkpoint after the audit entry; a fresh context after a restart has consumed nothing. |
| "to prevent unbounded loops" (`contextra-agent/src/engine.rs:33`) | `AgentEngine`, `RunReturns` with a cycle of two Decision nodes | Only executed nodes count as steps. |

Read off the code, in parts that are not modelled: two checkpoints at one sequence
number share their metadata; re-creating a checkpoint under its name and sequence
number leaks a pin, and a restart loses all pins (only tests and benchmarks use these
operations); the timeout of `repair_on_open` leaves intents pending. Read off the code in
parts that are modelled, without a property of their own: a dead letter is written at a
timeout although a retry may succeed (`ToolTimeout`); a rollback to a user transaction
drops every flushed internal record (`RollbackToTx`), which
`contextra-checkpoint/tests/time_travel_correctness.rs:13` says are preserved.

## 6. Plan

1. `SnapshotPins`: the snapshot registry and compaction's `min_active_seqno`, flush
   keeping only the latest version, checkpoint pins; property: a pinned snapshot
   reads the same value until it is released.
2. An abstract key-value store that `LsmTree` refines in an orderly environment:
   `OrderlyInv` already gives the value of every key at every step.
3. The inside of `rollback_to_tx`: intent files and a crash at any step.
4. Checkpoint create, drop and pins; the KV cache; consolidation of memories.
5. Proofs: `ReadLatest` with flushes by callers while the process lives, the
   environment of `lsm_concurrent`.

**Not modelled, and why.** Most lines of this repository are of kinds that a model
checker says little about: numerical algorithms (ranking, PPR, Leiden, bandits,
distance kernels, quantizers, BM25 scores), which need real arithmetic on large
inputs; byte formats and encodings of immutable files; clients of networks and
foreign functions; cryptographic primitives; report generators and build tools
(`xtask`). The modules cover the parts where steps of several actors, failures and
crashes meet on shared or durable state; PROJECT.json gives the reason for each of
the others.
