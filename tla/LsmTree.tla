------------------------------- MODULE LsmTree -------------------------------
(***************************************************************************)
(* The LSM storage engine (contextra-store/src/lsm and compaction): the     *)
(* single-commit path, flush by the committer, by any caller and at         *)
(* startup, size-tiered compaction, get, and recovery after a crash at any  *)
(* step.                                                                    *)
(*                                                                         *)
(* Data.  A transaction writes one key; TxIds are handed out once and       *)
(* commit in TxId order, so the value of a key is named by the TxId that    *)
(* wrote it, and No stands for "no value".  An entry remembers the log file *)
(* it was written to.  A memtable is the set of its entries: in a running   *)
(* process they are pushed in sequence order, and replay pushes them file   *)
(* by file (PushedBefore).  No snapshot is pinned: min_active_seqno is      *)
(* u64::MAX.  The compaction loop sleeps check_interval before its first    *)
(* round, which is taken to outlast the startup flush.                      *)
(***************************************************************************)
EXTENDS Integers, FiniteSets, FiniteSetsExt

CONSTANTS Keys,
          Readers,              \* concurrent callers of get
          MAX_TX,               \* bound: transactions
          MAX_CRASHES,          \* bound: crashes and failed startups
          MAX_FILES,            \* bound: files created when a flush still fails
          memtable_size_limit,  \* LsmConfig, in entries
          min_sstables_per_tier,\* CompactionConfig
          encryption_at_rest,   \* the Cargo feature, off by default
          Environment           \* which of Events can happen

\* What callers and the operating system may do besides putting keys:
\* delete keys, call flush() themselves, fail an append, a flush or an
\* unlink, give SSTables sizes that put gaps between the tables of a tier, and
\* let the MANIFEST outgrow DEFAULT_ROLLOVER_THRESHOLD_BYTES.
Events == {"delete", "caller flush", "append error", "flush error",
           "unlink error", "tier gaps", "rollover"}

ASSUME LsmAssumption ==
    /\ MAX_TX \in Nat /\ MAX_CRASHES \in Nat /\ MAX_FILES \in Nat
    /\ memtable_size_limit \in Nat /\ encryption_at_rest \in BOOLEAN
    /\ min_sstables_per_tier \in Nat \ {0, 1}
    /\ Environment \subseteq Events

No      == 0                  \* no value, no transaction
WAL_LOG == -1                 \* the log file "wal.log"; wal-<n>.log is n
NoWal   == -2
Wals    == Nat \cup {WAL_LOG}
Flushers == {"commit", "caller", "startup"}

Entry == [key : Keys, seq : Nat, tx : Nat, tomb : BOOLEAN, log : Wals]
TableId == (Nat \cup {-1}) \X Nat        \* sst-<seq>-<count>, sst-compact-<n>

VARIABLES phase,             \* "down", "starting", "cleanup" (in new) or "up"
          next_seq_no, last_committed_tx, flush_counter, segment_counter,
          memtable, immutable_memtables,
          wal,               \* the active log file
          sstables,          \* the open SSTables
          commit,            \* the holder of commit_mutex, in commit()
          flush,             \* each running flush()
          compaction,        \* the background compaction
          old_wals,          \* the logs new() still has to remove
          wal_files, wal_data, manifest, torn,   \* the disk
          reader,            \* each running get()
          lastTx, crashes, committed             \* histories

counters == <<next_seq_no, last_committed_tx, flush_counter, segment_counter>>
disk     == <<wal_files, wal_data, manifest, torn>>
history  == <<lastTx, crashes, committed>>
vars     == <<phase, counters, memtable, immutable_memtables, wal, sstables,
              commit, flush, compaction, old_wals, disk, reader, history>>

-----------------------------------------------------------------------------
(* Reading.                                                                *)

MaxOr0(S) == IF S = {} THEN 0 ELSE Max(S)
Seqs(es)  == {e.seq : e \in es}

Value(e) == IF e.tomb THEN No ELSE e.tx

\* SstableMetadata::max_seq, with the tombstone bit masked; 0 when empty.
max_seq(t) == MaxOr0(Seqs(t.data))

\* The order of the log files in new(): by number, then by path, and
\* "wal-00000000000000000000.log" sorts before "wal.log".
FileNo(w) == IF w = WAL_LOG THEN 0 ELSE w
Rank(w)   == IF w = WAL_LOG THEN 1 ELSE 2 * w

\* The order in which the versions of a key reached the memtables: replay
\* pushes them file by file, a running process in sequence order.
PushedBefore(e, f) ==
    IF phase = "up" THEN e.seq < f.seq
    ELSE Rank(e.log) < Rank(f.log) \/ (e.log = f.log /\ e.seq < f.seq)

\* MemTable::iter_latest, over memtables taken from the oldest to the newest.
LatestPerKey(es) ==
    {e \in es : \A f \in es : f.key = e.key /\ f # e => PushedBefore(f, e)}

Visible(e, seq_no, snapshot_tx) == e.seq <= seq_no /\ e.tx <= snapshot_tx

\* get_at_seq on the memtables es and the SSTables ssts: the newest visible
\* version in memory, otherwise the visible version of the SSTable with the
\* greatest max_seq.  A set, since tables may tie.
Lookup(k, es, ssts, seq_no, snapshot_tx) ==
    LET Hit(S) == {e \in S : e.key = k /\ Visible(e, seq_no, snapshot_tx)}
        hits   == {t \in ssts : Hit(t.data) # {}}
        newest == {t \in hits : \A u \in hits : max_seq(u) <= max_seq(t)}
    IN  IF Hit(es) # {} THEN {Value(e) : e \in LatestPerKey(Hit(es))}
        ELSE IF hits = {} THEN {No}
        ELSE {Value(e) : e \in UNION {Hit(t.data) : t \in newest}}

InMemory_ActiveOnly == memtable             \* mutant: no frozen memtables
InMemory == memtable \cup UNION immutable_memtables

\* What a get that nothing overtakes answers.
Get(k) == Lookup(k, InMemory, sstables, next_seq_no, last_committed_tx)

\* What scan_prefix and scan_range answer: the greatest sequence number
\* among all sources (collect_visible_entries), under one pair of locks.
Scan(k) ==
    LET all == {e \in InMemory \cup UNION {t.data : t \in sstables} :
                   e.key = k /\ e.tx <= last_committed_tx}
    IN  IF all = {} THEN {No}
        ELSE {Value(e) : e \in {x \in all : \A y \in all : y.seq <= x.seq}}

-----------------------------------------------------------------------------
IdleCommit == [pc |-> "idle"]
IdleFlush  == [pc |-> "idle"]
IdleReader == [pc |-> "idle"]
NoMerge    == [pc |-> "idle"]

Init ==
    /\ phase = "down"
    /\ next_seq_no = 0 /\ last_committed_tx = No
    /\ flush_counter = 0 /\ segment_counter = 0
    /\ memtable = {} /\ immutable_memtables = {} /\ wal = NoWal /\ sstables = {}
    /\ commit = IdleCommit /\ flush = [f \in Flushers |-> IdleFlush]
    /\ compaction = NoMerge /\ old_wals = {}
    /\ wal_files = {} /\ wal_data = {} /\ manifest = {} /\ torn = {}
    /\ reader = [r \in Readers |-> IdleReader]
    /\ lastTx = 0 /\ crashes = 0 /\ committed = [k \in Keys |-> No]

-----------------------------------------------------------------------------
(* commit, with group_commit_window_micros = 0.                            *)

\* commit_mutex, the drained operation, its sequence number, the clone of
\* the active log.
CommitPrepare(k, tomb) ==
    /\ phase = "up" /\ commit.pc = "idle" /\ lastTx < MAX_TX
    /\ tomb => "delete" \in Environment
    /\ lastTx' = lastTx + 1
    /\ next_seq_no' = next_seq_no + 1
    /\ commit' = [pc |-> "append",
                  entry |-> [key |-> k, seq |-> next_seq_no, tx |-> lastTx + 1,
                             tomb |-> tomb, log |-> wal]]
    /\ UNCHANGED <<phase, last_committed_tx, flush_counter, segment_counter, memtable,
                   immutable_memtables, wal, sstables, flush, compaction, old_wals,
                   disk, reader, crashes, committed>>

\* wal.append_batch, on the cloned log: a flush may have replaced it, or even
\* removed its file, meanwhile.
CommitAppend ==
    /\ commit.pc = "append"
    /\ commit' = [commit EXCEPT !.pc = "apply"]
    /\ wal_data' = wal_data \cup {e \in {commit.entry} : e.log \in wal_files}
    /\ UNCHANGED <<phase, counters, memtable, immutable_memtables, wal, sstables, flush,
                   compaction, old_wals, wal_files, manifest, torn, reader, history>>

\* find_tx_offset(last_committed_tx) and truncate on the active log.  No entry
\* of it is newer, but without the feature the scan under find_tx_offset never
\* calls back, the offset stays 0 and the whole log is cut off.
Truncated == IF encryption_at_rest THEN wal_data ELSE {e \in wal_data : e.log # wal}

\* append_batch fails: rollback_to_tx_locked truncates the active log, meets no
\* newer SSTable, rebuilds the memtable from the active log, drops the
\* immutable memtables and recomputes next_seq_no.
CommitAppendFails ==
    /\ commit.pc = "append" /\ "append error" \in Environment
    /\ commit' = IdleCommit
    /\ wal_data' = Truncated
    /\ memtable' = {e \in wal_data' : e.log = wal}
    /\ immutable_memtables' = {}
    /\ next_seq_no' = MaxOr0(Seqs(memtable') \cup {max_seq(t) : t \in sstables}) + 1
    /\ UNCHANGED <<phase, last_committed_tx, flush_counter, segment_counter, wal, sstables,
                   flush, compaction, old_wals, wal_files, manifest, torn, reader, history>>

\* state.write: visibility, memtable, and the decision to flush.
CommitApply ==
    /\ commit.pc = "apply"
    /\ last_committed_tx' = Max({last_committed_tx, commit.entry.tx})
    /\ memtable' = memtable \cup {commit.entry}
    /\ commit' = IF Cardinality(memtable') > memtable_size_limit
                 THEN [commit EXCEPT !.pc = "flush"] ELSE IdleCommit
    /\ committed' = [committed EXCEPT ![commit.entry.key] = Value(commit.entry)]
    /\ reader' = [r \in Readers |->
                     IF reader[r].pc # "idle" /\ reader[r].key = commit.entry.key
                     THEN [reader[r] EXCEPT !.seen = @ \cup {Value(commit.entry)},
                                            !.overtaken = TRUE]
                     ELSE reader[r]]
    /\ UNCHANGED <<phase, next_seq_no, flush_counter, segment_counter, immutable_memtables,
                   wal, sstables, flush, compaction, old_wals, disk, lastTx, crashes>>

-----------------------------------------------------------------------------
(* flush: by the committer (who keeps commit_mutex), by a caller, by new.   *)

MayFlush(f) ==
    /\ flush[f].pc = "idle"
    /\ \/ f = "commit" /\ commit.pc = "flush"
       \/ f = "caller" /\ phase = "up" /\ "caller flush" \in Environment
       \/ f = "startup" /\ phase = "starting"

\* Mutant: commit_mutex is kept after the flush.
Return_KeepsMutex(f) ==
    /\ flush' = [flush EXCEPT ![f] = IdleFlush]
    /\ commit' = commit
    /\ phase' = IF f = "startup" THEN "cleanup" ELSE phase

\* The flush returns: its caller goes on.
Return(f) ==
    /\ flush' = [flush EXCEPT ![f] = IdleFlush]
    /\ commit' = IF f = "commit" THEN IdleCommit ELSE commit
    /\ phase' = IF f = "startup" THEN "cleanup" ELSE phase

\* Phases 0 and 1: the next log file is created before any lock is taken.
FlushStart(f) ==
    /\ MayFlush(f)
    /\ memtable # {} \/ immutable_memtables # {}
    /\ LET created == {flush_counter : e \in memtable}
       IN  /\ flush' = [flush EXCEPT ![f] = [pc |-> "swap", new_wal |-> created]]
           /\ wal_files' = wal_files \cup created
           /\ flush_counter' = flush_counter + Cardinality(created)
    /\ UNCHANGED <<phase, next_seq_no, last_committed_tx, segment_counter, memtable,
                   immutable_memtables, wal, sstables, commit, compaction, old_wals,
                   wal_data, manifest, torn, reader, history>>

\* Phase 2, under state.write: a flush that overtook this one may have left
\* nothing to do, or a commit may have filled the memtable since phase 0.
FlushNothing(f) ==
    /\ \/ MayFlush(f) \/ flush[f].pc = "swap"
    /\ memtable = {} /\ immutable_memtables = {}
    /\ Return(f)
    /\ UNCHANGED <<counters, memtable, immutable_memtables, wal, sstables, compaction,
                   old_wals, disk, reader, history>>

\* The memtable that is frozen: none when it is empty.
Frozen_Empty == {memtable}                  \* mutant: an empty one too
Frozen == {memtable} \ {{}}

FlushSwap(f) ==
    /\ flush[f].pc = "swap"
    /\ memtable # {} \/ immutable_memtables # {}
    /\ LET late == memtable # {} /\ flush[f].new_wal = {}
           new  == IF late THEN {flush_counter} ELSE flush[f].new_wal
       IN  /\ flush_counter' = IF late THEN flush_counter + 1 ELSE flush_counter
           /\ wal_files' = wal_files \cup new
           /\ wal' = IF memtable = {} THEN wal ELSE CHOOSE w \in new : TRUE
    /\ memtable' = {}
    /\ immutable_memtables' = immutable_memtables \cup Frozen
    /\ flush' = [flush EXCEPT ![f] = [pc |-> "create", to_flush |-> immutable_memtables',
                                      old_wal |-> IF memtable = {} THEN {} ELSE {wal}]]
    /\ UNCHANGED <<phase, next_seq_no, last_committed_tx, segment_counter, sstables, commit,
                   compaction, old_wals, wal_data, manifest, torn, reader, history>>

\* The file name, and File::create, which empties a file of that name.
FlushCreate(f) ==
    /\ flush[f].pc = "create"
    /\ segment_counter' = segment_counter + 1
    /\ LET id == <<next_seq_no, segment_counter>>
       IN  /\ flush' = [flush EXCEPT ![f] =
                          [pc |-> "write", old_wal |-> flush[f].old_wal,
                           to_flush |-> flush[f].to_flush,
                           table |-> [id |-> id, data |-> LatestPerKey(UNION flush[f].to_flush)]]]
           /\ torn' = torn \cup {id}
    /\ UNCHANGED <<phase, next_seq_no, last_committed_tx, flush_counter, memtable,
                   immutable_memtables, wal, sstables, commit, compaction, old_wals,
                   wal_files, wal_data, manifest, reader, history>>

Without(tables, id) == {t \in tables : t.id # id}

\* The table is written and synced, then entered in the MANIFEST.
FlushWrite(f) ==
    /\ flush[f].pc = "write"
    /\ LET t == flush[f].table
       IN  /\ torn' = torn \ {t.id}
           /\ manifest' = Without(manifest, t.id) \cup {t}
    /\ flush' = [flush EXCEPT ![f].pc = "publish"]
    /\ UNCHANGED <<phase, counters, memtable, immutable_memtables, wal, sstables, commit,
                   compaction, old_wals, wal_files, wal_data, reader, history>>

\* A log file cannot be created, or phase 3 fails before the table is in the
\* MANIFEST: the partial table goes, the memtables and the log stay.
RemovePartial(f) ==
    LET partial == IF flush[f].pc = "write" THEN {flush[f].table.id} ELSE {}
    IN  /\ torn' = torn \ partial
        /\ manifest' = {t \in manifest : t.id \notin partial}

FlushFails(f) ==
    /\ "flush error" \in Environment /\ flush_counter + segment_counter <= MAX_FILES
    /\ f # "startup" /\ flush[f].pc \in {"swap", "write"}
    /\ RemovePartial(f)
    /\ Return(f)
    /\ UNCHANGED <<counters, memtable, immutable_memtables, wal, sstables, compaction,
                   old_wals, wal_files, wal_data, reader, history>>

\* The memtables that were frozen while this flush wrote its table stay.
StillFrozen_None(f) == {}                   \* mutant: they are dropped too
StillFrozen(f) == immutable_memtables \ flush[f].to_flush

\* Under state.write and sstables.write.
FlushPublish(f) ==
    /\ flush[f].pc = "publish"
    /\ LET t == flush[f].table
       IN  /\ sstables' = Without(sstables, t.id) \cup {t}
           /\ last_committed_tx' = MaxOr0({last_committed_tx} \cup {e.tx : e \in t.data})
    /\ immutable_memtables' = StillFrozen(f)
    /\ flush' = [flush EXCEPT ![f].pc = "unlink"]
    /\ UNCHANGED <<phase, next_seq_no, flush_counter, segment_counter, memtable, wal, commit,
                   compaction, old_wals, disk, reader, history>>

Unlink(ws) ==
    /\ wal_files' = wal_files \ ws
    /\ wal_data' = {e \in wal_data : e.log \notin ws}

\* The log that this flush replaced is removed, best effort.
FlushUnlink(f) ==
    /\ flush[f].pc = "unlink"
    /\ \/ Unlink(flush[f].old_wal)
       \/ "unlink error" \in Environment /\ UNCHANGED <<wal_files, wal_data>>
    /\ Return(f)
    /\ UNCHANGED <<counters, memtable, immutable_memtables, wal, sstables, compaction,
                   old_wals, manifest, torn, reader, history>>

Flush(f) ==
    \/ FlushStart(f) \/ FlushNothing(f) \/ FlushSwap(f) \/ FlushCreate(f)
    \/ FlushWrite(f) \/ FlushFails(f) \/ FlushPublish(f) \/ FlushUnlink(f)

-----------------------------------------------------------------------------
(* Compaction: the background loop, one round at a time.                   *)

\* The tables of one size tier.  Sizes are not modelled: any tables may be
\* of one tier, but without "tier gaps" only neighbours in max_seq order.
IsTier(inputs) ==
    /\ Cardinality(inputs) >= min_sstables_per_tier
    /\ "tier gaps" \in Environment \/
          \A u \in sstables \ inputs :
             \/ \A t \in inputs : max_seq(u) < max_seq(t)
             \/ \A t \in inputs : max_seq(u) > max_seq(t)

\* Mutant: any compaction drops tombstones.
Merge_DropsTombstones(inputs, full) ==
    LET all == UNION {t.data : t \in inputs}
    IN  {e \in all : ~e.tomb /\ \A f \in all : f.key = e.key => f.seq <= e.seq}

\* merge_sstables: the newest version of each key; a full compaction drops
\* tombstones.
Merge(inputs, full) ==
    LET all == UNION {t.data : t \in inputs}
    IN  {e \in all : /\ \A f \in all : f.key = e.key => f.seq <= e.seq
                     /\ ~(e.tomb /\ full)}

\* sst-compact-<microseconds>: a name never used before.
FreshCompactId ==
    <<-1, 1 + MaxOr0({t.id[2] : t \in {u \in sstables \cup manifest : u.id[1] = -1}})>>

\* Candidates under one read lock, then the merge, without a lock.
CompactSelect ==
    /\ phase = "up" /\ compaction.pc = "idle"
    /\ \E inputs \in SUBSET sstables :
          /\ IsTier(inputs)
          /\ compaction' = [pc |-> "replace", inputs |-> inputs,
                            table |-> [id |-> FreshCompactId,
                                       data |-> Merge(inputs, inputs = sstables)]]
    /\ UNCHANGED <<phase, counters, memtable, immutable_memtables, wal, sstables, commit,
                   flush, old_wals, disk, reader, history>>

\* Cancelled, out of memory, or an I/O error: the output is removed.
CompactAbort ==
    /\ compaction.pc = "replace"
    /\ compaction' = NoMerge
    /\ UNCHANGED <<phase, counters, memtable, immutable_memtables, wal, sstables, commit,
                   flush, old_wals, disk, reader, history>>

\* The inputs are still there: one Replace entry in the MANIFEST.
CompactReplace ==
    /\ compaction.pc = "replace" /\ compaction.inputs \subseteq sstables
    /\ manifest' = (manifest \ compaction.inputs) \cup {compaction.table}
    /\ compaction' = [compaction EXCEPT !.pc = "swap"]
    /\ UNCHANGED <<phase, counters, memtable, immutable_memtables, wal, sstables, commit,
                   flush, old_wals, wal_files, wal_data, torn, reader, history>>

CompactSwap ==
    /\ compaction.pc = "swap"
    /\ sstables' = (sstables \ compaction.inputs) \cup {compaction.table}
    /\ compaction' = NoMerge
    /\ UNCHANGED <<phase, counters, memtable, immutable_memtables, wal, commit, flush,
                   old_wals, disk, reader, history>>

\* The live entries are listed under a read lock; the MANIFEST that replaces
\* the old one is written from that list.
RolloverList ==
    /\ phase = "up" /\ compaction.pc = "idle" /\ "rollover" \in Environment
    /\ compaction' = [pc |-> "rollover", live |-> sstables]
    /\ UNCHANGED <<phase, counters, memtable, immutable_memtables, wal, sstables, commit,
                   flush, old_wals, disk, reader, history>>

RolloverRename ==
    /\ compaction.pc = "rollover"
    /\ manifest' = compaction.live
    /\ compaction' = NoMerge
    /\ UNCHANGED <<phase, counters, memtable, immutable_memtables, wal, sstables, commit,
                   flush, old_wals, wal_files, wal_data, torn, reader, history>>

Compaction ==
    \/ CompactSelect \/ CompactAbort \/ CompactReplace \/ CompactSwap
    \/ RolloverList \/ RolloverRename

-----------------------------------------------------------------------------
(* Crash, and LsmStorage::new.                                             *)

ProcessEnds ==
    /\ crashes < MAX_CRASHES
    /\ crashes' = crashes + 1
    /\ phase' = "down"
    /\ next_seq_no' = 0 /\ last_committed_tx' = No
    /\ flush_counter' = 0 /\ segment_counter' = 0
    /\ memtable' = {} /\ immutable_memtables' = {} /\ wal' = NoWal /\ sstables' = {}
    /\ commit' = IdleCommit /\ flush' = [f \in Flushers |-> IdleFlush]
    /\ compaction' = NoMerge /\ old_wals' = {}
    /\ reader' = [r \in Readers |-> IdleReader]
    /\ lastTx' = lastTx

\* The process dies.  A transaction that reached the log is committed.
Crash ==
    /\ phase # "down"
    /\ ProcessEnds
    /\ committed' = [k \in Keys |->
          IF commit.pc = "apply" /\ commit.entry.key = k /\ commit.entry \in wal_data
          THEN Value(commit.entry) ELSE committed[k]]
    /\ UNCHANGED disk

\* The flush at startup fails, and with it new().
StartupFails ==
    /\ "flush error" \in Environment
    /\ flush["startup"].pc \in {"swap", "write"}
    /\ RemovePartial("startup")
    /\ ProcessEnds
    /\ UNCHANGED <<wal_files, wal_data, committed>>

\* Mutant: any partial table in the directory makes new() fail.
OpenRefused_Strict == torn # {}

\* A table of the MANIFEST that cannot be read makes new() fail.
OpenRefused == \E t \in manifest : t.id \in torn

\* All log files are replayed in order; the last one stays active.
ActiveLog ==
    IF wal_files = {} THEN WAL_LOG
    ELSE CHOOSE w \in wal_files : \A v \in wal_files : Rank(v) <= Rank(w)

ReplayedLogs_All == wal_files               \* mutant: the active log too
ReplayedLogs == wal_files \ {ActiveLog}

Recovered == wal_data \cup UNION {t.data : t \in manifest}

RecoveredSeqNo_Wal == MaxOr0(Seqs(wal_data)) + 1   \* mutant: the logs alone
RecoveredSeqNo == MaxOr0(Seqs(Recovered)) + 1

\* A memtable that is not empty after the replay is flushed.
AfterReplay_NoFlush == "cleanup"            \* mutant: it is not
AfterReplay == IF wal_data = {} THEN "cleanup" ELSE "starting"

\* Tables outside the MANIFEST are ignored.
Replay ==
    /\ phase = "down" /\ ~OpenRefused
    /\ memtable' = wal_data /\ immutable_memtables' = {}
    /\ sstables' = manifest
    /\ wal' = ActiveLog /\ wal_files' = wal_files \cup {ActiveLog}
    /\ old_wals' = ReplayedLogs
    /\ flush_counter' = IF wal_files = {} THEN 0 ELSE Max({FileNo(w) : w \in wal_files}) + 1
    /\ segment_counter' = 0
    /\ next_seq_no' = RecoveredSeqNo
    /\ last_committed_tx' = MaxOr0({e.tx : e \in Recovered})
    /\ phase' = AfterReplay
    /\ UNCHANGED <<commit, flush, compaction, wal_data, manifest, torn, reader, history>>

\* The replayed logs are removed, the oldest first; then new() returns.
RemoveOldWal ==
    /\ phase = "cleanup" /\ old_wals # {}
    /\ LET w == CHOOSE v \in old_wals : \A x \in old_wals : Rank(v) <= Rank(x)
       IN  /\ old_wals' = old_wals \ {w}
           /\ \/ Unlink({w})
              \/ "unlink error" \in Environment /\ UNCHANGED <<wal_files, wal_data>>
    /\ UNCHANGED <<phase, counters, memtable, immutable_memtables, wal, sstables, commit,
                   flush, compaction, manifest, torn, reader, history>>

Opened ==
    /\ phase = "cleanup" /\ old_wals = {}
    /\ phase' = "up"
    /\ UNCHANGED <<counters, memtable, immutable_memtables, wal, sstables, commit, flush,
                   compaction, old_wals, disk, reader, history>>

-----------------------------------------------------------------------------
(* get, against everything above.                                          *)

\* next_seq_no and last_committed_tx are loaded, without a lock.
GetStart(r, k) ==
    /\ phase = "up" /\ reader[r].pc = "idle"
    /\ reader' = [reader EXCEPT ![r] =
          [pc |-> "memtables", key |-> k, seq_no |-> next_seq_no,
           snapshot_tx |-> last_committed_tx, seen |-> {committed[k]}, overtaken |-> FALSE]]
    /\ UNCHANGED <<phase, counters, memtable, immutable_memtables, wal, sstables, commit,
                   flush, compaction, old_wals, disk, history>>

\* state.read: the memtables are cloned.
GetMemtables(r) ==
    /\ reader[r].pc = "memtables"
    /\ reader' = [reader EXCEPT ![r] =
          [pc |-> "sstables", key |-> reader[r].key, seq_no |-> reader[r].seq_no,
           snapshot_tx |-> reader[r].snapshot_tx, seen |-> reader[r].seen,
           overtaken |-> reader[r].overtaken,
           es |-> {e \in InMemory : e.key = reader[r].key}]]
    /\ UNCHANGED <<phase, counters, memtable, immutable_memtables, wal, sstables, commit,
                   flush, compaction, old_wals, disk, history>>

\* sstables.read: the list is cloned, and get answers.
GetSstables(r) ==
    /\ reader[r].pc = "sstables"
    /\ reader' = [reader EXCEPT ![r] =
          [pc |-> "done", key |-> reader[r].key, seen |-> reader[r].seen,
           overtaken |-> reader[r].overtaken,
           answers |-> Lookup(reader[r].key, reader[r].es, sstables,
                              reader[r].seq_no, reader[r].snapshot_tx)]]
    /\ UNCHANGED <<phase, counters, memtable, immutable_memtables, wal, sstables, commit,
                   flush, compaction, old_wals, disk, history>>

GetReturn(r) ==
    /\ reader[r].pc = "done"
    /\ reader' = [reader EXCEPT ![r] = IdleReader]
    /\ UNCHANGED <<phase, counters, memtable, immutable_memtables, wal, sstables, commit,
                   flush, compaction, old_wals, disk, history>>

Reading(r) ==
    (\E k \in Keys : GetStart(r, k)) \/ GetMemtables(r) \/ GetSstables(r) \/ GetReturn(r)

-----------------------------------------------------------------------------
Commit ==
    \/ \E k \in Keys, tomb \in BOOLEAN : CommitPrepare(k, tomb)
    \/ CommitAppend \/ CommitAppendFails \/ CommitApply

Recovery == Replay \/ RemoveOldWal \/ Opened
ProcessStops == Crash \/ StartupFails

Next == Commit \/ (\E f \in Flushers : Flush(f)) \/ Compaction \/ ProcessStops \/ Recovery
        \/ (\E r \in Readers : Reading(r))

Spec == Init /\ [][Next]_vars

-----------------------------------------------------------------------------
\* The states of a task whose entries are in E and whose tables are in T.
Idle == [pc : {"idle"}]
CommitState(E) == Idle \cup [pc : {"append", "apply", "flush"}, entry : E]
FlushState(E, T) ==
    Idle \cup [pc : {"swap"}, new_wal : SUBSET Nat]
         \cup [pc : {"create"}, to_flush : SUBSET SUBSET E, old_wal : SUBSET Wals]
         \cup [pc : {"write", "publish", "unlink"}, to_flush : SUBSET SUBSET E,
               old_wal : SUBSET Wals, table : T]
CompactionState(T) ==
    Idle \cup [pc : {"replace", "swap"}, inputs : SUBSET T, table : T]
         \cup [pc : {"rollover"}, live : SUBSET T]
ReaderState ==
    Idle \cup [pc : {"memtables"}, key : Keys, seq_no : Nat, snapshot_tx : Nat,
               seen : SUBSET Nat, overtaken : BOOLEAN]
         \cup [pc : {"sstables"}, key : Keys, seq_no : Nat, snapshot_tx : Nat,
               seen : SUBSET Nat, overtaken : BOOLEAN, es : SUBSET Entry]
         \cup [pc : {"done"}, key : Keys, seen : SUBSET Nat, overtaken : BOOLEAN,
               answers : SUBSET Nat]

\* The store, the disk and the tasks that write to them hold only entries of E
\* and tables named in I; a frozen memtable is never empty.
DataIn(E, I) ==
    LET T == [id : I, data : SUBSET E]
    IN  /\ memtable \subseteq E /\ immutable_memtables \subseteq (SUBSET E) \ {{}}
        /\ sstables \subseteq T /\ manifest \subseteq T /\ torn \subseteq I
        /\ wal_data \subseteq E
        /\ commit \in CommitState(E) /\ flush \in [Flushers -> FlushState(E, T)]
        /\ compaction \in CompactionState(T)

\* The types of LsmStorage's fields, of the files and of each task's locals.
TypeOK ==
    /\ phase \in {"down", "starting", "cleanup", "up"}
    /\ next_seq_no \in Nat /\ last_committed_tx \in Nat
    /\ flush_counter \in Nat /\ segment_counter \in Nat
    /\ wal \in Wals \cup {NoWal} /\ old_wals \subseteq Wals /\ wal_files \subseteq Wals
    /\ DataIn(Entry, TableId)
    /\ reader \in [Readers -> ReaderState]
    /\ lastTx \in Nat /\ crashes \in Nat /\ committed \in [Keys -> Nat]

\* get answers the value of the last committed transaction on the key, with
\* deletes, flushes, compactions, crashes and recoveries in between.
ReadLatest == phase = "up" => \A k \in Keys : Get(k) = {committed[k]}

\* scan_prefix and scan_range answer the same.
ScanLatest == phase = "up" => \A k \in Keys : Scan(k) = {committed[k]}

\* Every sequence number that is still stored anywhere, on disk, in a
\* memtable or in a table that a flush or a compaction is writing, is below
\* the next one: recovery and the rollback of a failed append recompute
\* next_seq_no and never place it on a version that exists.
Stored ==
    InMemory \cup wal_data \cup (UNION {t.data : t \in sstables \cup manifest})
    \cup (UNION {flush[f].table.data :
                     f \in {g \in Flushers : flush[g].pc \in {"write", "publish"}}})
    \cup (IF compaction.pc \in {"replace", "swap"} THEN compaction.table.data ELSE {})
SeqAboveStored == phase = "up" => \A e \in Stored : e.seq < next_seq_no

\* The log that the next commit will be appended to is a file that a restart
\* finds, and none of the logs that new() is about to remove.
ActiveLogKept ==
    phase \in {"starting", "cleanup", "up"} => wal \in wal_files /\ wal \notin old_wals

\* What the last two rest on.  Each task runs in its phases, and a flush of the
\* committer only while it holds commit_mutex.
PhaseInv ==
    /\ commit.pc # "idle" => phase = "up"
    /\ flush["commit"].pc # "idle" => commit.pc = "flush"
    /\ flush["caller"].pc # "idle" => phase = "up"
    /\ flush["startup"].pc # "idle" => phase = "starting"
    /\ compaction.pc # "idle" => phase = "up"
    /\ \A r \in Readers : reader[r].pc # "idle" => phase = "up"

\* The log files that a flush, or new(), is about to remove.
Doomed ==
    old_wals \cup UNION {flush[f].old_wal :
                 f \in {g \in Flushers : flush[g].pc \in {"create", "write", "publish", "unlink"}}}

\* The log files that flushes have created and not yet put in place.
Coming(f) == IF flush[f].pc = "swap" THEN flush[f].new_wal ELSE {}

\* File numbers are below flush_counter, so that a new log is neither one that
\* is in use nor one that is about to be removed.
LogInv ==
    /\ \A e \in wal_data : e.log \in wal_files
    /\ phase # "down" =>
          /\ wal \in wal_files \ Doomed
          /\ \A w \in wal_files \cup Doomed : w < flush_counter
    /\ \A f \in Flushers :
          /\ Coming(f) \subseteq wal_files \ ({wal} \cup Doomed)
          /\ \A g \in Flushers \ {f} : Coming(f) \cap Coming(g) = {}

\* A get that other tasks overtake answers with a value that the key had at
\* some time between its call and its return ("Genau EINMAL laden --
\* Snapshot-Konsistenz ueber die gesamte Methode", lsm/ops/read.rs).
GetLinearizable ==
    \A r \in Readers : reader[r].pc = "done" => reader[r].answers \subseteq reader[r].seen

\* The part of it that holds: flushes, compactions and commits to other keys
\* may come between the loads and the two lock sections of a get, but as long
\* as no commit changes its key, the get answers with the key's value.
GetUndisturbed ==
    \A r \in Readers :
       reader[r].pc = "done" /\ ~reader[r].overtaken
          => reader[r].answers = reader[r].seen

\* new() never meets a table in the MANIFEST that it cannot read: the replay
\* restores the store ("WAL Replay bei Neustart stellt MemTable
\* deterministisch wieder her", lsm/mod.rs).
Damaged == \E t \in manifest : t.id \in torn
Reopens == phase = "down" => ~Damaged

-----------------------------------------------------------------------------
(* Why gets and scans answer what was committed, when callers only commit,   *)
(* and nothing fails but an append on a store with encryption at rest.      *)

Orderly ==
    /\ Environment \subseteq {"delete", "append error"}
    /\ "append error" \in Environment => encryption_at_rest

Data(tables) == UNION {t.data : t \in tables}

NewestOf(es) == {e \in es : \A f \in es : f.key = e.key => f.seq <= e.seq}

\* The newest of the versions es of k has the value v.
HasValue(es, k, v) ==
    IF \E e \in es : e.key = k
    THEN \E e \in NewestOf(es) : e.key = k /\ Value(e) = v
    ELSE v = No

\* A committed transaction that get does not see yet.
Pending == IF commit.pc = "apply" THEN {commit.entry} ELSE {}

\* Some flush is at one of these places, and its table.
Flushing(pcs) == \E f \in {"commit", "startup"} : flush[f].pc \in pcs
Flushed == flush[IF phase = "up" THEN "commit" ELSE "startup"]

\* Of two tables, the one with the greater max_seq has the newer version of
\* each key that both have.
Ordered(tables) ==
    \A t, u \in tables :
       max_seq(u) <= max_seq(t)
          => \A e \in t.data, f \in u.data : f.key = e.key => f.seq <= e.seq

\* A log that is still there was flushed as a whole or not at all: a table's
\* entries are in it or older than it, a table with entries of it is not older
\* than it for any key, and the name of a table that a flush wrote ends in the
\* sequence number after its last one.
FlushedWhole(tables) ==
    /\ \A x \in Data(tables), e \in wal_data : x \in wal_data \/ x.seq < e.seq
    /\ \A t \in tables :
          /\ t.data \cap wal_data # {} =>
                \A f \in t.data, e \in wal_data : e.key = f.key => e.seq <= f.seq
          /\ t.id[1] # -1 =>
                /\ \E x \in t.data : x.seq + 1 = t.id[1]
                /\ t.data \subseteq wal_data \/ t.data \cap wal_data = {}

\* What the disk holds, in any phase: one log with entries, and the value of
\* every key, in the tables alone once the log has been flushed.
DiskInv ==
    /\ \A e, f \in wal_data : e.log = f.log
    /\ \A e \in wal_data : e.seq > 0
    /\ \A e, f \in wal_data \cup Data(manifest \cup sstables) : e.seq = f.seq => e = f
    /\ Ordered(manifest) /\ FlushedWhole(manifest)
    /\ \A k \in Keys : HasValue((wal_data \ Pending) \cup Data(manifest), k, committed[k])
    /\ Flushing({"unlink"}) \/ phase = "cleanup" =>
          \A k \in Keys : HasValue(Data(manifest), k, committed[k])

\* The memtables are the log's entries until they are flushed.
MemoryInv ==
    phase # "down" =>
       /\ next_seq_no > 0
       /\ phase = "up" => old_wals = {}
       /\ IF Flushing({"create", "write", "publish"})
          THEN memtable = {} /\ immutable_memtables = {wal_data}
          ELSE /\ immutable_memtables = {}
               /\ memtable = IF Flushing({"unlink"}) \/ phase = "cleanup"
                             THEN {} ELSE wal_data \ Pending
       /\ IF Flushing({"create", "write", "publish", "unlink"}) \/ phase = "cleanup"
          THEN \A e \in wal_data : e.log \in Doomed
          ELSE \A e \in wal_data : e.log = wal \/ (phase = "starting" /\ e.log \in Doomed)
       /\ \A e \in wal_data \cup Data(sstables) : e.seq < next_seq_no
       /\ \A e \in InMemory \cup Data(sstables) : e.tx <= last_committed_tx

\* A commit has the newest sequence number, and a flush writes it.
TasksInv ==
    /\ commit.pc = "append" =>
          /\ commit.entry.log = wal /\ commit.entry.seq + 1 = next_seq_no /\ commit.entry.seq > 0
          /\ \A e \in wal_data \cup Data(sstables) : e.seq < commit.entry.seq
    /\ commit.pc = "apply" => commit.entry \in wal_data /\ commit.entry.seq + 1 = next_seq_no
    /\ commit.pc = "flush" \/ phase = "starting" => \E x \in wal_data : x.seq + 1 = next_seq_no
    /\ flush["caller"].pc = "idle"
    /\ Flushing({"create", "write", "publish"}) => Flushed.to_flush = {wal_data}
    /\ Flushing({"write", "publish"}) =>
          /\ Flushed.table.data = NewestOf(wal_data)
          /\ Flushed.table.id[1] = next_seq_no

\* The MANIFEST that the running compaction leaves, and the one that a flush
\* leaves between its entry in the MANIFEST and the swap of the tables.
Compacted ==
    IF compaction.pc = "swap"
    THEN (sstables \ compaction.inputs) \cup {compaction.table} ELSE sstables
ManifestInv ==
    phase # "down" =>
       manifest = IF Flushing({"publish"})
                  THEN Without(Compacted, Flushed.table.id) \cup {Flushed.table} ELSE Compacted

\* A merge of neighbours; a full one has only newer tables beside it.
CompactionInv ==
    /\ compaction.pc # "rollover"
    /\ compaction.pc \in {"replace", "swap"} =>
          LET inputs == compaction.inputs
              others == sstables \ inputs
          IN  /\ inputs \subseteq sstables /\ compaction.table.id[1] = -1
              /\ \A u \in others :
                    \/ \A t \in inputs : max_seq(u) < max_seq(t)
                    \/ \A t \in inputs : max_seq(u) > max_seq(t)
              /\ \/ compaction.table.data = Merge(inputs, FALSE)
                 \/ /\ compaction.table.data = Merge(inputs, TRUE)
                    /\ \A x \in Data(others), y \in Data(inputs) : y.seq < x.seq

\* The open tables: older than the log until the table of its flush is open,
\* and then that table, or the one it was merged into, is the only one with
\* entries of the log, and has every key of the log that any table has.
TablesInv ==
    phase = "up" =>
       /\ Ordered(sstables) /\ FlushedWhole(sstables)
       /\ ~Flushing({"unlink"}) => \A x \in Data(sstables), e \in wal_data : x.seq < e.seq
       /\ \A t, u \in sstables :
             t.data \cap wal_data # {} /\ u.data \cap wal_data # {} => t = u
       /\ \A t \in sstables : t.data \cap wal_data # {} =>
             \A e \in wal_data :
                \/ \E f \in t.data : f.key = e.key
                \/ \A f \in Data(sstables) : f.key # e.key
       /\ \A k \in Keys : HasValue(InMemory \cup Data(sstables), k, committed[k])

\* A get that no commit to its key has overtaken finds its key's value, in the
\* memtables it has cloned or, when they have none, in the tables.
Finds(r) ==
    LET k == reader[r].key
        v == committed[k]
        Sees(es) == \A e \in es :
                       e.key = k => Visible(e, reader[r].seq_no, reader[r].snapshot_tx)
    IN  /\ reader[r].seen = {v}
        /\ reader[r].pc \in {"memtables", "sstables"} => Sees(InMemory \cup Data(sstables))
        /\ reader[r].pc = "sstables" =>
              /\ Sees(reader[r].es) /\ \A e \in reader[r].es : e.key = k
              /\ \A e, f \in reader[r].es : e.seq = f.seq => e = f
              /\ IF reader[r].es = {} THEN \A e \in InMemory : e.key # k
                 ELSE HasValue(reader[r].es, k, v)
        /\ reader[r].pc = "done" => reader[r].answers = {v}

ReaderInv ==
    \A r \in Readers : reader[r].pc # "idle" /\ ~reader[r].overtaken => Finds(r)

OrderlyInv ==
    /\ DiskInv /\ MemoryInv /\ TasksInv /\ ManifestInv /\ CompactionInv /\ TablesInv
    /\ ReaderInv

-----------------------------------------------------------------------------
\* new() and a started commit are straight-line code on a running executor:
\* none of their steps waits for another task.  Nothing is assumed of
\* callers, of the compaction loop, or of crashes.
Fairness ==
    /\ WF_vars(Recovery \/ Flush("startup"))
    /\ WF_vars(CommitAppend \/ CommitApply \/ Flush("commit"))

FairSpec == Spec /\ Fairness

\* A store that is down comes up again, after crashes and failed startups at
\* any step (MAX_CRASHES bounds them) and whatever partial tables they leave,
\* unless one of those is named in the MANIFEST.
ComesUp == phase = "down" ~> (phase = "up" \/ Damaged)

\* A commit that took its sequence number returns, unless the process dies.
CommitReturns == commit.pc # "idle" ~> commit.pc = "idle"
=============================================================================
