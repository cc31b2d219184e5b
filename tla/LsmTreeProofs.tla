----------------------------- MODULE LsmTreeProofs -----------------------------
(***************************************************************************)
(* Types and logs of LsmTree, for every set of Keys and Readers, every     *)
(* bound and every Environment: callers that delete and flush, failing     *)
(* appends, flushes and unlinks, rollovers and tier gaps.                  *)
(*                                                                         *)
(* TypeOK is not inductive by itself. The rollback of a failed append,     *)
(* FlushPublish, Replay and FreshCompactId take the greatest of a set of   *)
(* numbers, and Max answers one of them only when the set has a bound      *)
(* (Bounded: tables and logs hold numbers up to some b). A commit puts the *)
(* number of the active log in its entry, so a log must be active whenever *)
(* a commit runs (PhaseInv). LogInv then says which files the running      *)
(* flushes and the startup have created and are about to remove, and that  *)
(* the active log is none of them, which is the theorem ActiveLogStays.    *)
(*                                                                         *)
(* The second half is about reads: gets and scans answer what was          *)
(* committed, and sequence numbers are fresh.                              *)
(*                                                                         *)
(* Orderly excludes what makes the first of these false in the code: a     *)
(* caller's flush (a crash after it can lose an append to the log that it  *)
(* removed), a failed flush or unlink (logs that stay behind are replayed  *)
(* over newer tables), gaps between the tiers and rollovers (tables read   *)
(* in the wrong order, or listed and renamed around a flush), and failed   *)
(* appends without encryption at rest (the rollback empties the log).      *)
(* Within it commits, deletes, failed appends, their flushes, compactions, *)
(* gets, and crashes at any step and any number of times remain.           *)
(*                                                                         *)
(* The argument is OrderlyInv of LsmTree, one part for each place that     *)
(* holds data. The log with entries is flushed as a whole or not at all    *)
(* (FlushedWhole), so a replay of it over the tables that its own flush    *)
(* wrote changes no value (LogRedundant); tables are ordered by max_seq    *)
(* for every key (Ordered), and a merge of neighbours keeps them so        *)
(* (MergeOrdered) and keeps every value (MergeValue), even when it drops   *)
(* deletes, because a full merge has only newer tables beside it; the      *)
(* MANIFEST is what the running merge and flush leave (ManifestInv); and a *)
(* get that no commit overtook finds the same value before and after each  *)
(* of these moves (Finds).                                                 *)
(*                                                                         *)
(* The sequence numbers need less: without failed appends next_seq_no only *)
(* grows while the process runs, so everything it holds is below it in     *)
(* every other environment (SeqInv).                                       *)
(***************************************************************************)
EXTENDS LsmTree, NatSetLemmas

USE DEF counters, disk, history

(* The tables named in I with entries of E. *)
Tables(E, I) == [id : I, data : SUBSET E]

(* A step of commit() takes no entry from anywhere but its own transaction. *)
LEMMA DataCommit ==
    ASSUME NEW E, NEW I, DataIn(E, I),
           \/ \E k \in Keys, tomb \in BOOLEAN : CommitPrepare(k, tomb) /\ commit'.entry \in E
           \/ CommitAppend \/ CommitAppendFails \/ CommitApply
    PROVE  DataIn(E, I)'
<1>1. ASSUME NEW k \in Keys, NEW tomb \in BOOLEAN, CommitPrepare(k, tomb), commit'.entry \in E
      PROVE  DataIn(E, I)'
  BY <1>1 DEF DataIn, CommitPrepare, CommitState
<1>2. CASE CommitAppend
  <2>1. commit \in [pc : {"append", "apply", "flush"}, entry : E]
    BY <1>2 DEF DataIn, CommitAppend, CommitState, Idle
  <2> QED BY <1>2, <2>1 DEF DataIn, CommitAppend, CommitState
<1>3. CASE CommitAppendFails
  <2>1. commit' \in CommitState(E)
    BY <1>3 DEF CommitAppendFails, CommitState, IdleCommit, Idle
  <2> QED BY <1>3, <2>1 DEF DataIn, CommitAppendFails, Truncated
<1>4. CASE CommitApply
  <2>1. commit \in [pc : {"append", "apply", "flush"}, entry : E]
    BY <1>4 DEF DataIn, CommitApply, CommitState, Idle
  <2>2. commit' \in CommitState(E)
    BY <1>4, <2>1 DEF CommitApply, CommitState, IdleCommit, Idle
  <2> QED BY <1>4, <2>1, <2>2 DEF DataIn, CommitApply
<1> QED BY <1>1, <1>2, <1>3, <1>4

(* A running flush is of one of these forms. *)
LEMMA FlushForms ==
    ASSUME NEW E, NEW I, flush \in [Flushers -> FlushState(E, Tables(E, I))], NEW f \in Flushers
    PROVE  /\ flush[f].pc = "swap" => flush[f] \in [pc : {"swap"}, new_wal : SUBSET Nat]
           /\ flush[f].pc = "create" =>
                flush[f] \in [pc : {"create"}, to_flush : SUBSET SUBSET E, old_wal : SUBSET Wals]
           /\ flush[f].pc \in {"write", "publish", "unlink"} =>
                flush[f] \in [pc : {"write", "publish", "unlink"}, to_flush : SUBSET SUBSET E,
                              old_wal : SUBSET Wals, table : Tables(E, I)]
  BY DEF FlushState, Idle

(* A step of flush() writes the entries of the memtables it took, under a fresh name. *)
LEMMA DataFlush ==
    ASSUME NEW E, NEW I, DataIn(E, I), NEW f \in Flushers, Flush(f), flush_counter \in Nat,
           FlushCreate(f) => <<next_seq_no, segment_counter>> \in I,
           wal \in Wals
    PROVE  DataIn(E, I)'
<1> DEFINE T == Tables(E, I)
<1>f. flush \in [Flushers -> FlushState(E, T)]
  BY DEF DataIn, Tables
<1>i. IdleFlush \in FlushState(E, T) /\ IdleCommit \in CommitState(E)
  BY DEF IdleFlush, IdleCommit, FlushState, CommitState, Idle
<1>r. Return(f) => commit' \in CommitState(E) /\ flush' \in [Flushers -> FlushState(E, T)]
  BY <1>f, <1>i DEF Return, DataIn
<1>1. CASE FlushStart(f)
  <2>1. [pc |-> "swap", new_wal |-> {flush_counter : e \in memtable}] \in FlushState(E, T)
    BY DEF FlushState
  <2>2. flush' \in [Flushers -> FlushState(E, T)]
    BY <1>1, <2>1, <1>f DEF FlushStart
  <2> QED BY <1>1, <2>2 DEF DataIn, FlushStart, Tables
<1>2. CASE FlushNothing(f)
  BY <1>2, <1>r DEF DataIn, FlushNothing, Tables
<1>3. CASE FlushSwap(f)
  <2>1. immutable_memtables' \subseteq (SUBSET E) \ {{}}
    BY <1>3 DEF FlushSwap, Frozen, DataIn
  <2>2. [pc |-> "create", to_flush |-> immutable_memtables',
         old_wal |-> IF memtable = {} THEN {} ELSE {wal}] \in FlushState(E, T)
    BY <2>1 DEF FlushState
  <2>3. flush' \in [Flushers -> FlushState(E, T)]
    BY <1>3, <2>2, <1>f DEF FlushSwap
  <2> QED BY <1>3, <2>1, <2>3 DEF DataIn, FlushSwap, Tables
<1>4. CASE FlushCreate(f)
  <2> DEFINE id == <<next_seq_no, segment_counter>>
             t == [id |-> id, data |-> LatestPerKey(UNION flush[f].to_flush)]
  <2>1. flush[f] \in [pc : {"create"}, to_flush : SUBSET SUBSET E, old_wal : SUBSET Wals]
    BY <1>4, <1>f, FlushForms DEF FlushCreate
  <2>2. t \in T
    BY <1>4, <2>1 DEF Tables, LatestPerKey
  <2>3. [pc |-> "write", old_wal |-> flush[f].old_wal, to_flush |-> flush[f].to_flush,
         table |-> t] \in FlushState(E, T)
    BY <2>1, <2>2 DEF FlushState
  <2>4. flush' \in [Flushers -> FlushState(E, T)] /\ torn' \subseteq I
    BY <1>4, <2>3, <1>f DEF FlushCreate, DataIn
  <2> QED BY <1>4, <2>4 DEF DataIn, FlushCreate, Tables
<1>5. CASE FlushWrite(f)
  <2>1. flush[f] \in [pc : {"write", "publish", "unlink"}, to_flush : SUBSET SUBSET E,
                      old_wal : SUBSET Wals, table : T]
    BY <1>5, <1>f, FlushForms DEF FlushWrite
  <2>2. flush[f].table \in T
    BY <2>1
  <2>3. manifest' \subseteq T /\ torn' \subseteq I
    BY <1>5, <2>2 DEF FlushWrite, Without, DataIn, Tables
  <2>4. flush' = [flush EXCEPT ![f] = [flush[f] EXCEPT !.pc = "publish"]]
    BY <1>5 DEF FlushWrite
  <2>5. [flush[f] EXCEPT !.pc = "publish"] \in FlushState(E, T)
    BY <2>1 DEF FlushState
  <2>6. flush' \in [Flushers -> FlushState(E, T)]
    BY <2>4, <2>5, <1>f
  <2> QED BY <1>5, <2>3, <2>6 DEF DataIn, FlushWrite, Tables
<1>6. CASE FlushFails(f)
  <2>1. manifest' \subseteq T /\ torn' \subseteq I
    BY <1>6 DEF FlushFails, RemovePartial, DataIn, Tables
  <2> QED BY <1>6, <2>1, <1>r DEF DataIn, FlushFails, Tables
<1>7. CASE FlushPublish(f)
  <2>1. flush[f] \in [pc : {"write", "publish", "unlink"}, to_flush : SUBSET SUBSET E,
                      old_wal : SUBSET Wals, table : T]
    BY <1>7, <1>f, FlushForms DEF FlushPublish
  <2>2. flush[f].table \in T
    BY <2>1
  <2>3. sstables' \subseteq T /\ immutable_memtables' \subseteq (SUBSET E) \ {{}}
    BY <1>7, <2>2 DEF FlushPublish, Without, StillFrozen, DataIn, Tables
  <2>4. flush' = [flush EXCEPT ![f] = [flush[f] EXCEPT !.pc = "unlink"]]
    BY <1>7 DEF FlushPublish
  <2>5. [flush[f] EXCEPT !.pc = "unlink"] \in FlushState(E, T)
    BY <2>1 DEF FlushState
  <2>6. flush' \in [Flushers -> FlushState(E, T)]
    BY <2>4, <2>5, <1>f
  <2> QED BY <1>7, <2>3, <2>6 DEF DataIn, FlushPublish, Tables
<1>8. CASE FlushUnlink(f)
  <2>1. wal_data' \subseteq E
    BY <1>8 DEF FlushUnlink, Unlink, DataIn
  <2> QED BY <1>8, <2>1, <1>r DEF DataIn, FlushUnlink, Tables
<1> QED BY <1>1, <1>2, <1>3, <1>4, <1>5, <1>6, <1>7, <1>8 DEF Flush

(* A step of run_compaction() writes entries of its inputs, under a fresh name. *)
LEMMA DataCompaction ==
    ASSUME NEW E, NEW I, DataIn(E, I), Compaction, CompactSelect => FreshCompactId \in I
    PROVE  DataIn(E, I)'
<1> DEFINE T == Tables(E, I)
<1>c. compaction \in CompactionState(T) /\ sstables \subseteq T /\ manifest \subseteq T
  BY DEF DataIn, Tables
<1>f. /\ compaction.pc \in {"replace", "swap"} =>
           compaction \in [pc : {"replace", "swap"}, inputs : SUBSET T, table : T]
      /\ compaction.pc = "rollover" => compaction \in [pc : {"rollover"}, live : SUBSET T]
  BY <1>c DEF CompactionState, Idle
<1>i. NoMerge \in CompactionState(T)
  BY DEF NoMerge, CompactionState, Idle
<1>1. CASE CompactSelect
  <2>1. PICK inputs \in SUBSET sstables :
           compaction' = [pc |-> "replace", inputs |-> inputs,
                          table |-> [id |-> FreshCompactId,
                                     data |-> Merge(inputs, inputs = sstables)]]
    BY <1>1 DEF CompactSelect
  <2>2. UNION {t.data : t \in inputs} \subseteq E
    BY <1>c DEF Tables
  <2>3. [id |-> FreshCompactId, data |-> Merge(inputs, inputs = sstables)] \in T
    BY <1>1, <2>2 DEF Merge, Tables
  <2>4. inputs \in SUBSET T
    BY <1>c
  <2>5. compaction' \in CompactionState(T)
    BY <2>1, <2>3, <2>4 DEF CompactionState
  <2> QED BY <1>1, <2>5 DEF DataIn, CompactSelect, Tables
<1>2. CASE CompactAbort
  BY <1>2, <1>i DEF DataIn, CompactAbort, Tables
<1>3. CASE CompactReplace
  <2>1. compaction' \in CompactionState(T) /\ manifest' \subseteq T
    BY <1>3, <1>c, <1>f DEF CompactReplace, CompactionState
  <2> QED BY <1>3, <2>1 DEF DataIn, CompactReplace, Tables
<1>4. CASE CompactSwap
  <2>1. sstables' \subseteq T
    BY <1>4, <1>c, <1>f DEF CompactSwap
  <2> QED BY <1>4, <2>1, <1>i DEF DataIn, CompactSwap, Tables
<1>5. CASE RolloverList
  <2>1. compaction' \in CompactionState(T)
    BY <1>5, <1>c DEF RolloverList, CompactionState
  <2> QED BY <1>5, <2>1 DEF DataIn, RolloverList, Tables
<1>6. CASE RolloverRename
  <2>1. manifest' \subseteq T
    BY <1>6, <1>c, <1>f DEF RolloverRename
  <2> QED BY <1>6, <2>1, <1>i DEF DataIn, RolloverRename, Tables
<1> QED BY <1>1, <1>2, <1>3, <1>4, <1>5, <1>6 DEF Compaction

(* Crashes, recovery and gets bring no entries: a replay reads the logs and the tables. *)
LEMMA DataOther ==
    ASSUME NEW E, NEW I, DataIn(E, I),
           \/ UNCHANGED vars \/ ProcessStops \/ Recovery \/ \E r \in Readers : Reading(r)
    PROVE  DataIn(E, I)'
<1> DEFINE T == Tables(E, I)
<1>i. /\ IdleFlush \in FlushState(E, T) /\ IdleCommit \in CommitState(E)
      /\ NoMerge \in CompactionState(T)
  BY DEF IdleFlush, IdleCommit, NoMerge, FlushState, CommitState, CompactionState, Idle
<1>e. ASSUME ProcessEnds, manifest' \subseteq T, torn' \subseteq I, wal_data' \subseteq E
      PROVE  DataIn(E, I)'
  BY <1>e, <1>i DEF ProcessEnds, DataIn, Tables
<1>1. CASE UNCHANGED vars
  BY <1>1 DEF vars, DataIn, Tables
<1>2. CASE Crash
  BY <1>2, <1>e DEF Crash, DataIn, Tables
<1>3. CASE StartupFails
  BY <1>3, <1>e DEF StartupFails, RemovePartial, DataIn, Tables
<1>4. CASE Replay
  BY <1>4 DEF Replay, DataIn, Tables
<1>5. CASE RemoveOldWal
  <2>1. wal_data' \subseteq E
    BY <1>5 DEF RemoveOldWal, Unlink, DataIn
  <2> QED BY <1>5, <2>1 DEF RemoveOldWal, DataIn
<1>6. CASE Opened
  BY <1>6 DEF Opened, DataIn
<1>7. CASE \E r \in Readers : Reading(r)
  BY <1>7 DEF Reading, GetStart, GetMemtables, GetSstables, GetReturn, DataIn
<1> QED BY <1>1, <1>2, <1>3, <1>4, <1>5, <1>6, <1>7 DEF ProcessStops, Recovery

(* Entries come from transactions that commit, and names of tables from flushes and merges; *)
(* every other step keeps the store within the entries and the tables it already has.       *)
LEMMA DataStep ==
    ASSUME NEW E, NEW I, DataIn(E, I), TypeOK, PhaseInv, LogInv, [Next]_vars,
           \A k \in Keys, tomb \in BOOLEAN : CommitPrepare(k, tomb) => commit'.entry \in E,
           \A f \in Flushers : FlushCreate(f) => <<next_seq_no, segment_counter>> \in I,
           CompactSelect => FreshCompactId \in I
    PROVE  DataIn(E, I)'
<1>1. CASE Commit
  BY <1>1, DataCommit DEF Commit
<1>2. ASSUME NEW f \in Flushers, Flush(f) PROVE DataIn(E, I)'
  <2>1. phase # "down" => wal \in Wals
    BY DEF LogInv, TypeOK
  <2>2. flush[f].pc # "idle" \/ MayFlush(f)
    BY <1>2 DEF Flush, FlushStart, FlushNothing, FlushSwap, FlushCreate, FlushWrite, FlushFails,
                FlushPublish, FlushUnlink
  <2>3. phase # "down"
    BY <2>2 DEF MayFlush, PhaseInv, Flushers
  <2> QED BY <1>2, <2>1, <2>3, DataFlush DEF TypeOK
<1>3. CASE Compaction
  BY <1>3, DataCompaction
<1> QED BY <1>1, <1>2, <1>3, DataOther DEF Next

(* More entries and more names do not hurt. *)
LEMMA DataMore ==
    ASSUME NEW E, NEW I, NEW F, NEW J, E \subseteq F, I \subseteq J, DataIn(E, I)
    PROVE  DataIn(F, J)
<1> DEFINE T == Tables(E, I)
           U == Tables(F, J)
<1>1. T \subseteq U
  BY DEF Tables
<1>2. commit \in CommitState(F)
  BY DEF DataIn, CommitState
<1>3. flush \in [Flushers -> FlushState(F, U)]
  <2>1. FlushState(E, T) \subseteq FlushState(F, U)
    <3> HIDE DEF T, U
    <3> QED BY <1>1 DEF FlushState
  <2> QED BY <2>1 DEF DataIn, Tables
<1>4. compaction \in CompactionState(U)
  <2>1. CompactionState(T) \subseteq CompactionState(U)
    <3> HIDE DEF T, U
    <3> QED BY <1>1 DEF CompactionState
  <2> QED BY <2>1 DEF DataIn, Tables
<1>5. sstables \subseteq U /\ manifest \subseteq U
  BY <1>1 DEF DataIn, Tables
<1> QED BY <1>2, <1>3, <1>4, <1>5 DEF DataIn, Tables

-----------------------------------------------------------------------------
(* Bounds, which every Max of the code needs.                               *)

(* The greatest of some numbers up to b, and 0 for none. *)
LEMMA MaxBounded ==
    ASSUME NEW S, S \subseteq Nat, NEW b \in Nat, \A n \in S : n <= b
    PROVE  /\ MaxOr0(S) \in Nat /\ MaxOr0(S) <= b
           /\ \A n \in S : n <= MaxOr0(S)
           /\ S # {} => MaxOr0(S) \in S /\ Max(S) = MaxOr0(S)
<1>1. CASE S = {}
  BY <1>1 DEF MaxOr0
<1>2. CASE S # {}
  <2>1. \E m \in S : \A n \in S : m >= n
    BY <1>2, GreatestExists
  <2>2. Max(S) \in S /\ \A n \in S : Max(S) >= n
    BY <2>1 DEF Max
  <2> QED BY <1>2, <2>2 DEF MaxOr0
<1> QED BY <1>1, <1>2

(* Entries, and names of tables, whose numbers are at most b. *)
Ents(b) == {e \in Entry : e.seq <= b /\ e.tx <= b}
Ids(b)  == {i \in TableId : i[2] <= b}

(* Some number is above all sequence numbers, transactions, table and file numbers. *)
Within(b) == DataIn(Ents(b), Ids(b)) /\ \A w \in wal_files : w <= b
Bounded == \E b \in Nat : Within(b)

(* The name of a merge is at most one above the names there are. *)
LEMMA CompactIdBounded ==
    ASSUME NEW b \in Nat, DataIn(Ents(b), Ids(b))
    PROVE  FreshCompactId \in Ids(b + 1)
<1> DEFINE S == {t.id[2] : t \in {u \in sstables \cup manifest : u.id[1] = -1}}
<1>1. \A t \in sstables \cup manifest : t.id \in Ids(b)
  BY DEF DataIn
<1>2. S \subseteq Nat /\ \A n \in S : n <= b
  BY <1>1 DEF Ids, TableId
<1>3. MaxOr0(S) \in Nat /\ MaxOr0(S) <= b
  <2> HIDE DEF S
  <2> QED BY <1>2, MaxBounded
<1> QED BY <1>3 DEF FreshCompactId, Ids, TableId

(* The greatest sequence number of some entries, or tables, up to b. *)
LEMMA SeqsBounded ==
    ASSUME NEW b \in Nat, NEW S \in SUBSET Ents(b)
    PROVE  /\ Seqs(S) \subseteq Nat /\ \A n \in Seqs(S) : n <= b
           /\ MaxOr0(Seqs(S)) \in Nat /\ MaxOr0(Seqs(S)) <= b
           /\ \A e \in S : e.seq <= MaxOr0(Seqs(S))
<1>1. Seqs(S) \subseteq Nat /\ \A n \in Seqs(S) : n <= b
  BY DEF Seqs, Ents, Entry
<1>2. /\ MaxOr0(Seqs(S)) \in Nat /\ MaxOr0(Seqs(S)) <= b
      /\ \A n \in Seqs(S) : n <= MaxOr0(Seqs(S))
  BY <1>1, MaxBounded
<1>3. \A e \in S : e.seq \in Seqs(S)
  BY DEF Seqs
<1> QED BY <1>1, <1>2, <1>3

(* So is the greatest transaction. *)
LEMMA TxsBounded ==
    ASSUME NEW b \in Nat, NEW S \in SUBSET Ents(b)
    PROVE  MaxOr0({e.tx : e \in S}) \in Nat
<1>1. {e.tx : e \in S} \subseteq Nat /\ \A n \in {e.tx : e \in S} : n <= b
  BY DEF Ents, Entry
<1> HIDE DEF Ents
<1> QED BY <1>1, MaxBounded

(* The active log of a replay is one of the files, and the last in the order of new(). *)
LEMMA LastLog ==
    ASSUME wal_files \subseteq Wals, NEW b \in Nat, \A w \in wal_files : w <= b, wal_files # {}
    PROVE  /\ ActiveLog \in wal_files
           /\ Max({FileNo(w) : w \in wal_files}) \in Nat
           /\ \A w \in wal_files : FileNo(w) <= Max({FileNo(v) : v \in wal_files})
<1>1. \A w \in wal_files : Rank(w) \in Nat /\ Rank(w) <= 2 * b + 1
  BY DEF Rank, Wals, WAL_LOG
<1>2. PICK m \in {Rank(w) : w \in wal_files} : \A n \in {Rank(w) : w \in wal_files} : n <= m
  <2> DEFINE S == {Rank(w) : w \in wal_files}
  <2>1. S \subseteq Nat /\ S # {} /\ 2 * b + 1 \in Nat /\ \A n \in S : n <= 2 * b + 1
    BY <1>1
  <2>2. \E m \in S : \A n \in S : n <= m
    <3> HIDE DEF S
    <3> QED BY <2>1, GreatestExists
  <2> QED BY <2>2
<1>3. \E w \in wal_files : \A v \in wal_files : Rank(v) <= Rank(w)
  BY <1>2
<1>4. ActiveLog \in wal_files
  BY <1>3 DEF ActiveLog
<1>5. /\ {FileNo(w) : w \in wal_files} \subseteq Nat
      /\ \A n \in {FileNo(w) : w \in wal_files} : n <= b
  BY DEF FileNo, Wals, WAL_LOG
<1>6. /\ Max({FileNo(w) : w \in wal_files}) \in Nat
      /\ \A n \in {FileNo(w) : w \in wal_files} : n <= Max({FileNo(v) : v \in wal_files})
  <2> DEFINE S == {FileNo(w) : w \in wal_files}
  <2>1. S # {}
    OBVIOUS
  <2> HIDE DEF S
  <2> QED BY <1>5, <2>1, MaxBounded DEF S
<1> QED BY <1>4, <1>6

-----------------------------------------------------------------------------
(* The types of the counters, the logs and the histories.                   *)

(* The part of TypeOK that is not about entries, tables and readers. *)
Numbers ==
    /\ phase \in {"down", "starting", "cleanup", "up"}
    /\ next_seq_no \in Nat /\ last_committed_tx \in Nat
    /\ flush_counter \in Nat /\ segment_counter \in Nat
    /\ wal \in Wals \cup {NoWal} /\ old_wals \subseteq Wals /\ wal_files \subseteq Wals
    /\ lastTx \in Nat /\ crashes \in Nat /\ committed \in [Keys -> Nat]

(* The inductive invariant behind the theorems of this module. *)
LsmInv == TypeOK /\ PhaseInv /\ LogInv /\ Bounded

(* commit() computes next_seq_no again when its append fails, from what it holds. *)
LEMMA NumbersCommit ==
    ASSUME LsmInv, Commit
    PROVE  Numbers'
<1> USE DEF Numbers
<1>t. TypeOK /\ Bounded
  BY DEF LsmInv
<1>0. PICK b \in Nat : Within(b)
  BY <1>t DEF Bounded
<1>1. ASSUME NEW k \in Keys, NEW tomb \in BOOLEAN, CommitPrepare(k, tomb) PROVE Numbers'
  BY <1>1, <1>t DEF TypeOK, CommitPrepare
<1>2. CASE CommitAppend
  BY <1>2, <1>t DEF TypeOK, CommitAppend
<1>3. CASE CommitAppendFails
  <2> DEFINE S == Seqs(memtable') \cup {max_seq(t) : t \in sstables}
  <2>1. memtable' \in SUBSET Ents(b)
    BY <1>3, <1>0 DEF CommitAppendFails, Truncated, Within, DataIn
  <2>2. \A t \in sstables : max_seq(t) \in Nat /\ max_seq(t) <= b
    BY <1>0, SeqsBounded DEF max_seq, Within, DataIn
  <2>3. S \subseteq Nat /\ \A n \in S : n <= b
    BY <2>1, <2>2, SeqsBounded
  <2>4. MaxOr0(S) \in Nat
    <3> HIDE DEF S
    <3> QED BY <2>3, MaxBounded
  <2>5. next_seq_no' = MaxOr0(S) + 1
    BY <1>3 DEF CommitAppendFails
  <2>6. next_seq_no' \in Nat
    <3> HIDE DEF S
    <3> QED BY <2>4, <2>5
  <2> QED BY <1>3, <2>6, <1>t DEF TypeOK, CommitAppendFails
<1>4. CASE CommitApply
  <2>1. commit \in [pc : {"append", "apply", "flush"}, entry : Entry]
    BY <1>4, <1>t DEF TypeOK, DataIn, CommitApply, CommitState, Idle
  <2>2. commit.entry.tx \in Nat /\ commit.entry.key \in Keys /\ Value(commit.entry) \in Nat
    BY <2>1 DEF Entry, Value, No
  <2>3. Max({last_committed_tx, commit.entry.tx}) \in {last_committed_tx, commit.entry.tx}
    <3>1. \E x \in {last_committed_tx, commit.entry.tx} :
             \A y \in {last_committed_tx, commit.entry.tx} : x >= y
      BY <2>2, <1>t DEF TypeOK
    <3> QED BY <3>1 DEF Max
  <2> QED BY <1>4, <2>2, <2>3, <1>t DEF TypeOK, CommitApply
<1> QED BY <1>1, <1>2, <1>3, <1>4 DEF Commit

(* flush() numbers its log from flush_counter, and takes over its table's transactions. *)
LEMMA NumbersFlush ==
    ASSUME LsmInv, NEW f \in Flushers, Flush(f)
    PROVE  Numbers' /\ (wal' # wal => \A w \in Coming(f) \cup {flush_counter} : w \in Nat)
<1> USE DEF Numbers
<1>t. TypeOK /\ Bounded
  BY DEF LsmInv
<1>0. PICK b \in Nat : Within(b)
  BY <1>t DEF Bounded
<1>r. Return(f) => phase' \in {"down", "starting", "cleanup", "up"}
  BY <1>t DEF Return, TypeOK
<1>f. flush \in [Flushers -> FlushState(Ents(b), Tables(Ents(b), Ids(b)))]
  BY <1>0 DEF Within, DataIn, Tables
<1>1. CASE FlushStart(f)
  <2>1. Cardinality({flush_counter : e \in memtable}) \in Nat
    <3>1. CASE memtable = {}
      <4>1. {flush_counter : e \in memtable} = {}
        BY <3>1
      <4> QED BY <4>1, FS_EmptySet
    <3>2. CASE memtable # {}
      <4>1. {flush_counter : e \in memtable} = {flush_counter}
        BY <3>2
      <4> QED BY <4>1, FS_Singleton
    <3> QED BY <3>1, <3>2
  <2>2. flush_counter' \in Nat
    BY <1>1, <2>1, <1>t DEF TypeOK, FlushStart
  <2>3. {flush_counter : e \in memtable} \subseteq Nat
    BY <1>t DEF TypeOK
  <2>4. wal_files' \subseteq Wals
    BY <1>1, <2>3, <1>t DEF TypeOK, FlushStart, Wals
  <2> QED BY <1>1, <2>2, <2>4, <1>t DEF TypeOK, FlushStart
<1>2. CASE FlushNothing(f)
  BY <1>2, <1>r, <1>t DEF TypeOK, FlushNothing
<1>3. CASE FlushSwap(f)
  <2>1. flush[f].new_wal \subseteq Nat
    BY <1>3, <1>f, FlushForms DEF FlushSwap
  <2>2. flush_counter' \in Nat
    BY <1>3, <1>t DEF FlushSwap, TypeOK
  <2>4. wal_files' \subseteq wal_files \cup flush[f].new_wal \cup {flush_counter}
    BY <1>3 DEF FlushSwap
  <2>5. wal_files' \subseteq Wals
    BY <2>1, <2>4, <1>t DEF TypeOK, Wals
  <2>3. wal' \in Wals \cup {NoWal}
    BY <1>3, <2>1, <1>t DEF FlushSwap, TypeOK, Wals
  <2> QED BY <1>3, <2>1, <2>2, <2>3, <2>5, <1>t DEF TypeOK, FlushSwap, Coming
<1>4. CASE FlushCreate(f)
  BY <1>4, <1>t DEF TypeOK, FlushCreate
<1>5. CASE FlushWrite(f)
  BY <1>5, <1>t DEF TypeOK, FlushWrite
<1>6. CASE FlushFails(f)
  BY <1>6, <1>r, <1>t DEF TypeOK, FlushFails
<1>7. CASE FlushPublish(f)
  <2>1. flush[f].table \in Tables(Ents(b), Ids(b))
    BY <1>7, <1>f, FlushForms DEF FlushPublish
  <2> DEFINE S == {last_committed_tx} \cup {e.tx : e \in flush[f].table.data}
  <2>2. S \subseteq Nat /\ \A n \in S : n <= b + last_committed_tx
    BY <2>1, <1>t DEF Tables, Ents, Entry, TypeOK
  <2>3. MaxOr0(S) \in Nat
    <3>1. b + last_committed_tx \in Nat
      BY <1>t DEF TypeOK
    <3> HIDE DEF S
    <3> QED BY <2>2, <3>1, MaxBounded
  <2> QED BY <1>7, <2>3, <1>t DEF TypeOK, FlushPublish
<1>8. CASE FlushUnlink(f)
  BY <1>8, <1>r, <1>t DEF TypeOK, FlushUnlink, Unlink
<1> QED BY <1>1, <1>2, <1>3, <1>4, <1>5, <1>6, <1>7, <1>8 DEF Flush

(* A replay computes every counter from what it finds on disk. *)
LEMMA NumbersOther ==
    ASSUME LsmInv, UNCHANGED vars \/ Compaction \/ ProcessStops \/ Recovery
                   \/ \E r \in Readers : Reading(r)
    PROVE  Numbers'
<1> USE DEF Numbers
<1>t. TypeOK /\ Bounded
  BY DEF LsmInv
<1>0. PICK b \in Nat : Within(b)
  BY <1>t DEF Bounded
<1>1. CASE UNCHANGED vars
  BY <1>1, <1>t DEF vars, TypeOK
<1>2. CASE Compaction
  BY <1>2, <1>t DEF TypeOK, Compaction, CompactSelect, CompactAbort, CompactReplace, CompactSwap,
                    RolloverList, RolloverRename
<1>3. CASE Crash
  <2>1. commit.pc = "apply" => Value(commit.entry) \in Nat
    BY <1>t DEF TypeOK, DataIn, CommitState, Idle, Entry, Value, No
  <2>2. committed' \in [Keys -> Nat]
    BY <1>3, <2>1, <1>t DEF TypeOK, Crash
  <2> QED BY <1>3, <2>2, <1>t DEF TypeOK, Crash, ProcessEnds, No
<1>4. CASE StartupFails
  <2>1. committed' = committed /\ wal_files' = wal_files
    BY <1>4 DEF StartupFails
  <2>2. ProcessEnds
    BY <1>4 DEF StartupFails
  <2> QED BY <2>1, <2>2, <1>t DEF TypeOK, ProcessEnds, No
<1>5. CASE Replay
  <2>1. Recovered \in SUBSET Ents(b)
    BY <1>0 DEF Recovered, Within, DataIn
  <2>2. next_seq_no' \in Nat /\ last_committed_tx' \in Nat
    BY <1>5, <2>1, SeqsBounded, TxsBounded DEF Replay, RecoveredSeqNo
  <2>3. CASE wal_files = {}
    BY <1>5, <2>2, <2>3, <1>t DEF TypeOK, Replay, ActiveLog, ReplayedLogs, AfterReplay, Wals
  <2>4. CASE wal_files # {}
    <3>1. ActiveLog \in wal_files /\ Max({FileNo(w) : w \in wal_files}) \in Nat
      BY <2>4, <1>t, <1>0, LastLog DEF TypeOK, Within
    <3>2. flush_counter' \in Nat
      BY <1>5, <2>4, <3>1 DEF Replay
    <3>3. wal' \in Wals /\ wal_files' \subseteq Wals /\ old_wals' \subseteq Wals
      BY <1>5, <3>1, <1>t DEF TypeOK, Replay, ReplayedLogs
    <3> QED BY <1>5, <2>2, <3>2, <3>3, <1>t DEF TypeOK, Replay, AfterReplay
  <2> QED BY <2>3, <2>4
<1>6. CASE RemoveOldWal
  BY <1>6, <1>t DEF TypeOK, RemoveOldWal, Unlink
<1>7. CASE Opened
  BY <1>7, <1>t DEF TypeOK, Opened
<1>8. CASE \E r \in Readers : Reading(r)
  BY <1>8, <1>t DEF TypeOK, Reading, GetStart, GetMemtables, GetSstables, GetReturn
<1> QED BY <1>1, <1>2, <1>3, <1>4, <1>5, <1>6, <1>7, <1>8 DEF ProcessStops, Recovery

(* Together: every counter stays a number. *)
LEMMA NumbersStep ==
    ASSUME LsmInv, [Next]_vars
    PROVE  Numbers'
  BY NumbersCommit, NumbersFlush, NumbersOther DEF Next

-----------------------------------------------------------------------------
(* The readers' types.                                                      *)

(* A get answers with values. *)
LEMMA LookupType ==
    ASSUME NEW k, NEW es \in SUBSET Entry, NEW ssts, \A t \in ssts : t.data \subseteq Entry,
           NEW n, NEW x
    PROVE  Lookup(k, es, ssts, n, x) \subseteq Nat
<1>1. \A e \in Entry : Value(e) \in Nat
  BY DEF Entry, Value, No
<1>2. 0 \in Nat
  OBVIOUS
<1> QED BY <1>1, <1>2 DEF Lookup, LatestPerKey, No

(* A running get is of one of these forms. *)
LEMMA ReaderForms ==
    ASSUME NEW x \in ReaderState
    PROVE  /\ x.pc = "memtables" =>
                x \in [pc : {"memtables"}, key : Keys, seq_no : Nat, snapshot_tx : Nat,
                       seen : SUBSET Nat, overtaken : BOOLEAN]
           /\ x.pc = "sstables" =>
                x \in [pc : {"sstables"}, key : Keys, seq_no : Nat, snapshot_tx : Nat,
                       seen : SUBSET Nat, overtaken : BOOLEAN, es : SUBSET Entry]
           /\ x.pc \notin {"idle", "memtables", "sstables"} =>
                x \in [pc : {"done"}, key : Keys, seen : SUBSET Nat, overtaken : BOOLEAN,
                       answers : SUBSET Nat]
  BY DEF ReaderState, Idle

(* A get keeps to its forms, whatever commits between its steps. *)
LEMMA ReaderStep ==
    ASSUME LsmInv, [Next]_vars
    PROVE  reader' \in [Readers -> ReaderState]
<1>t. TypeOK
  BY DEF LsmInv
<1>r. reader \in [Readers -> ReaderState]
  BY <1>t DEF TypeOK
<1>i. IdleReader \in ReaderState
  BY DEF IdleReader, ReaderState, Idle
<1>1. CASE CommitApply
  <2>1. commit \in [pc : {"append", "apply", "flush"}, entry : Entry]
    BY <1>1, <1>t DEF TypeOK, DataIn, CommitApply, CommitState, Idle
  <2>2. Value(commit.entry) \in Nat
    BY <2>1 DEF Entry, Value, No
  <2>3. ASSUME NEW x \in ReaderState, x.pc # "idle"
        PROVE  [x EXCEPT !.seen = @ \cup {Value(commit.entry)}, !.overtaken = TRUE] \in ReaderState
    <3>1. CASE x.pc = "memtables"
      BY <2>2, <3>1, ReaderForms DEF ReaderState
    <3>2. CASE x.pc = "sstables"
      BY <2>2, <3>2, ReaderForms DEF ReaderState
    <3>3. CASE x.pc \notin {"idle", "memtables", "sstables"}
      BY <2>2, <3>3, ReaderForms DEF ReaderState
    <3> QED BY <2>3, <3>1, <3>2, <3>3
  <2>4. \A r \in Readers : reader'[r] \in ReaderState
    BY <1>1, <1>r, <2>3 DEF CommitApply
  <2>5. reader' = [r \in Readers |-> reader'[r]]
    BY <1>1 DEF CommitApply
  <2> QED BY <2>4, <2>5
<1>2. CASE ProcessStops
  BY <1>2, <1>i DEF ProcessStops, Crash, StartupFails, ProcessEnds
<1>3. ASSUME NEW r \in Readers, NEW k \in Keys, GetStart(r, k)
      PROVE  reader' \in [Readers -> ReaderState]
  <2>1. [pc |-> "memtables", key |-> k, seq_no |-> next_seq_no, snapshot_tx |-> last_committed_tx,
         seen |-> {committed[k]}, overtaken |-> FALSE] \in ReaderState
    BY <1>t DEF TypeOK, ReaderState
  <2> QED BY <1>3, <2>1, <1>r DEF GetStart
<1>4. ASSUME NEW r \in Readers, GetMemtables(r) PROVE reader' \in [Readers -> ReaderState]
  <2>1. reader[r] \in [pc : {"memtables"}, key : Keys, seq_no : Nat, snapshot_tx : Nat,
                       seen : SUBSET Nat, overtaken : BOOLEAN]
    BY <1>4, <1>r, ReaderForms DEF GetMemtables
  <2>2. InMemory \subseteq Entry
    BY <1>t DEF TypeOK, DataIn, InMemory
  <2>3. [pc |-> "sstables", key |-> reader[r].key, seq_no |-> reader[r].seq_no,
         snapshot_tx |-> reader[r].snapshot_tx, seen |-> reader[r].seen,
         overtaken |-> reader[r].overtaken,
         es |-> {e \in InMemory : e.key = reader[r].key}] \in ReaderState
    BY <2>1, <2>2 DEF ReaderState
  <2> QED BY <1>4, <2>3, <1>r DEF GetMemtables
<1>5. ASSUME NEW r \in Readers, GetSstables(r) PROVE reader' \in [Readers -> ReaderState]
  <2>1. reader[r] \in [pc : {"sstables"}, key : Keys, seq_no : Nat, snapshot_tx : Nat,
                       seen : SUBSET Nat, overtaken : BOOLEAN, es : SUBSET Entry]
    BY <1>5, <1>r, ReaderForms DEF GetSstables
  <2>2. \A t \in sstables : t.data \subseteq Entry
    BY <1>t DEF TypeOK, DataIn
  <2>3. Lookup(reader[r].key, reader[r].es, sstables, reader[r].seq_no, reader[r].snapshot_tx)
          \in SUBSET Nat
    BY <2>1, <2>2, LookupType
  <2>4. [pc |-> "done", key |-> reader[r].key, seen |-> reader[r].seen,
         overtaken |-> reader[r].overtaken,
         answers |-> Lookup(reader[r].key, reader[r].es, sstables,
                            reader[r].seq_no, reader[r].snapshot_tx)] \in ReaderState
    BY <2>1, <2>3 DEF ReaderState
  <2> QED BY <1>5, <2>4, <1>r DEF GetSstables
<1>6. ASSUME NEW r \in Readers, GetReturn(r) PROVE reader' \in [Readers -> ReaderState]
  BY <1>6, <1>r, <1>i DEF GetReturn
<1>7. CASE UNCHANGED reader
  BY <1>7, <1>r
<1>8. ASSUME Commit \/ (\E f \in Flushers : Flush(f)) \/ Compaction \/ Recovery \/ UNCHANGED vars
      PROVE  CommitApply \/ UNCHANGED reader
  BY <1>8 DEF vars, Commit, CommitPrepare, CommitAppend, CommitAppendFails, Flush, FlushStart,
              FlushNothing, FlushSwap, FlushCreate, FlushWrite, FlushFails, FlushPublish,
              FlushUnlink, Compaction, CompactSelect, CompactAbort, CompactReplace, CompactSwap,
              RolloverList, RolloverRename, Recovery, Replay, RemoveOldWal, Opened
<1> QED BY <1>1, <1>2, <1>3, <1>4, <1>5, <1>6, <1>7, <1>8 DEF Next, Reading

-----------------------------------------------------------------------------
(* Phases.                                                                  *)

(* Commits, callers' flushes, merges and gets run only in an open store. *)
LEMMA PhaseStep ==
    ASSUME LsmInv, [Next]_vars
    PROVE  PhaseInv'
<1>t. TypeOK /\ PhaseInv
  BY DEF LsmInv
<1>f. DOMAIN flush = Flushers
  BY <1>t DEF TypeOK, DataIn
<1>d. DOMAIN reader = Readers
  BY <1>t DEF TypeOK
<1> USE DEF PhaseInv, IdleCommit, IdleFlush, IdleReader, NoMerge
<1>1. CASE Commit
  <2>1. ASSUME NEW k \in Keys, NEW tomb \in BOOLEAN, CommitPrepare(k, tomb) PROVE PhaseInv'
    BY <2>1, <1>t DEF CommitPrepare
  <2>2. CASE CommitAppend
    BY <2>2, <1>t DEF CommitAppend
  <2>3. CASE CommitAppendFails
    BY <2>3, <1>t DEF CommitAppendFails
  <2>4. CASE CommitApply
    BY <2>4, <1>t DEF CommitApply
  <2> QED BY <1>1, <2>1, <2>2, <2>3, <2>4 DEF Commit
<1>2. ASSUME NEW f \in Flushers, Flush(f) PROVE PhaseInv'
  <2>0. f \in {"commit", "caller", "startup"}
    BY DEF Flushers
  <2>1. CASE FlushStart(f)
    BY <2>1, <2>0, <1>t, <1>f DEF FlushStart, MayFlush, Flushers
  <2>r. ASSUME Return(f), flush[f].pc # "idle" \/ MayFlush(f),
               UNCHANGED <<compaction, reader>>
        PROVE  PhaseInv'
    BY <2>r, <2>0, <1>t, <1>f DEF Return, MayFlush, Flushers
  <2>2. CASE FlushNothing(f)
    BY <2>2, <2>r DEF FlushNothing
  <2>3. CASE FlushSwap(f)
    BY <2>3, <2>0, <1>t, <1>f DEF FlushSwap, Flushers
  <2>4. CASE FlushCreate(f)
    BY <2>4, <2>0, <1>t, <1>f DEF FlushCreate, Flushers
  <2>5. CASE FlushWrite(f)
    BY <2>5, <2>0, <1>t, <1>f DEF FlushWrite, Flushers
  <2>6. CASE FlushFails(f)
    BY <2>6, <2>r DEF FlushFails
  <2>7. CASE FlushPublish(f)
    BY <2>7, <2>0, <1>t, <1>f DEF FlushPublish, Flushers
  <2>8. CASE FlushUnlink(f)
    BY <2>8, <2>r DEF FlushUnlink
  <2> QED BY <1>2, <2>1, <2>2, <2>3, <2>4, <2>5, <2>6, <2>7, <2>8 DEF Flush
<1>3. CASE Compaction
  BY <1>3, <1>t DEF Compaction, CompactSelect, CompactAbort, CompactReplace, CompactSwap,
                    RolloverList, RolloverRename
<1>4. CASE ProcessStops
  <2>1. ProcessEnds
    BY <1>4 DEF ProcessStops, Crash, StartupFails
  <2> QED BY <2>1 DEF ProcessEnds, Flushers
<1>5. CASE Recovery
  BY <1>5, <1>t DEF Recovery, Replay, RemoveOldWal, Opened
<1>6. ASSUME NEW r \in Readers, Reading(r) PROVE PhaseInv'
  BY <1>6, <1>t, <1>d DEF Reading, GetStart, GetMemtables, GetSstables, GetReturn
<1>7. CASE UNCHANGED vars
  BY <1>7, <1>t DEF vars
<1> QED BY <1>1, <1>2, <1>3, <1>4, <1>5, <1>6, <1>7 DEF Next

-----------------------------------------------------------------------------
(* Log files.                                                               *)

(* LogInv's two halves: the active log stays, and the logs that flushes have created are *)
(* theirs.                                                                               *)
LogNow ==
    /\ wal \in wal_files \ Doomed
    /\ \A w \in wal_files \cup Doomed : w < flush_counter

LogsComing ==
    \A f \in Flushers :
       /\ Coming(f) \subseteq wal_files \ ({wal} \cup Doomed)
       /\ \A g \in Flushers \ {f} : Coming(f) \cap Coming(g) = {}

(* The logs that one flush is about to remove. *)
Dooms(f) == IF flush[f].pc \in {"create", "write", "publish", "unlink"} THEN flush[f].old_wal ELSE {}

(* A log is about to go when the startup or one of the flushes removes it. *)
LEMMA DoomedMember ==
    ASSUME NEW w
    PROVE  w \in Doomed <=> w \in old_wals \/ \E f \in Flushers : w \in Dooms(f)
  BY DEF Doomed, Dooms

(* Logs about to go have numbers. *)
LEMMA DoomedInt ==
    ASSUME TypeOK
    PROVE  Doomed \subseteq Int
<1> SUFFICES ASSUME NEW w \in Doomed PROVE w \in Int
  OBVIOUS
<1>1. old_wals \subseteq Int
  BY DEF TypeOK, Wals, WAL_LOG
<1>2. flush \in [Flushers -> FlushState(Entry, Tables(Entry, TableId))]
  BY DEF TypeOK, DataIn, Tables
<1>3. \A f \in Flushers : Dooms(f) \subseteq Int
  BY <1>2, FlushForms DEF Dooms, Wals, WAL_LOG
<1> QED BY <1>1, <1>3, DoomedMember

(* A step that neither moves a log nor adds or removes a file. *)
LEMMA LogsStay ==
    ASSUME LogInv,
           UNCHANGED <<wal, wal_files, flush_counter, old_wals>>, phase' # "down" => phase # "down",
           \A f \in Flushers : Coming(f)' \subseteq Coming(f) /\ Dooms(f)' \subseteq Dooms(f),
           \A e \in wal_data' : e \in wal_data \/ e.log \in wal_files
    PROVE  LogInv'
<1>1. Doomed' \subseteq Doomed
  <2> SUFFICES ASSUME NEW w \in Doomed' PROVE w \in Doomed
    OBVIOUS
  <2>1. w \in old_wals' \/ \E f \in Flushers : w \in Dooms(f)'
    BY DEF Doomed, Dooms
  <2> QED BY <2>1, DoomedMember
<1>2. \A e \in wal_data' : e.log \in wal_files'
  BY DEF LogInv
<1>3. phase' # "down" => (wal \in wal_files \ Doomed)' /\ \A w \in (wal_files \cup Doomed)' : w < flush_counter'
  BY <1>1 DEF LogInv
<1>4. ASSUME NEW f \in Flushers
      PROVE  /\ Coming(f)' \subseteq (wal_files \ ({wal} \cup Doomed))'
             /\ \A g \in Flushers \ {f} : Coming(f)' \cap Coming(g)' = {}
  BY <1>1, <1>4 DEF LogInv
<1> QED BY <1>2, <1>3, <1>4 DEF LogInv

(* A flush creates its log, moves the store to it under the lock, and removes only the *)
(* logs it took over.                                                                  *)
LEMMA LogFlush ==
    ASSUME LsmInv, NEW f \in Flushers, Flush(f)
    PROVE  LogInv'
<1>t. TypeOK /\ PhaseInv /\ LogInv
  BY DEF LsmInv
<1>f. flush \in [Flushers -> FlushState(Entry, Tables(Entry, TableId))]
  BY <1>t DEF TypeOK, DataIn, Tables
<1>a. flush[f].pc # "idle" \/ MayFlush(f)
  BY DEF Flush, FlushStart, FlushNothing, FlushSwap, FlushCreate, FlushWrite, FlushFails,
         FlushPublish, FlushUnlink
<1>p. phase # "down"
  BY <1>a, <1>t DEF MayFlush, PhaseInv, Flushers
<1>n. flush_counter \in Nat /\ wal_files \subseteq Int
  BY <1>t DEF TypeOK, Wals, WAL_LOG
<1>r. Return(f) => \A g \in Flushers : Coming(g)' \subseteq Coming(g) /\ Dooms(g)' \subseteq Dooms(g)
  BY <1>f DEF Return, Coming, Dooms, IdleFlush
<1>1. CASE FlushStart(f)
  <2> DEFINE new == {flush_counter : e \in memtable}
  <2>1. /\ Coming(f)' = new /\ Dooms(f)' = {}
        /\ \A g \in Flushers \ {f} : Coming(g)' = Coming(g) /\ Dooms(g)' = Dooms(g)
        /\ Dooms(f) = {}
    BY <1>1, <1>f DEF FlushStart, MayFlush, Coming, Dooms
  <2>2. \A w : w \in Doomed' <=> w \in Doomed
    <3> SUFFICES ASSUME NEW w PROVE w \in Doomed' <=> w \in Doomed
      OBVIOUS
    <3>1. w \in Doomed' <=> w \in old_wals' \/ \E g \in Flushers : w \in Dooms(g)'
      BY DEF Doomed, Dooms
    <3> QED BY <3>1, <2>1, DoomedMember, <1>1 DEF FlushStart
  <2>3. flush_counter' \in Nat /\ flush_counter' >= flush_counter
        /\ (new # {} => flush_counter' = flush_counter + 1)
    <3>1. CASE memtable = {}
      <4>1. new = {}
        BY <3>1
      <4> QED BY <4>1, <1>1, <1>n, FS_EmptySet DEF FlushStart
    <3>2. CASE memtable # {}
      <4>1. new = {flush_counter}
        BY <3>2
      <4>2. Cardinality(new) = 1
        BY <4>1, FS_Singleton
      <4> HIDE DEF new
      <4>3. flush_counter' = flush_counter + Cardinality(new)
        BY <1>1 DEF FlushStart, new
      <4> QED BY <4>2, <4>3, <1>n
    <3> QED BY <3>1, <3>2
  <2>4. \A w \in new : w = flush_counter
    OBVIOUS
  <2>5. wal_files' = wal_files \cup new
    BY <1>1 DEF FlushStart
  <2> HIDE DEF new
  <2>6. \A e \in wal_data' : e.log \in wal_files'
    BY <1>1, <1>t, <2>5 DEF FlushStart, LogInv
  <2>7. LogNow'
    <3>1. wal' = wal
      BY <1>1 DEF FlushStart
    <3>2. Doomed \subseteq Int
      BY <1>t, DoomedInt
    <3>3. \A w \in (wal_files \cup Doomed)' : w < flush_counter'
      BY <1>t, <1>p, <1>n, <2>2, <2>3, <2>4, <2>5, <3>2 DEF LogInv
    <3> QED BY <3>1, <3>3, <2>2, <2>5, <1>t, <1>p DEF LogInv, LogNow
  <2>8. LogsComing'
    <3>1. wal' = wal
      BY <1>1 DEF FlushStart
    <3>2. flush_counter \notin wal_files /\ flush_counter \notin Doomed /\ flush_counter # wal
      BY <1>t, <1>p, <1>n DEF LogInv
    <3>3. ASSUME NEW g \in Flushers
          PROVE  Coming(g)' \subseteq (wal_files \ ({wal} \cup Doomed))'
      BY <3>1, <3>2, <3>3, <2>1, <2>2, <2>4, <2>5, <1>t DEF LogInv
    <3>4. ASSUME NEW g \in Flushers, NEW h \in Flushers \ {g}
          PROVE  Coming(g)' \cap Coming(h)' = {}
      BY <3>2, <3>4, <2>1, <2>4, <1>t DEF LogInv
    <3> QED BY <3>3, <3>4 DEF LogsComing
  <2> QED BY <2>6, <2>7, <2>8 DEF LogInv, LogNow, LogsComing
<1>2. CASE FlushNothing(f)
  BY <1>2, <1>r, <1>t, <1>p, LogsStay DEF FlushNothing
<1>3. CASE FlushSwap(f)
  <2> DEFINE late == memtable # {} /\ flush[f].new_wal = {}
             new  == IF late THEN {flush_counter} ELSE flush[f].new_wal
  <2>1. flush[f].new_wal \subseteq Nat /\ Coming(f) = flush[f].new_wal /\ Dooms(f) = {}
    BY <1>3, <1>f, FlushForms DEF FlushSwap, Coming, Dooms
  <2>2. /\ Coming(f)' = {} /\ Dooms(f)' = IF memtable = {} THEN {} ELSE {wal}
        /\ \A g \in Flushers \ {f} : Coming(g)' = Coming(g) /\ Dooms(g)' = Dooms(g)
    BY <1>3, <1>f DEF FlushSwap, Coming, Dooms
  <2>3. \A w : w \in Doomed' <=> w \in Doomed \/ (memtable # {} /\ w = wal)
    <3> SUFFICES ASSUME NEW w PROVE w \in Doomed' <=> w \in Doomed \/ (memtable # {} /\ w = wal)
      OBVIOUS
    <3>1. w \in Doomed' <=> w \in old_wals' \/ \E g \in Flushers : w \in Dooms(g)'
      BY DEF Doomed, Dooms
    <3> QED BY <3>1, <2>1, <2>2, DoomedMember, <1>3 DEF FlushSwap
  <2>4. /\ flush_counter' = IF late THEN flush_counter + 1 ELSE flush_counter
        /\ wal_files' = wal_files \cup new
        /\ wal' = IF memtable = {} THEN wal ELSE CHOOSE w \in new : TRUE
    BY <1>3 DEF FlushSwap
  <2>5. memtable # {} => wal' \in new
    <3>1. memtable # {} => new # {}
      OBVIOUS
    <3> QED BY <3>1, <2>4
  <2>6. flush_counter \notin wal_files /\ flush_counter \notin Doomed /\ flush_counter # wal
    BY <1>t, <1>p, <1>n DEF LogInv
  <2>7. \A w \in new : w \in Coming(f) \/ (late /\ w = flush_counter)
    BY <2>1
  <2>8. \A w \in new : w \notin Doomed' /\ w # wal
    BY <2>3, <2>6, <2>7, <1>t DEF LogInv
  <2>9. wal \notin Doomed /\ wal \in wal_files
    BY <1>t, <1>p DEF LogInv
  <2>10. flush_counter' \in Nat /\ flush_counter' >= flush_counter
         /\ (late => flush_counter' = flush_counter + 1)
    BY <2>4, <1>n
  <2>11. late \in BOOLEAN
    OBVIOUS
  <2> HIDE DEF new, late
  <2>12. \A e \in wal_data' : e.log \in wal_files'
    BY <1>3, <1>t, <2>4 DEF FlushSwap, LogInv
  <2>13. LogNow'
    <3>1. wal' \in wal_files'
      BY <2>4, <2>5, <2>9
    <3>2. wal' \notin Doomed'
      BY <2>3, <2>4, <2>5, <2>8, <2>9
    <3>3. ASSUME NEW w \in (wal_files \cup Doomed)' PROVE w < flush_counter'
      <4>1. w \in wal_files \/ w \in Doomed \/ (late /\ w = flush_counter)
        BY <3>3, <2>3, <2>4, <2>7, <2>9, <1>t DEF LogInv
      <4>2. Doomed \subseteq Int
        BY <1>t, DoomedInt
      <4>3. flush_counter \in Int /\ w \in Int
        <5>1. flush_counter \in Int
          BY <1>n
        <5> QED BY <4>1, <4>2, <5>1, <1>n
      <4>4. w \in wal_files \/ w \in Doomed => w < flush_counter
        BY <1>t, <1>p DEF LogInv
      <4> QED BY <4>1, <4>3, <4>4, <2>10, <1>n
    <3> QED BY <3>1, <3>2, <3>3 DEF LogNow
  <2>14. LogsComing'
    <3>1. ASSUME NEW g \in Flushers
          PROVE  Coming(g)' \subseteq (wal_files \ ({wal} \cup Doomed))'
      <4>1. CASE g = f
        BY <4>1, <2>2
      <4>2. CASE g # f
        <5>1. Coming(g)' = Coming(g) /\ Coming(g) \cap Coming(f) = {}
          BY <4>2, <2>2, <1>t DEF LogInv
        <5>2. Coming(g) \subseteq wal_files \ ({wal} \cup Doomed)
          BY <1>t DEF LogInv
        <5> QED BY <5>1, <5>2, <2>3, <2>4, <2>5, <2>6, <2>7
      <4> QED BY <4>1, <4>2
    <3>2. ASSUME NEW g \in Flushers, NEW h \in Flushers \ {g}
          PROVE  Coming(g)' \cap Coming(h)' = {}
      BY <3>2, <2>2, <1>t DEF LogInv
    <3> QED BY <3>1, <3>2 DEF LogsComing
  <2> QED BY <2>12, <2>13, <2>14 DEF LogInv, LogNow, LogsComing
<1>4. CASE FlushCreate(f)
  <2>1. \A g \in Flushers : Coming(g)' \subseteq Coming(g) /\ Dooms(g)' \subseteq Dooms(g)
    BY <1>4, <1>f DEF FlushCreate, Coming, Dooms
  <2> QED BY <1>4, <2>1, <1>t, <1>p, LogsStay DEF FlushCreate
<1>5. CASE FlushWrite(f)
  <2>1. flush[f] \in [pc : {"write", "publish", "unlink"}, to_flush : SUBSET SUBSET Entry,
                      old_wal : SUBSET Wals, table : Tables(Entry, TableId)]
    BY <1>5, <1>f, FlushForms DEF FlushWrite
  <2>2. \A g \in Flushers : Coming(g)' \subseteq Coming(g) /\ Dooms(g)' \subseteq Dooms(g)
    BY <1>5, <1>f, <2>1 DEF FlushWrite, Coming, Dooms
  <2> QED BY <1>5, <2>2, <1>t, <1>p, LogsStay DEF FlushWrite
<1>6. CASE FlushFails(f)
  BY <1>6, <1>r, <1>t, <1>p, LogsStay DEF FlushFails
<1>7. CASE FlushPublish(f)
  <2>1. flush[f] \in [pc : {"write", "publish", "unlink"}, to_flush : SUBSET SUBSET Entry,
                      old_wal : SUBSET Wals, table : Tables(Entry, TableId)]
    BY <1>7, <1>f, FlushForms DEF FlushPublish
  <2>2. \A g \in Flushers : Coming(g)' \subseteq Coming(g) /\ Dooms(g)' \subseteq Dooms(g)
    BY <1>7, <1>f, <2>1 DEF FlushPublish, Coming, Dooms
  <2> QED BY <1>7, <2>2, <1>t, <1>p, LogsStay DEF FlushPublish
<1>8. CASE FlushUnlink(f)
  <2>1. CASE UNCHANGED <<wal_files, wal_data>>
    BY <1>8, <2>1, <1>r, <1>t, <1>p, LogsStay DEF FlushUnlink
  <2>2. CASE Unlink(flush[f].old_wal)
    <3>1. Return(f) /\ UNCHANGED <<wal, flush_counter, old_wals>>
      BY <1>8 DEF FlushUnlink
    <3>2. \A w \in flush[f].old_wal : w \in Doomed
      BY <1>8, DoomedMember DEF FlushUnlink, Dooms
    <3>3. \A w \in Doomed' : w \in Doomed
      <4> SUFFICES ASSUME NEW w \in Doomed' PROVE w \in Doomed
        OBVIOUS
      <4>1. w \in old_wals' \/ \E g \in Flushers : w \in Dooms(g)'
        BY DEF Doomed, Dooms
      <4> QED BY <4>1, <3>1, <1>r, DoomedMember
    <3>4. \A w \in wal_files' : w \in wal_files
      BY <2>2 DEF Unlink
    <3>5. \A w \in wal_files \ Doomed : w \in wal_files'
      BY <2>2, <3>2 DEF Unlink
    <3>6. LogNow'
      BY <3>1, <3>3, <3>4, <3>5, <1>t, <1>p DEF LogInv, LogNow
    <3>7. LogsComing'
      BY <3>1, <3>3, <3>4, <3>5, <1>t, <1>r DEF LogInv, LogsComing
    <3>8. \A e \in wal_data' : e.log \in wal_files'
      BY <2>2, <1>t DEF Unlink, LogInv
    <3> QED BY <3>6, <3>7, <3>8 DEF LogInv, LogNow, LogsComing
  <2> QED BY <1>8, <2>1, <2>2 DEF FlushUnlink
<1> QED BY <1>1, <1>2, <1>3, <1>4, <1>5, <1>6, <1>7, <1>8 DEF Flush

(* No other task moves or removes a log that is in use. *)
LEMMA LogStep ==
    ASSUME LsmInv, [Next]_vars
    PROVE  LogInv'
<1>t. TypeOK /\ PhaseInv /\ LogInv
  BY DEF LsmInv
<1>s. ASSUME UNCHANGED flush
      PROVE  \A f \in Flushers : Coming(f)' = Coming(f) /\ Dooms(f)' = Dooms(f)
  BY <1>s DEF Coming, Dooms
<1>1. CASE Commit
  <2>1. ASSUME NEW k \in Keys, NEW tomb \in BOOLEAN, CommitPrepare(k, tomb) PROVE LogInv'
    BY <2>1, <1>s, <1>t, LogsStay DEF CommitPrepare
  <2>2. CASE CommitAppend
    BY <2>2, <1>s, <1>t, LogsStay DEF CommitAppend
  <2>3. CASE CommitAppendFails
    BY <2>3, <1>s, <1>t, LogsStay DEF CommitAppendFails, Truncated
  <2>4. CASE CommitApply
    BY <2>4, <1>s, <1>t, LogsStay DEF CommitApply
  <2> QED BY <1>1, <2>1, <2>2, <2>3, <2>4 DEF Commit
<1>2. CASE Compaction
  BY <1>2, <1>s, <1>t, LogsStay DEF Compaction, CompactSelect, CompactAbort, CompactReplace,
                                    CompactSwap, RolloverList, RolloverRename
<1>3. CASE ProcessStops
  <2>1. ProcessEnds /\ UNCHANGED <<wal_files, wal_data>>
    BY <1>3 DEF ProcessStops, Crash, StartupFails
  <2>2. \A f \in Flushers : Coming(f)' = {}
    BY <2>1 DEF ProcessEnds, Coming, IdleFlush
  <2> QED BY <2>1, <2>2, <1>t DEF ProcessEnds, LogInv
<1>4. CASE Replay
  <2>1. flush' = flush /\ phase = "down" /\ wal_data' = wal_data
    BY <1>4 DEF Replay
  <2>2. \A f \in Flushers : flush[f].pc = "idle"
    <3>1. commit.pc = "idle"
      BY <2>1, <1>t DEF PhaseInv
    <3> QED BY <2>1, <3>1, <1>t DEF PhaseInv, Flushers
  <2>3. \A f \in Flushers : Coming(f)' = {} /\ Dooms(f)' = {}
    BY <2>1, <2>2 DEF Coming, Dooms
  <2>4. \A w \in Doomed' : w \in old_wals'
    <3> SUFFICES ASSUME NEW w \in Doomed' PROVE w \in old_wals'
      OBVIOUS
    <3>1. w \in old_wals' \/ \E f \in Flushers : w \in Dooms(f)'
      BY DEF Doomed, Dooms
    <3> QED BY <3>1, <2>3
  <2>5. /\ wal' = ActiveLog /\ wal_files' = wal_files \cup {ActiveLog}
        /\ old_wals' = wal_files \ {ActiveLog}
        /\ flush_counter' = IF wal_files = {} THEN 0 ELSE Max({FileNo(w) : w \in wal_files}) + 1
    BY <1>4 DEF Replay, ReplayedLogs
  <2>6. \A w \in wal_files \cup {ActiveLog} : w < flush_counter'
    <3>1. CASE wal_files = {}
      BY <3>1, <2>5 DEF ActiveLog, WAL_LOG
    <3>2. CASE wal_files # {}
      <4>1. PICK b \in Nat : Within(b)
        BY DEF LsmInv, Bounded
      <4>2. /\ ActiveLog \in wal_files /\ Max({FileNo(w) : w \in wal_files}) \in Nat
            /\ \A w \in wal_files : FileNo(w) <= Max({FileNo(v) : v \in wal_files})
        BY <3>2, <4>1, <1>t, LastLog DEF Within, TypeOK
      <4>3. flush_counter' = Max({FileNo(w) : w \in wal_files}) + 1
        BY <2>5, <3>2
      <4>4. \A w \in wal_files : w \in Int /\ FileNo(w) \in Nat /\ w <= FileNo(w)
        BY <1>t DEF TypeOK, Wals, WAL_LOG, FileNo
      <4> DEFINE m == Max({FileNo(w) : w \in wal_files})
      <4> HIDE DEF m
      <4>5. m \in Nat /\ flush_counter' = m + 1 /\ \A w \in wal_files : FileNo(w) <= m
        BY <4>2, <4>3 DEF m
      <4> QED BY <4>2, <4>4, <4>5
    <3> QED BY <3>1, <3>2
  <2>7. LogNow'
    BY <2>4, <2>5, <2>6 DEF LogNow
  <2>8. \A e \in wal_data' : e.log \in wal_files'
    BY <2>1, <2>5, <1>t DEF LogInv
  <2> QED BY <2>3, <2>7, <2>8 DEF LogInv, LogNow
<1>5. CASE RemoveOldWal
  <2> DEFINE w == CHOOSE v \in old_wals : \A x \in old_wals : Rank(v) <= Rank(x)
  <2>1. /\ phase = "cleanup" /\ old_wals # {}
        /\ old_wals' = old_wals \ {w}
        /\ Unlink({w}) \/ UNCHANGED <<wal_files, wal_data>>
        /\ UNCHANGED <<phase, wal, flush, flush_counter>>
    BY <1>5 DEF RemoveOldWal
  <2>2. w \in old_wals
    <3>1. \A v \in old_wals : Rank(v) \in Nat
      BY <1>t DEF TypeOK, Rank, Wals, WAL_LOG
    <3> DEFINE S == {Rank(v) : v \in old_wals}
    <3>2. S \subseteq Nat /\ S # {}
      BY <3>1, <2>1
    <3>3. \E u \in S : \A v \in S : u <= v
      <4> HIDE DEF S
      <4> QED BY <3>2, LeastExists
    <3>4. \E v \in old_wals : \A x \in old_wals : Rank(v) <= Rank(x)
      BY <3>3
    <3> QED BY <3>4
  <2> HIDE DEF w
  <2>3. w \in Doomed
    BY <2>2, DoomedMember
  <2>4. \A f \in Flushers : Coming(f)' = Coming(f) /\ Dooms(f)' = Dooms(f)
    BY <2>1, <1>s
  <2>5. \A x \in Doomed' : x \in Doomed
    <3> SUFFICES ASSUME NEW x \in Doomed' PROVE x \in Doomed
      OBVIOUS
    <3>1. x \in old_wals' \/ \E f \in Flushers : x \in Dooms(f)'
      BY DEF Doomed, Dooms
    <3> QED BY <3>1, <2>1, <2>4, DoomedMember
  <2>6. /\ \A x \in wal_files' : x \in wal_files
        /\ \A x \in wal_files \ Doomed : x \in wal_files'
        /\ \A e \in wal_data' : e \in wal_data /\ e.log \in wal_files'
    BY <2>1, <2>3, <1>t DEF Unlink, LogInv
  <2>7. LogNow'
    BY <2>1, <2>5, <2>6, <1>t DEF LogInv, LogNow
  <2>8. LogsComing'
    BY <2>1, <2>4, <2>5, <2>6, <1>t DEF LogInv, LogsComing
  <2> QED BY <2>6, <2>7, <2>8 DEF LogInv, LogNow, LogsComing
<1>6. CASE Opened
  BY <1>6, <1>s, <1>t, LogsStay DEF Opened
<1>7. ASSUME NEW r \in Readers, Reading(r) PROVE LogInv'
  BY <1>7, <1>s, <1>t, LogsStay DEF Reading, GetStart, GetMemtables, GetSstables, GetReturn
<1>8. CASE UNCHANGED vars
  BY <1>8, <1>s, <1>t, LogsStay DEF vars
<1> QED BY <1>1, <1>2, <1>3, <1>4, <1>5, <1>6, <1>7, <1>8, LogFlush DEF Next, Recovery

-----------------------------------------------------------------------------
(* The invariant.                                                           *)

(* Each step adds at most one to the greatest number. *)
LEMMA BoundedStep ==
    ASSUME LsmInv, [Next]_vars, Numbers'
    PROVE  Bounded'
<1>t. TypeOK /\ PhaseInv /\ LogInv /\ Bounded
  BY DEF LsmInv
<1>0. PICK b \in Nat : Within(b)
  BY <1>t DEF Bounded
<1>w. PICK d \in Nat : \A w \in wal_files' : w <= d
  <2>1. wal_files' \subseteq Wals /\ flush_counter' \in Nat
    BY DEF Numbers
  <2>2. CASE phase' # "down"
    <3>1. \A w \in wal_files' : w < flush_counter'
      BY <2>2, LogStep DEF LogInv
    <3>2. wal_files' \subseteq Int
      BY <2>1 DEF Wals, WAL_LOG
    <3>3. \A w \in wal_files' : w <= flush_counter'
      BY <2>1, <3>1, <3>2
    <3> QED BY <2>1, <3>3
  <2>3. CASE phase' = "down"
    <3>1. ASSUME Commit PROVE wal_files' = wal_files
      BY <3>1 DEF Commit, CommitPrepare, CommitAppend, CommitAppendFails, CommitApply
    <3>2. ASSUME NEW f \in Flushers, Flush(f) PROVE wal_files' = wal_files
      <4>1. phase # "down"
        BY <3>2, <1>t DEF Flush, FlushStart, MayFlush, FlushNothing, FlushSwap, FlushCreate,
                          FlushWrite, FlushFails, FlushPublish, FlushUnlink, PhaseInv, Flushers
      <4>2. phase' # "down"
        BY <3>2, <4>1 DEF Flush, FlushStart, FlushNothing, FlushSwap, FlushCreate, FlushWrite,
                          FlushFails, FlushPublish, FlushUnlink, Return
      <4> QED BY <2>3, <4>2
    <3>3. ASSUME Compaction PROVE wal_files' = wal_files
      BY <3>3 DEF Compaction, CompactSelect, CompactAbort, CompactReplace, CompactSwap,
                  RolloverList, RolloverRename
    <3>4. ASSUME ProcessStops PROVE wal_files' = wal_files
      BY <3>4 DEF ProcessStops, Crash, StartupFails
    <3>5. ASSUME Recovery PROVE wal_files' = wal_files
      BY <2>3, <3>5 DEF Recovery, Replay, AfterReplay, RemoveOldWal, Opened
    <3>6. ASSUME NEW r \in Readers, Reading(r) PROVE wal_files' = wal_files
      BY <3>6 DEF Reading, GetStart, GetMemtables, GetSstables, GetReturn
    <3>7. wal_files' = wal_files
      BY <3>1, <3>2, <3>3, <3>4, <3>5, <3>6 DEF Next, vars
    <3> QED BY <3>7, <1>0 DEF Within
  <2> QED BY <2>2, <2>3
<1>1. PICK c \in Nat : /\ b + 1 <= c /\ next_seq_no <= c /\ lastTx + 1 <= c /\ segment_counter <= c
                       /\ d <= c
  <2>1. next_seq_no \in Nat /\ lastTx \in Nat /\ segment_counter \in Nat /\ d \in Nat
    BY <1>t, <1>w DEF TypeOK
  <2> DEFINE c == b + 1 + next_seq_no + lastTx + 1 + segment_counter + d
  <2>2. /\ c \in Nat /\ b + 1 <= c /\ next_seq_no <= c /\ lastTx + 1 <= c /\ segment_counter <= c
        /\ d <= c
    BY <2>1
  <2> QED BY <2>2
<1>2. DataIn(Ents(c), Ids(c))
  <2>1. Ents(b) \subseteq Ents(c)
    BY <1>1 DEF Ents, Entry
  <2>2. Ids(b) \subseteq Ids(c)
    BY <1>1 DEF Ids, TableId
  <2> QED BY <2>1, <2>2, <1>0, DataMore DEF Within
<1>3. ASSUME NEW k \in Keys, NEW tomb \in BOOLEAN, CommitPrepare(k, tomb)
      PROVE  commit'.entry \in Ents(c)
  <2>1. wal \in Wals
    BY <1>3, <1>t DEF CommitPrepare, LogInv, TypeOK
  <2>2. commit'.entry = [key |-> k, seq |-> next_seq_no, tx |-> lastTx + 1,
                         tomb |-> tomb, log |-> wal]
    BY <1>3 DEF CommitPrepare
  <2> QED BY <2>1, <2>2, <1>1, <1>t DEF Ents, Entry, TypeOK
<1>4. <<next_seq_no, segment_counter>> \in Ids(c)
  BY <1>1, <1>t DEF Ids, TableId, TypeOK
<1>5. FreshCompactId \in Ids(c)
  <2>1. FreshCompactId \in Ids(b + 1)
    BY <1>0, CompactIdBounded DEF Within
  <2> QED BY <2>1, <1>1 DEF Ids, TableId
<1>6. DataIn(Ents(c), Ids(c))'
  BY <1>2, <1>3, <1>4, <1>5, <1>t, DataStep
<1>7. \A w \in wal_files' : w <= c
  <2>1. wal_files' \subseteq Int
    BY DEF Numbers, Wals, WAL_LOG
  <2> QED BY <2>1, <1>w, <1>1
<1> QED BY <1>6, <1>7 DEF Bounded, Within

(* An empty directory. *)
LEMMA LsmInit ==
    ASSUME Init
    PROVE  LsmInv
<1>1. DataIn(Ents(0), Ids(0))
  BY DEF Init, DataIn, CommitState, FlushState, CompactionState, Idle, IdleCommit, IdleFlush, NoMerge
<1>2. Within(0)
  BY <1>1 DEF Within, Init
<1>3. Ents(0) \subseteq Entry /\ Ids(0) \subseteq TableId
  BY DEF Ents, Ids
<1>4. TypeOK
  <2>1. DataIn(Entry, TableId)
    BY <1>1, <1>3, DataMore
  <2> QED BY <2>1 DEF TypeOK, Init, No, NoWal, ReaderState, Idle, IdleReader
<1>5. PhaseInv
  BY DEF PhaseInv, Init, IdleCommit, IdleFlush, IdleReader, NoMerge, Flushers
<1>6. LogInv
  BY DEF LogInv, Init, Coming, IdleFlush
<1> QED BY <1>2, <1>4, <1>5, <1>6 DEF LsmInv, Bounded

(* The invariant is inductive. *)
LEMMA LsmStep ==
    ASSUME LsmInv, [Next]_vars
    PROVE  LsmInv'
<1>t. TypeOK /\ PhaseInv /\ LogInv
  BY DEF LsmInv
<1>1. Numbers'
  BY NumbersStep
<1>2. Bounded'
  BY <1>1, BoundedStep
<1>3. DataIn(Entry, TableId)'
  <2>0. PICK b \in Nat : DataIn(Ents(b), Ids(b))'
    BY <1>2 DEF Bounded, Within
  <2> HIDE DEF Ents, Ids
  <2>1. ASSUME NEW k \in Keys, NEW tomb \in BOOLEAN, CommitPrepare(k, tomb)
        PROVE  commit'.entry \in Entry
    <3>1. wal \in Wals
      BY <2>1, <1>t DEF CommitPrepare, LogInv, TypeOK
    <3> QED BY <2>1, <3>1, <1>t DEF CommitPrepare, Entry, TypeOK
  <2>2. <<next_seq_no, segment_counter>> \in TableId
    BY <1>t DEF TableId, TypeOK
  <2>3. FreshCompactId \in TableId
    BY CompactIdBounded DEF LsmInv, Bounded, Within, Ids
  <2> QED BY <2>1, <2>2, <2>3, <1>t, DataStep DEF TypeOK
<1>4. TypeOK'
  BY <1>1, <1>3, ReaderStep DEF TypeOK, Numbers
<1> QED BY <1>2, <1>4, PhaseStep, LogStep DEF LsmInv

(* The store of LsmTree keeps LsmInv: counters, tables, logs and gets stay what the code *)
(* takes them for, tasks run only in the phases that allow them, and the log files that  *)
(* flush() and new() create and remove are the ones they own.                            *)
THEOREM LsmInvariant == Spec => []LsmInv
<1>1. Init => LsmInv
  BY LsmInit
<1>2. LsmInv /\ [Next]_vars => LsmInv'
  BY LsmStep
<1> QED BY <1>1, <1>2, PTL DEF Spec

(* Type correctness of commit(), flush(), run_compaction(), new() and get() in every *)
(* interleaving, with every fault of Environment.                                    *)
THEOREM LsmTypes == Spec => []TypeOK
<1>1. LsmInv => TypeOK
  BY DEF LsmInv
<1> QED BY <1>1, LsmInvariant, PTL

(* The active WAL file is never removed, and no flush and no startup is about to remove  *)
(* it: not by a second flush that swaps the log between the first one's steps, not after *)
(* a crash in the middle of a flush, nor by the removal of old logs in new()             *)
(* (lsm/ops/compaction.rs, lsm/recovery.rs).                                             *)
THEOREM ActiveLogStays == Spec => []ActiveLogKept
<1>1. LsmInv => ActiveLogKept
  <2> SUFFICES ASSUME LsmInv PROVE ActiveLogKept
    OBVIOUS
  <2>1. phase # "down" => wal \in wal_files /\ wal \notin Doomed
    BY DEF LsmInv, LogInv
  <2> QED BY <2>1, DoomedMember DEF ActiveLogKept
<1> QED BY <1>1, LsmInvariant, PTL

-----------------------------------------------------------------------------
(* Newest versions.                                                         *)

(* Membership in the data of some tables. *)
LEMMA InData ==
    ASSUME NEW S, NEW e
    PROVE  e \in Data(S) <=> \E t \in S : e \in t.data
  BY DEF Data

(* Every entry has a newest one of its key. *)
LEMMA NewestExists ==
    ASSUME NEW b \in Nat, NEW es \in SUBSET Ents(b), NEW e \in es
    PROVE  \E z \in NewestOf(es) : z.key = e.key /\ e.seq <= z.seq
<1> DEFINE S == {f.seq : f \in {g \in es : g.key = e.key}}
<1>1. S \subseteq Nat /\ S # {} /\ \A n \in S : n <= b
  BY DEF Ents, Entry
<1>2. \E m \in S : \A n \in S : n <= m
  <2> HIDE DEF S
  <2> QED BY <1>1, GreatestExists
<1>3. PICK z \in es : z.key = e.key /\ \A f \in es : f.key = e.key => f.seq <= z.seq
  BY <1>2
<1> QED BY <1>3 DEF NewestOf

(* Fewer versions have the same value if each newest one stays, or is a delete and takes the *)
(* others of its key with it.                                                                *)
LEMMA HasValueSub ==
    ASSUME NEW es, NEW fs \in SUBSET es, NEW k, NEW v, HasValue(es, k, v),
           \A e \in NewestOf(es) : e.key = k =>
              e \in fs \/ (Value(e) = No /\ \A f \in fs : f.key # k)
    PROVE  HasValue(fs, k, v)
<1>1. CASE \E e \in es : e.key = k
  <2>1. PICK e \in NewestOf(es) : e.key = k /\ Value(e) = v
    BY <1>1 DEF HasValue
  <2>2. CASE e \in fs
    <3>1. e \in NewestOf(fs)
      BY <2>1, <2>2 DEF NewestOf
    <3> QED BY <2>1, <2>2, <3>1 DEF HasValue
  <2>3. CASE Value(e) = No /\ \A f \in fs : f.key # k
    BY <2>1, <2>3 DEF HasValue
  <2> QED BY <2>1, <2>2, <2>3
<1>2. CASE ~\E e \in es : e.key = k
  BY <1>2 DEF HasValue
<1> QED BY <1>1, <1>2

(* A version newer than all others is the value of its key. *)
LEMMA HasValueTop ==
    ASSUME NEW es \in SUBSET Entry, NEW x \in Entry, \A e \in es : e.seq < x.seq,
           NEW k, NEW v, HasValue(es, k, v)
    PROVE  HasValue(es \cup {x}, k, IF x.key = k THEN Value(x) ELSE v)
<1>0. \A e \in es \cup {x} : e.seq \in Nat
  BY DEF Entry
<1>1. CASE x.key = k
  <2>1. x \in NewestOf(es \cup {x})
    BY <1>0 DEF NewestOf
  <2> QED BY <1>1, <2>1 DEF HasValue
<1>2. CASE x.key # k
  <2>1. CASE \E e \in es : e.key = k
    <3>1. PICK e \in NewestOf(es) : e.key = k /\ Value(e) = v
      BY <2>1 DEF HasValue
    <3>2. e \in NewestOf(es \cup {x})
      BY <1>2, <3>1 DEF NewestOf
    <3> QED BY <1>2, <3>1, <3>2 DEF HasValue, NewestOf
  <2>2. CASE ~\E e \in es : e.key = k
    BY <1>2, <2>2 DEF HasValue
  <2> QED BY <2>1, <2>2
<1> QED BY <1>1, <1>2

(* The sequence number in a table's metadata. *)
LEMMA MaxSeq ==
    ASSUME NEW b \in Nat, NEW t, t.data \subseteq Ents(b)
    PROVE  /\ max_seq(t) \in Nat
           /\ \A e \in t.data : e.seq \in Nat /\ e.seq <= max_seq(t)
           /\ t.data # {} => \E e \in t.data : e.seq = max_seq(t)
<1>1. /\ MaxOr0(Seqs(t.data)) \in Nat
      /\ \A e \in t.data : e.seq <= MaxOr0(Seqs(t.data))
      /\ Seqs(t.data) \subseteq Nat /\ \A n \in Seqs(t.data) : n <= b
  BY SeqsBounded
<1>2. t.data # {} => MaxOr0(Seqs(t.data)) \in Seqs(t.data)
  <2>1. t.data # {} => Seqs(t.data) # {}
    BY DEF Seqs
  <2> QED BY <2>1, <1>1, MaxBounded
<1> QED BY <1>1, <1>2 DEF max_seq, Seqs, Ents, Entry

-----------------------------------------------------------------------------
(* Merges.                                                                  *)

(* compaction.table is the merge of inputs, among the tables S: only neighbours are merged, and *)
(* deletes are dropped only when every other table is newer.                                    *)
IsMerge(S, inputs, table) ==
    LET others == S \ inputs
    IN  /\ inputs \subseteq S
        /\ \A u \in others :
              \/ \A t \in inputs : max_seq(u) < max_seq(t)
              \/ \A t \in inputs : max_seq(u) > max_seq(t)
        /\ \/ table.data = Merge(inputs, FALSE)
           \/ /\ table.data = Merge(inputs, TRUE)
              /\ \A x \in Data(others), y \in Data(inputs) : y.seq < x.seq

(* A merge keeps the newest version of each key, and a full one drops deletes. *)
LEMMA MergeEntries ==
    ASSUME NEW inputs, NEW full
    PROVE  Merge(inputs, full) = {e \in NewestOf(Data(inputs)) : ~(e.tomb /\ full)}
  BY DEF Merge, NewestOf, Data

(* Replacing neighbours by their merge keeps the tables ordered. *)
LEMMA MergeOrdered ==
    ASSUME NEW b \in Nat, NEW S, NEW inputs, NEW table, \A t \in S : t.data \subseteq Ents(b),
           Ordered(S), IsMerge(S, inputs, table)
    PROVE  Ordered((S \ inputs) \cup {table})
<1>1. /\ table.data \subseteq NewestOf(Data(inputs)) /\ NewestOf(Data(inputs)) \subseteq Data(inputs)
      /\ Data(inputs) \in SUBSET Ents(b)
  BY MergeEntries DEF IsMerge, NewestOf, Data
<1>2. \A e \in table.data : \E t \in inputs : e \in t.data
  BY <1>1, InData
<1>3. \A e \in table.data, t \in inputs : \A f \in t.data : f.key = e.key => f.seq <= e.seq
  BY <1>1, InData DEF NewestOf
<1>4. table.data \subseteq Ents(b)
  BY <1>1
<1>5. inputs \subseteq S
  BY DEF IsMerge
<1>m. \A t \in S \cup {table} :
         /\ max_seq(t) \in Nat
         /\ \A e \in t.data : e.seq \in Nat /\ e.seq <= max_seq(t)
         /\ t.data # {} => \E e \in t.data : e.seq = max_seq(t)
  BY <1>4, MaxSeq
<1>6. ASSUME NEW u \in S \ inputs, NEW e \in table.data, NEW f \in u.data, f.key = e.key,
             max_seq(u) <= max_seq(table)
      PROVE  f.seq <= e.seq
  <2>1. CASE \A t \in inputs : max_seq(u) < max_seq(t)
    <3>1. PICK t \in inputs : e \in t.data
      BY <1>2
    <3>2. max_seq(u) <= max_seq(t)
      BY <2>1, <3>1, <1>5, <1>m
    <3> QED BY <1>5, <1>6, <3>1, <3>2 DEF Ordered
  <2>2. CASE \A t \in inputs : max_seq(u) > max_seq(t)
    <3>1. PICK y \in table.data : y.seq = max_seq(table)
      BY <1>m
    <3>2. PICK t \in inputs : y \in t.data
      BY <1>2
    <3>3. y.seq <= max_seq(t) /\ max_seq(t) < max_seq(u)
      BY <2>2, <3>2, <1>5, <1>m
    <3> QED BY <1>6, <3>1, <3>2, <3>3, <1>5, <1>m
  <2> QED BY <2>1, <2>2 DEF IsMerge
<1>7. ASSUME NEW u \in S \ inputs, NEW e \in u.data, NEW f \in table.data, f.key = e.key,
             max_seq(table) <= max_seq(u)
      PROVE  f.seq <= e.seq
  <2>0. PICK t \in inputs : f \in t.data
    BY <1>2
  <2>1. CASE \A i \in inputs : max_seq(u) < max_seq(i)
    <3>1. CASE table.data = Merge(inputs, FALSE)
      <4>1. PICK y \in t.data : y.seq = max_seq(t)
        BY <2>0, <1>5, <1>m
      <4>2. y \in Data(inputs)
        BY <2>0, <4>1, InData
      <4>3. PICK z \in NewestOf(Data(inputs)) : y.seq <= z.seq
        BY <1>1, <4>2, NewestExists
      <4>4. z \in table.data
        BY <3>1, <4>3, MergeEntries
      <4>5. z.seq <= max_seq(table) /\ max_seq(u) < y.seq
        BY <4>1, <4>4, <2>0, <2>1, <1>5, <1>m
      <4>6. z.seq \in Nat /\ y.seq \in Nat /\ max_seq(u) \in Nat /\ max_seq(table) \in Nat
        BY <4>1, <4>4, <2>0, <1>5, <1>m
      <4> QED BY <1>7, <4>3, <4>5, <4>6
    <3>2. CASE \A x \in Data(S \ inputs), y \in Data(inputs) : y.seq < x.seq
      <4>1. e \in Data(S \ inputs) /\ f \in Data(inputs)
        BY <1>7, <2>0, InData
      <4>2. f.seq < e.seq /\ f.seq \in Nat /\ e.seq \in Nat
        BY <4>1, <3>2, <1>7, <1>m
      <4> QED BY <4>2
    <3> QED BY <3>1, <3>2 DEF IsMerge
  <2>2. CASE \A i \in inputs : max_seq(u) > max_seq(i)
    <3>1. max_seq(t) <= max_seq(u)
      BY <2>0, <2>2, <1>5, <1>m
    <3> QED BY <1>5, <1>7, <2>0, <3>1 DEF Ordered
  <2> QED BY <2>1, <2>2 DEF IsMerge
<1>8. ASSUME NEW e \in table.data, NEW f \in table.data, f.key = e.key
      PROVE  f.seq <= e.seq
  BY <1>2, <1>3, <1>8
<1>9. ASSUME NEW t \in S \ inputs, NEW u \in S \ inputs, max_seq(u) <= max_seq(t),
             NEW e \in t.data, NEW f \in u.data, f.key = e.key
      PROVE  f.seq <= e.seq
  BY <1>9 DEF Ordered
<1>10. SUFFICES ASSUME NEW t \in (S \ inputs) \cup {table}, NEW u \in (S \ inputs) \cup {table},
                       max_seq(u) <= max_seq(t), NEW e \in t.data, NEW f \in u.data, f.key = e.key
                PROVE  f.seq <= e.seq
  BY DEF Ordered
<1> QED BY <1>6, <1>7, <1>8, <1>9, <1>10

(* A merge keeps the value of every key, beside the versions X that no input has overtaken. *)
LEMMA MergeValue ==
    ASSUME NEW b \in Nat, NEW S, NEW inputs, NEW table, \A t \in S : t.data \subseteq Ents(b),
           IsMerge(S, inputs, table), NEW X \in SUBSET Entry,
           \A e, f \in Data(S) : e.seq = f.seq => e = f,
           \A y \in Data(S), x \in X : y \in X \/ y.seq < x.seq,
           NEW k, NEW v, HasValue(X \cup Data(S), k, v)
    PROVE  HasValue(X \cup Data((S \ inputs) \cup {table}), k, v)
<1> DEFINE es == X \cup Data(S)
           fs == X \cup Data((S \ inputs) \cup {table})
<1>1. /\ table.data \subseteq NewestOf(Data(inputs)) /\ NewestOf(Data(inputs)) \subseteq Data(inputs)
      /\ inputs \subseteq S
  BY MergeEntries DEF IsMerge, NewestOf
<1>2. \A e : e \in fs <=> e \in X \/ e \in Data(S \ inputs) \/ e \in table.data
  BY DEF Data
<1>3. \A e : e \in es <=> e \in X \/ e \in Data(S \ inputs) \/ e \in Data(inputs)
  BY <1>1 DEF Data
<1>4. fs \in SUBSET es
  BY <1>1, <1>2, <1>3
<1>5. \A e \in es : e.seq \in Nat
  <2>1. \A e \in Data(S) : e.seq \in Nat
    BY InData DEF Ents, Entry
  <2> QED BY <2>1 DEF Entry
<1>6. ASSUME NEW e \in NewestOf(es), e.key = k
      PROVE  e \in fs \/ (Value(e) = No /\ \A f \in fs : f.key # k)
  <2>0. e \in es /\ \A f \in es : f.key = k => f.seq <= e.seq
    BY <1>6 DEF NewestOf
  <2>1. SUFFICES ASSUME e \notin fs PROVE Value(e) = No /\ \A f \in fs : f.key # k
    OBVIOUS
  <2>2. e \in Data(inputs) /\ e \notin X /\ e \notin table.data
    BY <2>0, <2>1, <1>2, <1>3
  <2>3. e \in NewestOf(Data(inputs))
    BY <2>0, <2>2, <1>3, <1>6 DEF NewestOf
  <2>4. /\ table.data = Merge(inputs, TRUE) /\ e.tomb
        /\ \A x \in Data(S \ inputs), y \in Data(inputs) : y.seq < x.seq
    BY <2>2, <2>3, MergeEntries DEF IsMerge
  <2>5. ASSUME NEW f \in fs, f.key = k PROVE FALSE
    <3>0. f.seq <= e.seq /\ f.seq \in Nat /\ e.seq \in Nat
      BY <2>0, <2>5, <1>4, <1>5
    <3>1. CASE f \in X
      <4>1. e \in Data(S)
        BY <2>2, <1>1 DEF Data
      <4>2. e.seq < f.seq
        BY <3>1, <4>1, <2>2
      <4> QED BY <3>0, <4>2
    <3>2. CASE f \in Data(S \ inputs)
      <4>1. e.seq < f.seq
        BY <3>2, <2>2, <2>4
      <4> QED BY <3>0, <4>1
    <3>3. CASE f \in table.data
      <4>1. f \in Data(inputs) /\ \A g \in Data(inputs) : g.key = f.key => g.seq <= f.seq
        BY <3>3, <1>1 DEF NewestOf
      <4>2. e.seq = f.seq
        BY <4>1, <3>0, <2>2, <2>5, <1>6
      <4>3. e \in Data(S) /\ f \in Data(S)
        BY <4>1, <2>2, <1>1 DEF Data
      <4> QED BY <4>2, <4>3, <3>3, <2>2
    <3> QED BY <2>5, <3>1, <3>2, <3>3, <1>2
  <2> QED BY <2>4, <2>5 DEF Value
<1> HIDE DEF es, fs
<1>7. HasValue(es, k, v)
  BY DEF es
<1>8. HasValue(fs, k, v)
  BY <1>4, <1>6, <1>7, HasValueSub
<1> QED BY <1>8 DEF fs

-----------------------------------------------------------------------------
(* Steps that leave the variables of a part of the invariant alone.          *)

(* What is on disk stays. *)
LEMMA DiskFrame ==
    ASSUME DiskInv, UNCHANGED <<wal_data, manifest, sstables, committed>>, Pending' = Pending,
           Flushing({"unlink"})' \/ phase' = "cleanup" => Flushing({"unlink"}) \/ phase = "cleanup"
    PROVE  DiskInv'
<1>1. FlushedWhole(manifest)'
  BY DEF DiskInv, FlushedWhole
<1> QED BY <1>1 DEF DiskInv

(* The memtables, the logs and the tables stay; next_seq_no may grow. *)
LEMMA MemoryFrame ==
    ASSUME LsmInv, MemoryInv,
           UNCHANGED <<phase, old_wals, flush, memtable, immutable_memtables, wal_data, wal,
                       sstables, last_committed_tx>>,
           Pending' = Pending, next_seq_no' \in Nat, next_seq_no <= next_seq_no'
    PROVE  MemoryInv'
<1>1. \A e \in wal_data \cup Data(sstables) : e.seq \in Nat
  BY DEF LsmInv, TypeOK, DataIn, Data, Entry
<1>2. \A e \in wal_data \cup Data(sstables) : e.seq < next_seq_no => e.seq < next_seq_no'
  BY <1>1 DEF LsmInv, TypeOK
<1>3. Doomed' = Doomed /\ InMemory' = InMemory
  BY DEF Doomed, InMemory
<1>4. \A pcs : Flushing(pcs)' = Flushing(pcs)
  BY DEF Flushing
<1>5. phase # "down" => next_seq_no' > 0
  BY DEF LsmInv, TypeOK, MemoryInv
<1> QED BY <1>2, <1>3, <1>4, <1>5 DEF MemoryInv

(* The commit and the flushes stay. *)
LEMMA TasksFrame ==
    ASSUME TasksInv, UNCHANGED <<phase, flush, wal_data, wal, sstables, next_seq_no, commit>>
    PROVE  TasksInv'
<1>1. \A pcs : Flushing(pcs)' = Flushing(pcs)
  BY DEF Flushing
<1>2. Flushed' = Flushed
  BY DEF Flushed
<1> QED BY <1>1, <1>2 DEF TasksInv

(* The MANIFEST and the tasks that write it stay. *)
LEMMA ManifestFrame ==
    ASSUME ManifestInv, UNCHANGED <<phase, flush, manifest, compaction, sstables>>
    PROVE  ManifestInv'
<1>1. Flushing({"publish"})' = Flushing({"publish"}) /\ Flushed' = Flushed
  BY DEF Flushing, Flushed
<1> QED BY <1>1 DEF ManifestInv, Compacted

(* The same for a flush that is not at its entry in the MANIFEST. *)
LEMMA ManifestApart ==
    ASSUME ManifestInv, UNCHANGED <<manifest, compaction, sstables>>, phase # "down",
           ~Flushing({"publish"}), ~Flushing({"publish"})'
    PROVE  ManifestInv'
  BY DEF ManifestInv, Compacted

(* The merge and the tables stay. *)
LEMMA CompactionFrame ==
    ASSUME CompactionInv, UNCHANGED <<compaction, sstables>>
    PROVE  CompactionInv'
  BY DEF CompactionInv

(* The open tables stay, and what get reads beside them. *)
LEMMA TablesFrame ==
    ASSUME TablesInv, UNCHANGED <<phase, wal_data, sstables, committed>>, InMemory' = InMemory,
           Flushing({"unlink"}) => Flushing({"unlink"})'
    PROVE  TablesInv'
<1>1. FlushedWhole(sstables)' <=> FlushedWhole(sstables)
  BY DEF FlushedWhole
<1> QED BY <1>1 DEF TablesInv

(* A get finds its value again when nothing of its key is new. *)
LEMMA FindsFrame ==
    ASSUME NEW r, Finds(r), reader'[r] = reader[r], committed'[reader[r].key] = committed[reader[r].key],
           \A e \in InMemory' : e.key = reader[r].key => e \in InMemory,
           \A e \in Data(sstables') : e.key = reader[r].key => e \in InMemory \cup Data(sstables)
    PROVE  Finds(r)'
  BY DEF Finds, Visible

(* So do all gets. *)
LEMMA ReaderFrame ==
    ASSUME ReaderInv, UNCHANGED <<reader, committed>>, InMemory' \subseteq InMemory,
           Data(sstables') \subseteq InMemory \cup Data(sstables)
    PROVE  ReaderInv'
<1> SUFFICES ASSUME NEW r \in Readers, reader'[r].pc # "idle", ~reader'[r].overtaken
             PROVE  Finds(r)'
  BY DEF ReaderInv
<1>1. Finds(r)
  BY DEF ReaderInv
<1> QED BY <1>1, FindsFrame

(* One of the two flushes that can run, alone. *)
LEMMA FlushAlone ==
    ASSUME PhaseInv, NEW f \in {"commit", "startup"}, flush[f].pc # "idle" \/ MayFlush(f)
    PROVE  /\ \A g \in {"commit", "startup"} \ {f} : flush[g].pc = "idle"
           /\ Flushed = flush[f] /\ Pending = {} /\ commit.pc \in {"idle", "flush"}
           /\ phase \in {"starting", "up"} /\ (phase = "up" <=> f = "commit")
           /\ f = "commit" => commit.pc = "flush"
           /\ \A pcs : "idle" \notin pcs => (Flushing(pcs) <=> flush[f].pc \in pcs)
<1>1. f = "commit" => phase = "up" /\ commit.pc = "flush"
  BY DEF PhaseInv, MayFlush
<1>2. f = "startup" => phase = "starting" /\ commit.pc = "idle"
  BY DEF PhaseInv, MayFlush
<1>3. \A g \in {"commit", "startup"} \ {f} : flush[g].pc = "idle"
  BY <1>1, <1>2 DEF PhaseInv
<1>4. \A pcs : "idle" \notin pcs => (Flushing(pcs) <=> flush[f].pc \in pcs)
  BY <1>3 DEF Flushing
<1> QED BY <1>1, <1>2, <1>3, <1>4 DEF Flushed, Pending

(* The types that the steps below need. *)
LEMMA Types ==
    ASSUME LsmInv
    PROVE  /\ wal_data \subseteq Entry /\ InMemory \subseteq Entry
           /\ Data(sstables) \subseteq Entry /\ Data(manifest) \subseteq Entry
           /\ \A e \in Entry : /\ e.seq \in Nat /\ e.tx \in Nat /\ e.key \in Keys
           /\ next_seq_no \in Nat /\ last_committed_tx \in Nat
           /\ commit.pc # "idle" => commit.entry \in Entry
           /\ DOMAIN flush = Flushers /\ DOMAIN reader = Readers /\ DOMAIN committed = Keys
<1>1. TypeOK
  BY DEF LsmInv
<1>2. \A t \in sstables \cup manifest : t.data \subseteq Entry
  BY <1>1 DEF TypeOK, DataIn
<1>3. InMemory \subseteq Entry /\ wal_data \subseteq Entry
  BY <1>1 DEF TypeOK, DataIn, InMemory
<1>4. commit.pc # "idle" => commit.entry \in Entry
  BY <1>1 DEF TypeOK, DataIn, CommitState, Idle
<1>5. DOMAIN flush = Flushers /\ DOMAIN reader = Readers /\ DOMAIN committed = Keys
  BY <1>1 DEF TypeOK, DataIn
<1>6. \A e \in Entry : /\ e.seq \in Nat /\ e.tx \in Nat /\ e.key \in Keys
  BY DEF Entry
<1> QED BY <1>1, <1>2, <1>3, <1>4, <1>5, <1>6, InData DEF TypeOK

(* There is a bound on what tables and logs hold. *)
LEMMA DataBound ==
    ASSUME LsmInv
    PROVE  \E b \in Nat : /\ wal_data \subseteq Ents(b)
                          /\ \A t \in sstables \cup manifest : t.data \subseteq Ents(b)
  BY DEF LsmInv, Bounded, Within, DataIn

(* The table of a running merge. *)
LEMMA CompactTable ==
    ASSUME OrderlyInv, compaction.pc \in {"replace", "swap"}
    PROVE  /\ IsMerge(sstables, compaction.inputs, compaction.table)
           /\ compaction.table.id[1] = -1
           /\ compaction.inputs \subseteq sstables
           /\ compaction.table.data \subseteq NewestOf(Data(compaction.inputs))
           /\ Data(compaction.inputs) \subseteq Data(sstables)
           /\ compaction.table.data \subseteq Data(sstables)
<1>1. IsMerge(sstables, compaction.inputs, compaction.table) /\ compaction.table.id[1] = -1
  BY DEF OrderlyInv, CompactionInv, IsMerge
<1>2. compaction.table.data \subseteq NewestOf(Data(compaction.inputs))
  BY <1>1, MergeEntries DEF IsMerge
<1>3. compaction.inputs \subseteq sstables /\ Data(compaction.inputs) \subseteq Data(sstables)
  BY <1>1 DEF IsMerge, Data
<1> QED BY <1>1, <1>2, <1>3 DEF NewestOf

(* The MANIFEST that a merge leaves has no entry that the open tables do not have. *)
LEMMA CompactedData ==
    ASSUME OrderlyInv
    PROVE  Data(Compacted) \subseteq Data(sstables)
<1>1. CASE compaction.pc = "swap"
  BY <1>1, CompactTable DEF Compacted, Data
<1>2. CASE compaction.pc # "swap"
  BY <1>2 DEF Compacted
<1> QED BY <1>1, <1>2

-----------------------------------------------------------------------------
(* commit().                                                                *)

(* commit() takes a sequence number above all others. *)
LEMMA PrepareOrderly ==
    ASSUME LsmInv, OrderlyInv, NEW k \in Keys, NEW tomb \in BOOLEAN, CommitPrepare(k, tomb)
    PROVE  OrderlyInv'
<1>t. PhaseInv /\ next_seq_no \in Nat
  BY DEF LsmInv, TypeOK
<1>0. /\ phase = "up" /\ commit.pc = "idle" /\ next_seq_no' = next_seq_no + 1
      /\ commit' = [pc |-> "append",
                    entry |-> [key |-> k, seq |-> next_seq_no, tx |-> lastTx + 1,
                               tomb |-> tomb, log |-> wal]]
      /\ UNCHANGED <<phase, last_committed_tx, flush_counter, segment_counter, memtable,
                     immutable_memtables, wal, sstables, flush, compaction, old_wals,
                     wal_files, wal_data, manifest, torn, reader, crashes, committed>>
  BY DEF CommitPrepare
<1>1. Pending' = {} /\ Pending = {} /\ InMemory' = InMemory
  BY <1>0 DEF Pending, InMemory
<1>2. \A pcs : Flushing(pcs)' = Flushing(pcs)
  BY <1>0 DEF Flushing
<1>3. \A pcs : "idle" \notin pcs => ~Flushing(pcs)
  BY <1>0, <1>t DEF PhaseInv, Flushing
<1>4. DiskInv'
  BY <1>0, <1>1, <1>2, DiskFrame DEF OrderlyInv
<1>5. MemoryInv'
  BY <1>0, <1>1, <1>t, MemoryFrame DEF OrderlyInv
<1>6. TasksInv'
  <2>1. \A e \in wal_data \cup Data(sstables) : e.seq < next_seq_no
    BY <1>0 DEF OrderlyInv, MemoryInv
  <2>2. next_seq_no > 0
    BY <1>0 DEF OrderlyInv, MemoryInv
  <2> QED BY <1>0, <1>2, <1>3, <2>1, <2>2 DEF OrderlyInv, TasksInv
<1> QED BY <1>0, <1>1, <1>2, <1>4, <1>5, <1>6, ManifestFrame, CompactionFrame, TablesFrame,
           ReaderFrame DEF OrderlyInv

(* While a commit is in append_batch, nothing on disk is as new as its entry. *)
LEMMA AppendTop ==
    ASSUME LsmInv, OrderlyInv, commit.pc = "append"
    PROVE  /\ phase = "up" /\ \A pcs : "idle" \notin pcs => ~Flushing(pcs)
           /\ Pending = {} /\ memtable = wal_data /\ immutable_memtables = {} /\ InMemory = wal_data
           /\ \A e \in wal_data : e.log = wal
           /\ manifest = Compacted /\ Data(manifest) \subseteq Data(sstables)
           /\ \A e \in wal_data \cup Data(sstables) : e.seq < commit.entry.seq
<1>1. phase = "up" /\ \A pcs : "idle" \notin pcs => ~Flushing(pcs)
  BY DEF LsmInv, PhaseInv, Flushing
<1>2. Pending = {}
  BY DEF Pending
<1>3. memtable = wal_data /\ immutable_memtables = {} /\ \A e \in wal_data : e.log = wal
  BY <1>1, <1>2 DEF OrderlyInv, MemoryInv
<1>4. manifest = Compacted
  BY <1>1 DEF OrderlyInv, ManifestInv
<1>5. Data(Compacted) \subseteq Data(sstables)
  BY CompactedData
<1> QED BY <1>1, <1>2, <1>3, <1>4, <1>5 DEF OrderlyInv, TasksInv, InMemory

(* append_batch() makes the entry durable before any get sees it. *)
LEMMA AppendOrderly ==
    ASSUME LsmInv, OrderlyInv, CommitAppend
    PROVE  OrderlyInv'
<1> DEFINE x == commit.entry
<1>0. /\ commit.pc = "append" /\ commit' = [commit EXCEPT !.pc = "apply"]
      /\ UNCHANGED <<phase, next_seq_no, last_committed_tx, memtable, immutable_memtables, wal,
                     sstables, flush, compaction, old_wals, manifest, reader, committed>>
  BY DEF CommitAppend
<1>t. /\ x \in Entry /\ x.log = wal /\ x.seq + 1 = next_seq_no
      /\ commit \in [pc : {"append", "apply", "flush"}, entry : Entry]
  BY <1>0 DEF LsmInv, TypeOK, DataIn, CommitState, Idle, OrderlyInv, TasksInv
<1>c. commit'.pc = "apply" /\ commit'.entry = x
  BY <1>0, <1>t
<1>1. /\ phase = "up" /\ \A pcs : "idle" \notin pcs => ~Flushing(pcs)
      /\ Pending = {} /\ memtable = wal_data /\ immutable_memtables = {} /\ InMemory = wal_data
      /\ \A e \in wal_data : e.log = wal
      /\ Data(manifest) \subseteq Data(sstables)
      /\ \A e \in wal_data \cup Data(sstables) : e.seq < x.seq
  BY <1>0, AppendTop
<1>2. wal_data' = wal_data \cup {x}
  BY <1>1, <1>t DEF CommitAppend, LsmInv, LogInv
<1>3. Pending' = {x} /\ wal_data' \ Pending' = wal_data /\ InMemory' = InMemory
  <2>1. x \notin wal_data
    BY <1>1, <1>t, Types
  <2> QED BY <1>0, <1>c, <1>2, <2>1 DEF Pending, InMemory
<1>4. \A pcs : Flushing(pcs)' = Flushing(pcs)
  BY <1>0 DEF Flushing
<1>5. \A e \in Data(sstables) : e \notin wal_data' /\ e.seq < x.seq
  <2>1. \A e \in Data(sstables), y \in wal_data : e.seq < y.seq
    BY <1>1 DEF OrderlyInv, TablesInv
  <2>2. \A e \in Data(sstables) : e.seq \in Nat
    BY Types
  <2> QED BY <1>1, <1>2, <1>t, <2>1, <2>2
<1>6. \A tables : Data(tables) \subseteq Data(sstables) /\ FlushedWhole(tables) => FlushedWhole(tables)'
  <2> SUFFICES ASSUME NEW tables, Data(tables) \subseteq Data(sstables), FlushedWhole(tables)
               PROVE  FlushedWhole(tables)'
    OBVIOUS
  <2>1. \A y \in Data(tables), e \in wal_data' : y.seq < e.seq
    BY <1>1, <1>2, <1>5 DEF OrderlyInv, TablesInv
  <2>2. \A t \in tables : t.data \cap wal_data' = {}
    BY <1>5, InData
  <2> QED BY <2>1, <2>2 DEF FlushedWhole
<1>7. DiskInv'
  <2>1. \A e, f \in wal_data' : e.log = f.log
    BY <1>1, <1>2, <1>t
  <2>2. \A e, f \in wal_data' \cup Data(manifest \cup sstables) : e.seq = f.seq => e = f
    <3>1. Data(manifest \cup sstables) = Data(sstables)
      BY <1>1 DEF Data
    <3>2. \A e, f \in wal_data \cup Data(sstables) : e.seq = f.seq => e = f
      BY <3>1 DEF OrderlyInv, DiskInv
    <3>3. \A e \in wal_data \cup Data(sstables) : e.seq # x.seq
      BY <1>1, <1>t, Types
    <3> QED BY <3>1, <3>2, <3>3, <1>2
  <2>3. FlushedWhole(manifest)'
    BY <1>0, <1>1, <1>6 DEF OrderlyInv, DiskInv, FlushedWhole
  <2>4. \A k \in Keys : HasValue((wal_data' \ Pending') \cup Data(manifest), k, committed[k])
    BY <1>1, <1>3 DEF OrderlyInv, DiskInv
  <2>5. \A e \in wal_data' : e.seq > 0
    BY <1>0, <1>2 DEF OrderlyInv, DiskInv, TasksInv
  <2> QED BY <1>0, <1>1, <1>4, <2>1, <2>2, <2>3, <2>4, <2>5 DEF OrderlyInv, DiskInv
<1>8. MemoryInv'
  <2>1. \A e \in wal_data' \cup Data(sstables) : e.seq < next_seq_no
    <3>1. x.seq < next_seq_no
      BY <1>t, Types
    <3> QED BY <1>1, <1>2, <3>1 DEF OrderlyInv, MemoryInv
  <2>2. ~Flushing({"create", "write", "publish"})' /\ ~Flushing({"unlink"})'
        /\ ~Flushing({"create", "write", "publish", "unlink"})'
    BY <1>1, <1>4
  <2>3. \A e \in wal_data' : e.log = wal
    BY <1>1, <1>2, <1>t
  <2>4. \A e \in InMemory' \cup Data(sstables) : e.tx <= last_committed_tx
    BY <1>1, <1>3 DEF OrderlyInv, MemoryInv
  <2> QED BY <1>0, <1>1, <1>3, <2>1, <2>2, <2>3, <2>4 DEF OrderlyInv, MemoryInv
<1>9. TasksInv'
  BY <1>0, <1>c, <1>1, <1>2, <1>4, <1>t DEF OrderlyInv, TasksInv
<1>10. TablesInv'
  <2>1. \A y \in Data(sstables), e \in wal_data' : y.seq < e.seq
    BY <1>1, <1>2, <1>5 DEF OrderlyInv, TablesInv
  <2>2. \A t \in sstables : t.data \cap wal_data' = {}
    BY <1>5, InData
  <2>3. FlushedWhole(sstables)'
    BY <1>0, <1>1, <1>6 DEF OrderlyInv, TablesInv, FlushedWhole
  <2> QED BY <1>0, <1>1, <1>3, <2>1, <2>2, <2>3 DEF OrderlyInv, TablesInv
<1> QED BY <1>0, <1>3, <1>7, <1>8, <1>9, <1>10, ManifestFrame, CompactionFrame, ReaderFrame
        DEF OrderlyInv

(* The rollback of a failed append finds in the log what the memtable holds. *)
LEMMA AppendFailsOrderly ==
    ASSUME Orderly, LsmInv, LsmInv', OrderlyInv, CommitAppendFails
    PROVE  OrderlyInv'
<1>0. /\ commit.pc = "append" /\ commit' = IdleCommit
      /\ wal_data' = wal_data
      /\ memtable' = {e \in wal_data : e.log = wal} /\ immutable_memtables' = {}
      /\ next_seq_no' = MaxOr0(Seqs(memtable') \cup {max_seq(t) : t \in sstables}) + 1
      /\ UNCHANGED <<phase, last_committed_tx, wal, sstables, flush, compaction, old_wals,
                     manifest, reader, committed>>
  BY DEF CommitAppendFails, Orderly, Truncated
<1>1. /\ phase = "up" /\ \A pcs : "idle" \notin pcs => ~Flushing(pcs)
      /\ Pending = {} /\ memtable = wal_data /\ immutable_memtables = {} /\ InMemory = wal_data
      /\ \A e \in wal_data : e.log = wal
  BY <1>0, AppendTop
<1>2. memtable' = wal_data /\ memtable' = memtable /\ immutable_memtables' = immutable_memtables
  BY <1>0, <1>1
<1>3. Pending' = Pending /\ InMemory' = InMemory
  BY <1>0, <1>1, <1>2 DEF Pending, InMemory, IdleCommit
<1>4. \A pcs : Flushing(pcs)' = Flushing(pcs)
  BY <1>0 DEF Flushing
<1>5. next_seq_no' > 0 /\ \A e \in wal_data \cup Data(sstables) : e.seq < next_seq_no'
  <2> DEFINE S == Seqs(memtable') \cup {max_seq(t) : t \in sstables}
  <2>1. PICK b \in Nat : wal_data \subseteq Ents(b) /\ \A t \in sstables : t.data \subseteq Ents(b)
    BY DataBound
  <2>2. \A t \in sstables : max_seq(t) \in Nat /\ max_seq(t) <= b
    BY <2>1, SeqsBounded DEF max_seq
  <2>3. Seqs(memtable') \subseteq Nat /\ \A n \in Seqs(memtable') : n <= b
    BY <2>1, <1>2, SeqsBounded
  <2>4. S \subseteq Nat /\ \A n \in S : n <= b
    BY <2>2, <2>3
  <2>5. MaxOr0(S) \in Nat /\ \A n \in S : n <= MaxOr0(S)
    <3> HIDE DEF S
    <3> QED BY <2>4, MaxBounded
  <2>6. next_seq_no' = MaxOr0(S) + 1
    BY <1>0
  <2>7. ASSUME NEW e \in wal_data PROVE e.seq \in S
    BY <2>7, <1>2 DEF Seqs
  <2>8. ASSUME NEW t \in sstables, NEW e \in t.data
        PROVE  max_seq(t) \in S /\ e.seq <= max_seq(t) /\ e.seq \in Nat /\ max_seq(t) \in Nat
    BY <2>1, <2>8, MaxSeq
  <2> HIDE DEF S
  <2>9. \A n \in S : n < next_seq_no'
    BY <2>4, <2>5, <2>6
  <2>10. ASSUME NEW t \in sstables, NEW e \in t.data PROVE e.seq < next_seq_no'
    <3>1. max_seq(t) < next_seq_no' /\ next_seq_no' \in Nat
      BY <2>5, <2>6, <2>8, <2>9, <2>10
    <3> QED BY <2>8, <2>10, <3>1
  <2>11. next_seq_no' > 0
    BY <2>5, <2>6
  <2> QED BY <2>7, <2>9, <2>10, <2>11, InData
<1>6. DiskInv'
  BY <1>0, <1>3, <1>4, DiskFrame DEF OrderlyInv
<1>7. MemoryInv'
  <2>1. Doomed' = Doomed
    BY <1>0 DEF Doomed
  <2> QED BY <1>0, <1>1, <1>2, <1>3, <1>4, <1>5, <2>1 DEF OrderlyInv, MemoryInv
<1>8. TasksInv'
  BY <1>0, <1>1, <1>4 DEF OrderlyInv, TasksInv, IdleCommit
<1> QED BY <1>0, <1>3, <1>4, <1>6, <1>7, <1>8, ManifestFrame, CompactionFrame, TablesFrame,
           ReaderFrame DEF OrderlyInv

(* The entry of a commit that has been appended is the newest version on disk, and what a *)
(* restart would make of its key.                                                         *)
LEMMA PendingTop ==
    ASSUME LsmInv, OrderlyInv, commit.pc = "apply", NEW x, x = commit.entry
    PROVE  /\ phase = "up" /\ \A pcs : "idle" \notin pcs => ~Flushing(pcs)
           /\ x \in Entry /\ x \in wal_data /\ x.seq + 1 = next_seq_no /\ Pending = {x}
           /\ Data(manifest) \subseteq Data(sstables)
           /\ \A D \in SUBSET Data(sstables), k \in Keys :
                 HasValue((wal_data \ {x}) \cup D, k, committed[k])
                    => HasValue(wal_data \cup D, k, IF x.key = k THEN Value(x) ELSE committed[k])
<1>t. x \in Entry /\ x \in wal_data /\ x.seq + 1 = next_seq_no /\ Pending = {x}
  BY Types DEF OrderlyInv, TasksInv, Pending
<1>1. phase = "up" /\ \A pcs : "idle" \notin pcs => ~Flushing(pcs)
  BY DEF LsmInv, PhaseInv, Flushing
<1>2. Data(manifest) \subseteq Data(sstables)
  BY <1>1, CompactedData DEF OrderlyInv, ManifestInv
<1>3. \A e \in (wal_data \ {x}) \cup Data(sstables) : e.seq < x.seq
  <2>1. \A e \in Data(sstables) : e.seq < x.seq
    BY <1>1, <1>t DEF OrderlyInv, TablesInv
  <2>2. ASSUME NEW e \in wal_data \ {x} PROVE e.seq < x.seq
    <3>1. e.seq < next_seq_no /\ e.seq # x.seq
      BY <1>1, <1>t, <2>2 DEF OrderlyInv, MemoryInv, DiskInv
    <3> QED BY <3>1, <1>t, <2>2, Types
  <2> QED BY <2>1, <2>2
<1>4. ASSUME NEW D \in SUBSET Data(sstables), NEW k \in Keys,
             HasValue((wal_data \ {x}) \cup D, k, committed[k])
      PROVE  HasValue(wal_data \cup D, k, IF x.key = k THEN Value(x) ELSE committed[k])
  <2> DEFINE es == (wal_data \ {x}) \cup D
  <2>1. es \in SUBSET Entry /\ \A e \in es : e.seq < x.seq
    BY <1>3, Types
  <2>2. wal_data \cup D = es \cup {x}
    BY <1>t
  <2>3. HasValue(es, k, committed[k])
    BY <1>4
  <2> HIDE DEF es
  <2>4. HasValue(es \cup {x}, k, IF x.key = k THEN Value(x) ELSE committed[k])
    BY <2>1, <2>3, <1>t, HasValueTop
  <2> QED BY <2>2, <2>4
<1> QED BY <1>t, <1>1, <1>2, <1>4

(* The memtable gets the entry, and gets of its key are overtaken. *)
LEMMA ApplyOrderly ==
    ASSUME LsmInv, OrderlyInv, CommitApply
    PROVE  OrderlyInv'
<1> DEFINE x == commit.entry
<1>0. /\ commit.pc = "apply" /\ memtable' = memtable \cup {x}
      /\ last_committed_tx' = Max({last_committed_tx, x.tx})
      /\ commit' = IF Cardinality(memtable') > memtable_size_limit
                   THEN [commit EXCEPT !.pc = "flush"] ELSE IdleCommit
      /\ committed' = [committed EXCEPT ![x.key] = Value(x)]
      /\ reader' = [r \in Readers |->
                     IF reader[r].pc # "idle" /\ reader[r].key = x.key
                     THEN [reader[r] EXCEPT !.seen = @ \cup {Value(x)}, !.overtaken = TRUE]
                     ELSE reader[r]]
      /\ UNCHANGED <<phase, next_seq_no, immutable_memtables, wal, sstables, flush, compaction,
                     old_wals, wal_data, manifest>>
  BY DEF CommitApply
<1>t. /\ x \in Entry /\ x \in wal_data /\ x.seq + 1 = next_seq_no
      /\ commit \in [pc : {"append", "apply", "flush"}, entry : Entry]
  BY <1>0 DEF LsmInv, TypeOK, DataIn, CommitState, Idle, OrderlyInv, TasksInv
<1>c. commit'.pc \in {"idle", "flush"}
  BY <1>0, <1>t DEF IdleCommit
<1>1. phase = "up" /\ \A pcs : "idle" \notin pcs => ~Flushing(pcs)
  BY <1>0 DEF LsmInv, PhaseInv, Flushing
<1>2. Pending = {x} /\ Pending' = {}
  BY <1>0, <1>c DEF Pending
<1>3. /\ immutable_memtables = {} /\ memtable = wal_data \ {x} /\ memtable' = wal_data
      /\ InMemory = wal_data \ {x} /\ InMemory' = wal_data
  BY <1>0, <1>1, <1>2, <1>t DEF OrderlyInv, MemoryInv, InMemory
<1>4. \A pcs : Flushing(pcs)' = Flushing(pcs)
  BY <1>0 DEF Flushing
<1>7. committed' = [k \in Keys |-> IF x.key = k THEN Value(x) ELSE committed[k]]
  BY <1>0, Types
<1>5. Data(manifest) \subseteq Data(sstables)
  BY <1>0, PendingTop
<1>8. \A D \in SUBSET Data(sstables), k \in Keys :
         HasValue((wal_data \ {x}) \cup D, k, committed[k]) => HasValue(wal_data \cup D, k, committed'[k])
  <2>1. \A D \in SUBSET Data(sstables), k \in Keys :
           HasValue((wal_data \ {x}) \cup D, k, committed[k])
              => HasValue(wal_data \cup D, k, IF x.key = k THEN Value(x) ELSE committed[k])
    BY <1>0, PendingTop
  <2> QED BY <2>1, <1>7
<1>9. DiskInv'
  <2>1. \A k \in Keys : HasValue((wal_data \ {x}) \cup Data(manifest), k, committed[k])
    BY <1>2 DEF OrderlyInv, DiskInv
  <2>2. \A k \in Keys : HasValue(wal_data \cup Data(manifest), k, committed'[k])
    BY <2>1, <1>5, <1>8
  <2>3. FlushedWhole(manifest)'
    BY <1>0 DEF OrderlyInv, DiskInv, FlushedWhole
  <2>4. wal_data' \ Pending' = wal_data
    BY <1>0, <1>2
  <2>5. \A k \in Keys : HasValue((wal_data' \ Pending') \cup Data(manifest'), k, committed'[k])
    BY <2>2, <2>4, <1>0
  <2> QED BY <1>0, <1>1, <1>4, <2>3, <2>5 DEF OrderlyInv, DiskInv
<1>10. MemoryInv'
  <2>1. last_committed_tx' \in Nat /\ last_committed_tx' >= last_committed_tx /\ last_committed_tx' >= x.tx
    <3>1. \E m \in {last_committed_tx, x.tx} : \A n \in {last_committed_tx, x.tx} : m >= n
      BY <1>t, Types
    <3>2. /\ Max({last_committed_tx, x.tx}) \in {last_committed_tx, x.tx}
          /\ \A n \in {last_committed_tx, x.tx} : Max({last_committed_tx, x.tx}) >= n
      BY <3>1 DEF Max
    <3> QED BY <3>2, <1>0, <1>t, Types
  <2>2. \A e \in InMemory \cup Data(sstables) : e.tx <= last_committed_tx /\ e.tx \in Nat
    BY <1>1, Types DEF OrderlyInv, MemoryInv
  <2>3. \A e \in InMemory \cup Data(sstables) : e.tx <= last_committed_tx'
    BY <2>1, <2>2, Types
  <2>4. \A e \in InMemory' \cup Data(sstables) : e.tx <= last_committed_tx'
    BY <2>1, <2>3, <1>3, <1>t, Types
  <2>5. Doomed' = Doomed
    BY <1>0 DEF Doomed
  <2> QED BY <1>0, <1>1, <1>2, <1>3, <1>4, <2>4, <2>5 DEF OrderlyInv, MemoryInv
<1>11. TasksInv'
  BY <1>0, <1>c, <1>1, <1>4, <1>t DEF OrderlyInv, TasksInv
<1>12. TablesInv'
  <2>1. \A k \in Keys : HasValue(InMemory' \cup Data(sstables), k, committed'[k])
    BY <1>1, <1>3, <1>8 DEF OrderlyInv, TablesInv
  <2>2. FlushedWhole(sstables)'
    BY <1>0, <1>1 DEF OrderlyInv, TablesInv, FlushedWhole
  <2> QED BY <1>0, <1>1, <1>4, <2>1, <2>2 DEF OrderlyInv, TablesInv
<1>13. ReaderInv'
  <2>1. SUFFICES ASSUME NEW r \in Readers, reader'[r].pc # "idle", ~reader'[r].overtaken
                 PROVE  Finds(r)'
    BY DEF ReaderInv
  <2>2. reader[r].pc = "idle" \/ reader[r].key # x.key
    <3>1. SUFFICES ASSUME reader[r].pc # "idle", reader[r].key = x.key PROVE FALSE
      OBVIOUS
    <3>2. reader'[r] = [reader[r] EXCEPT !.seen = @ \cup {Value(x)}, !.overtaken = TRUE]
      BY <1>0, <3>1
    <3>3. reader[r] \in ReaderState
      BY DEF LsmInv, TypeOK
    <3>4. reader'[r].overtaken = TRUE
      BY <3>1, <3>2, <3>3 DEF ReaderState, Idle
    <3> QED BY <2>1, <3>4
  <2>3. reader'[r] = reader[r]
    BY <1>0, <2>2
  <2>4. reader[r].key \in Keys /\ reader[r].key # x.key
    <3>1. reader[r] \in ReaderState
      BY DEF LsmInv, TypeOK
    <3> QED BY <3>1, <2>1, <2>2, <2>3 DEF ReaderState, Idle
  <2>5. committed'[reader[r].key] = committed[reader[r].key]
    BY <1>7, <2>4
  <2>6. \A e \in InMemory' : e.key = reader[r].key => e \in InMemory
    BY <1>3, <2>4
  <2>7. Finds(r)
    BY <2>1, <2>3 DEF OrderlyInv, ReaderInv
  <2> QED BY <1>0, <2>3, <2>5, <2>6, <2>7, FindsFrame
<1> QED BY <1>0, <1>9, <1>10, <1>11, <1>12, <1>13, ManifestFrame, CompactionFrame DEF OrderlyInv

-----------------------------------------------------------------------------
(* Compaction.                                                              *)

(* The table of a committer's flush is newer than the open tables, and its name is new. *)
LEMMA CommitTable ==
    ASSUME LsmInv, OrderlyInv, phase = "up", flush["commit"].pc \in {"write", "publish"},
           NEW t, t = flush["commit"].table
    PROVE  /\ Flushed = flush["commit"] /\ t.data = NewestOf(wal_data) /\ Pending = {}
           /\ ~Flushing({"unlink"})
           /\ \E x \in t.data : x.seq > 0 /\ \A e \in Data(sstables) : e.seq < x.seq
           /\ \A e \in t.data, y \in Data(sstables) : y.seq < e.seq
           /\ \A u \in sstables : u.id # t.id /\ max_seq(u) < max_seq(t)
           /\ \A u \in sstables : max_seq(u) \in Nat
           /\ max_seq(t) \in Nat /\ t.id[1] \in Nat
           /\ Without(Compacted, t.id) = Compacted
<1>1. /\ \A g \in {"commit", "startup"} \ {"commit"} : flush[g].pc = "idle"
      /\ Flushed = flush["commit"] /\ Pending = {} /\ commit.pc = "flush"
      /\ \A pcs : "idle" \notin pcs => (Flushing(pcs) <=> flush["commit"].pc \in pcs)
  BY FlushAlone DEF LsmInv
<1>2. t.data = NewestOf(wal_data) /\ t.id[1] = next_seq_no /\ ~Flushing({"unlink"})
  BY <1>1 DEF OrderlyInv, TasksInv
<1>3. PICK x \in wal_data : x.seq + 1 = next_seq_no
  BY <1>1 DEF OrderlyInv, TasksInv
<1>4. \A e \in wal_data, y \in Data(sstables) : y.seq < e.seq
  BY <1>2 DEF OrderlyInv, TablesInv
<1>5. x \in NewestOf(wal_data)
  <2>1. \A e \in wal_data : e.seq < next_seq_no
    BY DEF OrderlyInv, MemoryInv
  <2> QED BY <1>3, <2>1, Types DEF NewestOf
<1>6. \A u \in sstables : u.id # t.id
  <2> SUFFICES ASSUME NEW u \in sstables, u.id = t.id PROVE FALSE
    OBVIOUS
  <2>1. u.id[1] # -1 /\ next_seq_no \in Nat
    BY <1>2, Types
  <2>2. PICK y \in u.data : y.seq + 1 = next_seq_no
    BY <1>2, <2>1 DEF OrderlyInv, TablesInv, FlushedWhole
  <2>3. y \in Data(sstables)
    BY <2>2, InData
  <2> QED BY <1>3, <1>4, <2>2, <2>3, Types
<1>7. t.id[1] \in Nat
  BY <1>2, Types
<1>8. \A u \in Compacted : u.id # t.id
  <2>1. CASE compaction.pc = "swap"
    <3>1. compaction.table.id # t.id
      BY <2>1, <1>7, CompactTable
    <3> QED BY <2>1, <3>1, <1>6 DEF Compacted
  <2>2. CASE compaction.pc # "swap"
    BY <2>2, <1>6 DEF Compacted
  <2> QED BY <2>1, <2>2
<1>9. x.seq > 0
  BY <1>3 DEF OrderlyInv, DiskInv
<1>10. NewestOf(wal_data) \subseteq wal_data
  BY DEF NewestOf
<1>11. PICK b \in Nat : wal_data \subseteq Ents(b) /\ \A u \in sstables : u.data \subseteq Ents(b)
  BY DataBound
<1>12. max_seq(t) \in Nat /\ x.seq <= max_seq(t) /\ x.seq \in Nat
  BY <1>2, <1>5, <1>10, <1>11, MaxSeq
<1>13. ASSUME NEW u \in sstables PROVE max_seq(u) \in Nat /\ max_seq(u) < max_seq(t)
  <2>1. max_seq(u) \in Nat /\ (u.data # {} => \E e \in u.data : e.seq = max_seq(u))
    BY <1>11, MaxSeq
  <2>2. CASE u.data = {}
    <3>1. max_seq(u) = 0
      BY <2>2 DEF max_seq, MaxOr0, Seqs
    <3> QED BY <3>1, <1>9, <1>12
  <2>3. CASE u.data # {}
    <3>1. max_seq(u) < x.seq
      BY <1>3, <1>4, <2>1, <2>3, InData
    <3> QED BY <3>1, <2>1, <1>12
  <2> QED BY <2>2, <2>3
<1> QED BY <1>1, <1>2, <1>3, <1>4, <1>5, <1>6, <1>7, <1>8, <1>9, <1>10, <1>12, <1>13 DEF Without

(* A merge of tables with entries of a log that is still there has the newest versions of its *)
(* keys, and every key of the log unless no table is left with that key.                      *)
LEMMA MergeComplete ==
    ASSUME LsmInv, OrderlyInv, phase = "up", compaction.pc \in {"replace", "swap"},
           compaction.table.data \cap wal_data # {}
    PROVE  /\ \A f \in compaction.table.data, e \in wal_data : e.key = f.key => e.seq <= f.seq
           /\ \A e \in wal_data :
                 \/ \E f \in compaction.table.data : f.key = e.key
                 \/ \A f \in Data((sstables \ compaction.inputs) \cup {compaction.table}) : f.key # e.key
           /\ \A u \in sstables \ compaction.inputs : u.data \cap wal_data = {}
<1> DEFINE inputs == compaction.inputs
           C == compaction.table
<1>0. /\ IsMerge(sstables, inputs, C) /\ inputs \subseteq sstables
      /\ C.data \subseteq NewestOf(Data(inputs)) /\ Data(inputs) \subseteq Data(sstables)
  BY CompactTable
<1>1. PICK x \in C.data : x \in wal_data
  OBVIOUS
<1>2. PICK i \in inputs : x \in i.data
  BY <1>0, <1>1, InData DEF NewestOf
<1>3. i \in sstables /\ i.data \cap wal_data # {}
  BY <1>0, <1>1, <1>2
<1>4. \A f \in i.data, e \in wal_data : e.key = f.key => e.seq <= f.seq
  BY <1>3 DEF OrderlyInv, TablesInv, FlushedWhole
<1>5. \A e \in wal_data : (\E f \in i.data : f.key = e.key) \/ (\A f \in Data(sstables) : f.key # e.key)
  BY <1>3 DEF OrderlyInv, TablesInv
<1>6. \A u \in sstables \ inputs : u.data \cap wal_data = {}
  BY <1>2, <1>3 DEF OrderlyInv, TablesInv
<1>7. ASSUME NEW f \in C.data, NEW e \in wal_data, e.key = f.key PROVE e.seq <= f.seq
  <2>1. f \in Data(sstables)
    BY <1>0, <1>7 DEF NewestOf
  <2>2. PICK g \in i.data : g.key = e.key
    BY <1>5, <1>7, <2>1
  <2>3. e.seq <= g.seq
    BY <1>4, <2>2
  <2>4. g \in Data(inputs)
    BY <1>2, <2>2, InData
  <2>5. g.seq <= f.seq
    BY <1>0, <1>7, <2>2, <2>4 DEF NewestOf
  <2>6. e.seq \in Nat /\ g.seq \in Nat /\ f.seq \in Nat
    BY <1>0, <2>1, <2>4, Types
  <2> QED BY <2>3, <2>5, <2>6
<1>8. ASSUME NEW e \in wal_data, \A f \in C.data : f.key # e.key,
             NEW g \in Data((sstables \ inputs) \cup {C}), g.key = e.key
      PROVE  FALSE
  <2>1. PICK u \in sstables \ inputs : g \in u.data
    BY <1>8, InData
  <2>2. g \in Data(sstables) /\ g \in Data(sstables \ inputs)
    BY <2>1, InData
  <2>3. PICK h \in i.data : h.key = e.key
    BY <1>5, <1>8, <2>2
  <2>4. h \in Data(inputs) /\ Data(inputs) \in SUBSET Data(sstables)
    BY <1>0, <1>2, <2>3, InData
  <2>5. \E z \in NewestOf(Data(inputs)) : z.key = h.key
    <3>1. PICK b \in Nat : \A t \in sstables : t.data \subseteq Ents(b)
      BY DataBound
    <3>2. Data(inputs) \in SUBSET Ents(b)
      BY <3>1, <1>0 DEF Data
    <3> QED BY <2>4, <3>2, NewestExists
  <2>6. PICK z \in NewestOf(Data(inputs)) : z.key = e.key
    BY <2>3, <2>5
  <2>7. z \notin C.data
    BY <1>8, <2>6
  <2>8. \A y \in Data(sstables \ inputs), w \in Data(inputs) : w.seq < y.seq
    BY <1>0, <2>6, <2>7, MergeEntries DEF IsMerge
  <2>9. x \in Data(inputs) /\ x.seq < g.seq
    BY <1>1, <1>2, <2>2, <2>8, InData
  <2>10. g \in wal_data \/ g.seq < x.seq
    BY <1>1, <2>2 DEF OrderlyInv, TablesInv, FlushedWhole
  <2>11. g \in wal_data
    BY <2>9, <2>10, <2>2, <1>1, Types
  <2> QED BY <1>6, <2>1, <2>11
<1> QED BY <1>6, <1>7, <1>8

(* run_compaction() picks neighbours, merges them, and may give up. *)
LEMMA SelectOrderly ==
    ASSUME Orderly, LsmInv, OrderlyInv, CompactSelect \/ CompactAbort
    PROVE  OrderlyInv'
<1>0. UNCHANGED <<phase, next_seq_no, last_committed_tx, memtable, immutable_memtables, wal, sstables,
                  commit, flush, old_wals, wal_data, manifest, reader, committed>>
  BY DEF CompactSelect, CompactAbort
<1>1. Pending' = Pending /\ InMemory' = InMemory /\ \A pcs : Flushing(pcs)' = Flushing(pcs)
  BY <1>0 DEF Pending, InMemory, Flushing
<1>2. Compacted' = Compacted
  BY DEF Compacted, CompactSelect, CompactAbort, NoMerge
<1>3. ManifestInv'
  <2>1. Flushed' = Flushed
    BY <1>0 DEF Flushed
  <2> QED BY <1>0, <1>1, <1>2, <2>1 DEF OrderlyInv, ManifestInv
<1>4. CompactionInv'
  <2>1. CASE CompactAbort
    BY <2>1 DEF CompactAbort, CompactionInv, NoMerge
  <2>2. CASE CompactSelect
    <3>1. PICK inputs \in SUBSET sstables :
             /\ IsTier(inputs)
             /\ compaction' = [pc |-> "replace", inputs |-> inputs,
                               table |-> [id |-> FreshCompactId,
                                          data |-> Merge(inputs, inputs = sstables)]]
      BY <2>2 DEF CompactSelect
    <3>2. \A u \in sstables \ inputs :
             \/ \A t \in inputs : max_seq(u) < max_seq(t)
             \/ \A t \in inputs : max_seq(u) > max_seq(t)
      BY <3>1 DEF IsTier, Orderly
    <3>3. \/ Merge(inputs, inputs = sstables) = Merge(inputs, FALSE)
          \/ /\ Merge(inputs, inputs = sstables) = Merge(inputs, TRUE)
             /\ \A x \in Data(sstables \ inputs), y \in Data(inputs) : y.seq < x.seq
      <4>1. CASE inputs = sstables
        <5>1. Data(sstables \ inputs) = {}
          BY <4>1 DEF Data
        <5>2. Merge(inputs, inputs = sstables) = Merge(inputs, TRUE)
          BY <4>1 DEF Merge
        <5> QED BY <5>1, <5>2
      <4>2. CASE inputs # sstables
        <5>1. Merge(inputs, inputs = sstables) = Merge(inputs, FALSE)
          BY <4>2 DEF Merge
        <5> QED BY <5>1
      <4> QED BY <4>1, <4>2
    <3>4. FreshCompactId[1] = -1
      BY DEF FreshCompactId
    <3> QED BY <1>0, <3>1, <3>2, <3>3, <3>4 DEF CompactionInv
  <2> QED BY <2>1, <2>2
<1>5. DiskInv' /\ MemoryInv' /\ TasksInv' /\ TablesInv' /\ ReaderInv'
  BY <1>0, <1>1, Types, DiskFrame, MemoryFrame, TasksFrame, TablesFrame, ReaderFrame DEF OrderlyInv
<1> QED BY <1>3, <1>4, <1>5 DEF OrderlyInv

(* The table of a committer's flush, newer than the others, does not come between the tables that *)
(* are being merged.                                                                              *)
LEMMA TableBeside ==
    ASSUME LsmInv, OrderlyInv, phase = "up", flush["commit"].pc \in {"write", "publish"},
           compaction.pc \in {"replace", "swap"}, NEW t, t = flush["commit"].table
    PROVE  /\ IsMerge(sstables \cup {t}, compaction.inputs, compaction.table)
           /\ t \notin compaction.inputs
<1> DEFINE inputs == compaction.inputs
           C == compaction.table
<1>0. /\ IsMerge(sstables, inputs, C) /\ inputs \subseteq sstables /\ Data(inputs) \subseteq Data(sstables)
  BY CompactTable
<1>1. /\ \A e \in t.data, y \in Data(sstables) : y.seq < e.seq
      /\ \A u \in sstables : u.id # t.id /\ max_seq(u) < max_seq(t)
  BY CommitTable
<1>2. t \notin inputs
  BY <1>0, <1>1
<1>3. (sstables \cup {t}) \ inputs = (sstables \ inputs) \cup {t}
  BY <1>2
<1>4. \A y \in Data((sstables \cup {t}) \ inputs) : y \in Data(sstables \ inputs) \/ y \in t.data
  BY <1>3 DEF Data
<1>5. \A i \in inputs : max_seq(t) > max_seq(i)
  BY <1>0, <1>1, CommitTable
<1>6. \A u \in (sstables \cup {t}) \ inputs :
         \/ \A i \in inputs : max_seq(u) < max_seq(i)
         \/ \A i \in inputs : max_seq(u) > max_seq(i)
  BY <1>0, <1>5, <1>3 DEF IsMerge
<1>7. \/ C.data = Merge(inputs, FALSE)
      \/ /\ C.data = Merge(inputs, TRUE)
         /\ \A x \in Data((sstables \cup {t}) \ inputs), y \in Data(inputs) : y.seq < x.seq
  BY <1>0, <1>1, <1>4 DEF IsMerge
<1> QED BY <1>0, <1>2, <1>6, <1>7 DEF IsMerge

(* The merge is one of the tables in the MANIFEST as well, which may have the table of a flush *)
(* besides the open ones.                                                                       *)
LEMMA ManifestMerge ==
    ASSUME LsmInv, OrderlyInv, phase = "up", compaction.pc = "replace"
    PROVE  /\ IsMerge(manifest, compaction.inputs, compaction.table)
           /\ \/ manifest = sstables /\ ~Flushing({"publish"})
              \/ /\ Flushing({"publish"}) /\ flush["commit"].pc = "publish"
                 /\ manifest = sstables \cup {Flushed.table}
                 /\ Flushed.table \notin compaction.inputs
<1>1. CASE ~Flushing({"publish"})
  BY <1>1, CompactTable DEF OrderlyInv, ManifestInv, Compacted
<1>2. CASE Flushing({"publish"})
  <2>1. flush["commit"].pc = "publish"
    BY <1>2 DEF Flushing, LsmInv, PhaseInv
  <2>2. Flushed = flush["commit"] /\ Without(Compacted, Flushed.table.id) = Compacted
    BY <2>1, CommitTable
  <2>3. manifest = sstables \cup {Flushed.table}
    BY <1>2, <2>2 DEF OrderlyInv, ManifestInv, Compacted
  <2>4. /\ IsMerge(sstables \cup {Flushed.table}, compaction.inputs, compaction.table)
        /\ Flushed.table \notin compaction.inputs
    BY <2>1, <2>2, TableBeside
  <2> QED BY <1>2, <2>1, <2>3, <2>4
<1> QED BY <1>1, <1>2

(* It replaces its inputs in the MANIFEST, whatever a flush has added there meanwhile. *)
LEMMA ReplaceOrderly ==
    ASSUME LsmInv, OrderlyInv, CompactReplace
    PROVE  OrderlyInv'
<1> DEFINE inputs == compaction.inputs
           C == compaction.table
<1>t. compaction.pc = "replace" /\ phase = "up"
  BY DEF CompactReplace, LsmInv, PhaseInv
<1>0. /\ manifest' = (manifest \ inputs) \cup {C}
      /\ compaction' = [compaction EXCEPT !.pc = "swap"]
      /\ UNCHANGED <<phase, next_seq_no, last_committed_tx, memtable, immutable_memtables, wal,
                     sstables, commit, flush, old_wals, wal_data, reader, committed>>
  BY DEF CompactReplace
<1>c. compaction'.pc = "swap" /\ compaction'.inputs = inputs /\ compaction'.table = C
  <2>1. compaction \in [pc : {"replace", "swap"}, inputs : SUBSET Tables(Entry, TableId),
                        table : Tables(Entry, TableId)]
    BY <1>t DEF LsmInv, TypeOK, DataIn, CompactionState, Tables, Idle
  <2> QED BY <1>0, <2>1
<1>1. Pending' = Pending /\ InMemory' = InMemory /\ \A pcs : Flushing(pcs)' = Flushing(pcs)
  BY <1>0 DEF Pending, InMemory, Flushing
<1>f. Flushed' = Flushed
  BY <1>0 DEF Flushed
<1>2. /\ IsMerge(manifest, inputs, C)
      /\ \/ manifest = sstables /\ ~Flushing({"publish"})
         \/ /\ Flushing({"publish"}) /\ flush["commit"].pc = "publish"
            /\ manifest = sstables \cup {Flushed.table} /\ Flushed.table \notin inputs
  BY <1>t, ManifestMerge
<1>3. /\ C.data \subseteq Data(sstables) /\ C.id[1] = -1 /\ inputs \subseteq sstables
      /\ C.data \subseteq Data(inputs)
  BY <1>t, CompactTable DEF NewestOf
<1>4. Data(manifest') \subseteq Data(manifest)
  BY <1>0, <1>2, <1>3 DEF Data, IsMerge
<1>b. PICK b \in Nat : \A u \in sstables \cup manifest : u.data \subseteq Ents(b)
  BY DataBound
<1>5. DiskInv'
  <2>1. Ordered(manifest')
    BY <1>0, <1>2, <1>b, MergeOrdered DEF OrderlyInv, DiskInv
  <2>2. \A e, f \in wal_data \cup Data(manifest' \cup sstables) : e.seq = f.seq => e = f
    <3>1. Data(manifest' \cup sstables) \subseteq Data(manifest \cup sstables)
      BY <1>4 DEF Data
    <3> QED BY <3>1 DEF OrderlyInv, DiskInv
  <2>3. FlushedWhole(manifest)'
    <3>1. \A x \in Data(manifest'), e \in wal_data : x \in wal_data \/ x.seq < e.seq
      BY <1>4 DEF OrderlyInv, DiskInv, FlushedWhole
    <3>2. ASSUME NEW t \in manifest'
          PROVE /\ t.data \cap wal_data # {} =>
                      \A f \in t.data, e \in wal_data : e.key = f.key => e.seq <= f.seq
                /\ t.id[1] # -1 =>
                      /\ \E x \in t.data : x.seq + 1 = t.id[1]
                      /\ t.data \subseteq wal_data \/ t.data \cap wal_data = {}
      <4>1. CASE t \in manifest
        BY <4>1 DEF OrderlyInv, DiskInv, FlushedWhole
      <4>2. CASE t = C
        BY <4>2, <1>t, <1>3, MergeComplete
      <4> QED BY <1>0, <3>2, <4>1, <4>2
    <3> QED BY <1>0, <3>1, <3>2 DEF FlushedWhole
  <2>4. \A e, f \in Data(manifest) : e.seq = f.seq => e = f
    <3>1. Data(manifest) \subseteq Data(manifest \cup sstables)
      BY DEF Data
    <3> QED BY <3>1 DEF OrderlyInv, DiskInv
  <2>5. \A k \in Keys : HasValue((wal_data \ Pending) \cup Data(manifest'), k, committed[k])
    <3> DEFINE X == wal_data \ Pending
    <3>1. X \in SUBSET Entry
      BY Types
    <3>2. \A y \in Data(manifest), x \in X : y \in X \/ y.seq < x.seq
      <4> SUFFICES ASSUME NEW y \in Data(manifest), NEW x \in X, y \notin X PROVE y.seq < x.seq
        OBVIOUS
      <4>1. CASE y \notin wal_data
        BY <4>1 DEF OrderlyInv, DiskInv, FlushedWhole
      <4>2. CASE y \in Pending
        <5>1. commit.pc = "apply" /\ y = commit.entry
          BY <4>2 DEF Pending
        <5>2. y \in wal_data /\ ~Flushing({"publish"}) /\ ~Flushing({"unlink"})
          BY <5>1 DEF OrderlyInv, TasksInv, LsmInv, PhaseInv, Flushing
        <5>3. y \in Data(sstables)
          BY <5>2, <1>2
        <5>4. y.seq < y.seq
          BY <1>t, <5>2, <5>3 DEF OrderlyInv, TablesInv
        <5> QED BY <5>2, <5>4, Types
      <4> QED BY <4>1, <4>2
    <3>3. \A k \in Keys : HasValue(X \cup Data(manifest), k, committed[k])
      BY DEF OrderlyInv, DiskInv
    <3> HIDE DEF X
    <3>4. \A k \in Keys : HasValue(X \cup Data((manifest \ inputs) \cup {C}), k, committed[k])
      BY <1>2, <1>b, <2>4, <3>1, <3>2, <3>3, MergeValue
    <3> QED BY <1>0, <3>4 DEF X
  <2>6. Flushing({"unlink"}) \/ phase = "cleanup" =>
           \A k \in Keys : HasValue(Data(manifest'), k, committed[k])
    <3> SUFFICES ASSUME Flushing({"unlink"}) \/ phase = "cleanup", NEW k \in Keys
                 PROVE  HasValue(Data(manifest'), k, committed[k])
      OBVIOUS
    <3>1. HasValue({} \cup Data(manifest), k, committed[k])
      <4>1. {} \cup Data(manifest) = Data(manifest)
        OBVIOUS
      <4> QED BY <4>1 DEF OrderlyInv, DiskInv
    <3>2. HasValue({} \cup Data((manifest \ inputs) \cup {C}), k, committed[k])
      BY <1>2, <1>b, <2>4, <3>1, MergeValue
    <3>3. {} \cup Data((manifest \ inputs) \cup {C}) = Data(manifest')
      BY <1>0
    <3> QED BY <3>2, <3>3
  <2>7. (wal_data \ Pending)' = wal_data \ Pending
    BY <1>0, <1>1
  <2> QED BY <1>0, <1>1, <2>1, <2>2, <2>3, <2>5, <2>6, <2>7 DEF OrderlyInv, DiskInv
<1>6. ManifestInv'
  <2>1. Compacted' = (sstables \ inputs) \cup {C}
    BY <1>0, <1>c DEF Compacted
  <2>2. CASE manifest = sstables /\ ~Flushing({"publish"})
    BY <2>1, <2>2, <1>0, <1>1 DEF ManifestInv
  <2>3. CASE /\ Flushing({"publish"}) /\ flush["commit"].pc = "publish"
             /\ manifest = sstables \cup {Flushed.table} /\ Flushed.table \notin inputs
    <3> DEFINE t == flush["commit"].table
    <3>1. Flushed = flush["commit"] /\ (\A u \in sstables : u.id # t.id) /\ t.id[1] \in Nat
      BY <2>3, <1>t, CommitTable
    <3>2. C.id # t.id
      BY <1>3, <3>1
    <3>3. Without(Compacted', t.id) = (sstables \ inputs) \cup {C}
      BY <2>1, <3>1, <3>2 DEF Without
    <3>4. manifest' = (sstables \ inputs) \cup {C} \cup {t}
      BY <1>0, <2>3, <3>1
    <3>5. manifest' = Without(Compacted', t.id) \cup {t}
      BY <3>3, <3>4
    <3> QED BY <3>1, <3>5, <2>3, <1>0, <1>1, <1>f DEF ManifestInv, Without
  <2> QED BY <1>2, <2>2, <2>3
<1>7. CompactionInv'
  BY <1>0, <1>c, <1>t DEF OrderlyInv, CompactionInv
<1>8. MemoryInv' /\ TasksInv' /\ TablesInv' /\ ReaderInv'
  BY <1>0, <1>1, Types, MemoryFrame, TasksFrame, TablesFrame, ReaderFrame DEF OrderlyInv
<1> QED BY <1>5, <1>6, <1>7, <1>8 DEF OrderlyInv

(* It replaces its inputs among the open tables. *)
LEMMA SwapOrderly ==
    ASSUME LsmInv, OrderlyInv, CompactSwap
    PROVE  OrderlyInv'
<1> DEFINE inputs == compaction.inputs
           C == compaction.table
<1>t. compaction.pc = "swap" /\ phase = "up"
  BY DEF CompactSwap, LsmInv, PhaseInv
<1>0. /\ sstables' = (sstables \ inputs) \cup {C} /\ compaction' = NoMerge
      /\ UNCHANGED <<phase, next_seq_no, last_committed_tx, memtable, immutable_memtables, wal,
                     manifest, commit, flush, old_wals, wal_data, reader, committed>>
  BY DEF CompactSwap
<1>1. Pending' = Pending /\ InMemory' = InMemory /\ \A pcs : Flushing(pcs)' = Flushing(pcs)
  BY <1>0 DEF Pending, InMemory, Flushing
<1>f. Flushed' = Flushed
  BY <1>0 DEF Flushed
<1>2. /\ IsMerge(sstables, inputs, C) /\ C.data \subseteq Data(sstables) /\ C.id[1] = -1
      /\ inputs \subseteq sstables /\ C.data \subseteq Data(inputs)
  BY <1>t, CompactTable DEF NewestOf
<1>3. Data(sstables') \subseteq Data(sstables)
  BY <1>0, <1>2 DEF Data
<1>b. PICK b \in Nat : \A u \in sstables \cup manifest : u.data \subseteq Ents(b)
  BY DataBound
<1>4. DiskInv'
  <2>1. Data(manifest \cup sstables') \subseteq Data(manifest \cup sstables)
    BY <1>3 DEF Data
  <2>2. \A e, f \in wal_data \cup Data(manifest \cup sstables') : e.seq = f.seq => e = f
    BY <2>1 DEF OrderlyInv, DiskInv
  <2>3. FlushedWhole(manifest)'
    BY <1>0 DEF OrderlyInv, DiskInv, FlushedWhole
  <2> QED BY <1>0, <1>1, <2>2, <2>3 DEF OrderlyInv, DiskInv
<1>5. MemoryInv'
  <2>1. Doomed' = Doomed
    BY <1>0 DEF Doomed
  <2> QED BY <1>0, <1>1, <1>3, <2>1 DEF OrderlyInv, MemoryInv
<1>6. TasksInv'
  BY <1>0, <1>1, <1>f, <1>3 DEF OrderlyInv, TasksInv
<1>7. ManifestInv'
  <2>1. Compacted' = Compacted
    BY <1>0, <1>t DEF Compacted, NoMerge
  <2> QED BY <1>0, <1>1, <1>f, <2>1 DEF OrderlyInv, ManifestInv
<1>8. CompactionInv'
  BY <1>0 DEF CompactionInv, NoMerge
<1>9. TablesInv'
  <2>0. TablesInv /\ phase = "up"
    BY <1>t DEF OrderlyInv
  <2>1. Ordered(sstables')
    BY <1>0, <1>2, <1>b, <2>0, MergeOrdered DEF TablesInv
  <2>2. FlushedWhole(sstables)'
    <3>1. \A x \in Data(sstables'), e \in wal_data : x \in wal_data \/ x.seq < e.seq
      BY <1>3, <2>0 DEF TablesInv, FlushedWhole
    <3>2. ASSUME NEW t \in sstables'
          PROVE /\ t.data \cap wal_data # {} =>
                      \A f \in t.data, e \in wal_data : e.key = f.key => e.seq <= f.seq
                /\ t.id[1] # -1 =>
                      /\ \E x \in t.data : x.seq + 1 = t.id[1]
                      /\ t.data \subseteq wal_data \/ t.data \cap wal_data = {}
      <4>1. CASE t \in sstables
        BY <4>1, <2>0 DEF TablesInv, FlushedWhole
      <4>2. CASE t = C
        BY <4>2, <1>t, <1>2, MergeComplete
      <4> QED BY <1>0, <3>2, <4>1, <4>2
    <3> QED BY <1>0, <3>1, <3>2 DEF FlushedWhole
  <2>3. ~Flushing({"unlink"}) => \A x \in Data(sstables'), e \in wal_data : x.seq < e.seq
    BY <1>3, <2>0 DEF TablesInv
  <2>4. ASSUME NEW t \in sstables', NEW u \in sstables',
               t.data \cap wal_data # {}, u.data \cap wal_data # {}
        PROVE  t = u
    <3>1. CASE t \in sstables \ inputs /\ u \in sstables \ inputs
      BY <3>1, <2>0, <2>4 DEF TablesInv
    <3>2. CASE t = C \/ u = C
      BY <3>2, <2>4, <1>0, <1>t, MergeComplete
    <3> QED BY <1>0, <2>4, <3>1, <3>2
  <2>5. ASSUME NEW t \in sstables', t.data \cap wal_data # {}, NEW e \in wal_data
        PROVE  (\E f \in t.data : f.key = e.key) \/ (\A f \in Data(sstables') : f.key # e.key)
    <3>1. CASE t \in sstables \ inputs
      BY <3>1, <2>0, <2>5, <1>3 DEF TablesInv
    <3>2. CASE t = C
      BY <3>2, <2>5, <1>0, <1>t, MergeComplete
    <3> QED BY <1>0, <2>5, <3>1, <3>2
  <2>6. \A k \in Keys : HasValue(InMemory \cup Data(sstables'), k, committed[k])
    <3>1. InMemory \in SUBSET Entry
      BY Types
    <3>2. \A e, f \in Data(sstables) : e.seq = f.seq => e = f
      <4>1. Data(sstables) \subseteq Data(manifest \cup sstables)
        BY DEF Data
      <4> QED BY <4>1 DEF OrderlyInv, DiskInv
    <3>3. \A y \in Data(sstables), x \in InMemory : y \in InMemory \/ y.seq < x.seq
      <4>1. CASE Flushing({"unlink"})
        <5>1. ~Flushing({"create", "write", "publish"})
          BY <4>1, <1>t DEF Flushing, LsmInv, PhaseInv
        <5>2. memtable = {} /\ immutable_memtables = {}
          BY <4>1, <5>1, <1>t DEF OrderlyInv, MemoryInv
        <5> QED BY <5>2 DEF InMemory
      <4>2. CASE ~Flushing({"unlink"})
        <5>1. InMemory \subseteq wal_data
          BY <4>2, <1>t DEF OrderlyInv, MemoryInv, InMemory
        <5> QED BY <4>2, <5>1, <2>0 DEF TablesInv
      <4> QED BY <4>1, <4>2
    <3>4. \A k \in Keys : HasValue(InMemory \cup Data(sstables), k, committed[k])
      BY <2>0 DEF TablesInv
    <3>5. \A k \in Keys : HasValue(InMemory \cup Data((sstables \ inputs) \cup {C}), k, committed[k])
      BY <1>2, <1>b, <3>1, <3>2, <3>3, <3>4, MergeValue
    <3> QED BY <1>0, <3>5
  <2> QED BY <1>0, <1>1, <2>1, <2>2, <2>3, <2>4, <2>5, <2>6 DEF TablesInv
<1>10. ReaderInv'
  BY <1>0, <1>1, <1>3, ReaderFrame DEF OrderlyInv
<1> QED BY <1>4, <1>5, <1>6, <1>7, <1>8, <1>9, <1>10 DEF OrderlyInv

-----------------------------------------------------------------------------
(* flush(), by the committer and by new().                                  *)

(* A flush goes on to its next place x. *)
LEMMA FlushMoves ==
    ASSUME LsmInv, NEW f \in {"commit", "startup"}, flush[f].pc # "idle" \/ MayFlush(f),
           NEW x, x.pc # "idle", flush' = [flush EXCEPT ![f] = x], UNCHANGED <<phase, commit>>
    PROVE  /\ Flushed' = x /\ Pending' = {} /\ flush'["caller"] = flush["caller"]
           /\ \A pcs : "idle" \notin pcs => (Flushing(pcs)' <=> x.pc \in pcs)
<1>0. /\ \A g \in {"commit", "startup"} \ {f} : flush[g].pc = "idle"
      /\ commit.pc \in {"idle", "flush"} /\ phase \in {"starting", "up"} /\ (phase = "up" <=> f = "commit")
  BY FlushAlone DEF LsmInv
<1>1. flush'[f] = x /\ \A g \in Flushers \ {f} : flush'[g] = flush[g]
  BY Types DEF Flushers
<1>2. \A pcs : "idle" \notin pcs => (Flushing(pcs)' <=> x.pc \in pcs)
  BY <1>0, <1>1 DEF Flushing, Flushers
<1> QED BY <1>0, <1>1, <1>2 DEF Flushed, Pending, Flushers

(* Until the memtable is frozen, it is the log. *)
LEMMA BeforeSwap ==
    ASSUME LsmInv, OrderlyInv, NEW f \in {"commit", "startup"}, MayFlush(f) \/ flush[f].pc = "swap"
    PROVE  /\ \A pcs : pcs \cap {"idle", "swap"} = {} => ~Flushing(pcs)
           /\ memtable = wal_data /\ immutable_memtables = {} /\ InMemory = wal_data
           /\ \E x \in wal_data : x.seq + 1 = next_seq_no
           /\ \A e \in wal_data : e.log \in Doomed \cup {wal}
           /\ phase \in {"starting", "up"}
<1>1. /\ Pending = {} /\ phase \in {"starting", "up"} /\ (phase = "up" => commit.pc = "flush")
      /\ \A pcs : "idle" \notin pcs => (Flushing(pcs) <=> flush[f].pc \in pcs)
  BY FlushAlone DEF LsmInv
<1>2. flush[f].pc \in {"idle", "swap"}
  BY DEF MayFlush
<1>3. \A pcs : pcs \cap {"idle", "swap"} = {} => ~Flushing(pcs)
  BY <1>1, <1>2
<1>4. /\ ~Flushing({"create", "write", "publish"}) /\ ~Flushing({"unlink"})
      /\ ~Flushing({"create", "write", "publish", "unlink"})
  BY <1>3
<1>5. memtable = wal_data /\ immutable_memtables = {} /\ \A e \in wal_data : e.log \in Doomed \cup {wal}
  BY <1>1, <1>4 DEF OrderlyInv, MemoryInv
<1> QED BY <1>1, <1>3, <1>5 DEF OrderlyInv, TasksInv, InMemory

(* flush() creates the next log. *)
LEMMA StartOrderly ==
    ASSUME LsmInv, OrderlyInv, NEW f \in {"commit", "startup"}, FlushStart(f)
    PROVE  OrderlyInv'
<1>0. /\ MayFlush(f)
      /\ flush' = [flush EXCEPT ![f] = [pc |-> "swap", new_wal |-> {flush_counter : e \in memtable}]]
      /\ UNCHANGED <<phase, next_seq_no, last_committed_tx, memtable, immutable_memtables, wal, sstables,
                     commit, compaction, old_wals, wal_data, manifest, reader, committed>>
  BY DEF FlushStart
<1>1. /\ \A pcs : pcs \cap {"idle", "swap"} = {} => ~Flushing(pcs)
      /\ memtable = wal_data /\ immutable_memtables = {} /\ phase \in {"starting", "up"} /\ Pending = {}
  BY <1>0, BeforeSwap, FlushAlone DEF LsmInv
<1>2. /\ Pending' = {} /\ flush'["caller"] = flush["caller"]
      /\ \A pcs : pcs \cap {"idle", "swap"} = {} => ~Flushing(pcs)'
  <2> DEFINE x == [pc |-> "swap", new_wal |-> {flush_counter : e \in memtable}]
  <2>1. x.pc = "swap" /\ flush' = [flush EXCEPT ![f] = x]
    BY <1>0
  <2> HIDE DEF x
  <2>2. /\ Pending' = {} /\ flush'["caller"] = flush["caller"]
        /\ \A pcs : "idle" \notin pcs => (Flushing(pcs)' <=> x.pc \in pcs)
    BY <1>0, <2>1, FlushMoves
  <2> QED BY <2>1, <2>2
<1>3. Doomed' = Doomed /\ InMemory' = InMemory
  <2>1. \A g \in Flushers : Dooms(g)' = Dooms(g)
    BY <1>0, Types DEF Dooms, MayFlush, Flushers
  <2> QED BY <1>0, <2>1, DoomedMember DEF InMemory, Doomed, Dooms
<1>4. DiskInv' /\ ManifestInv' /\ CompactionInv' /\ TablesInv' /\ ReaderInv'
  BY <1>0, <1>1, <1>2, <1>3, DiskFrame, ManifestApart, CompactionFrame, TablesFrame, ReaderFrame
     DEF OrderlyInv
<1>5. MemoryInv'
  BY <1>0, <1>1, <1>2, <1>3 DEF OrderlyInv, MemoryInv
<1>6. TasksInv'
  BY <1>0, <1>1, <1>2 DEF OrderlyInv, TasksInv
<1> QED BY <1>4, <1>5, <1>6 DEF OrderlyInv

(* A commit that fills its memtable, and a startup that replayed entries, have something *)
(* to flush.                                                                             *)
LEMMA NothingOrderly ==
    ASSUME LsmInv, OrderlyInv, NEW f \in {"commit", "startup"}
    PROVE  ~FlushNothing(f)
  BY BeforeSwap DEF FlushNothing

(* It moves the memtable to the immutable ones and the log to the new one. *)
LEMMA SwapLogOrderly ==
    ASSUME LsmInv, OrderlyInv, NEW f \in {"commit", "startup"}, FlushSwap(f)
    PROVE  OrderlyInv'
<1>1. /\ \A pcs : pcs \cap {"idle", "swap"} = {} => ~Flushing(pcs)
      /\ memtable = wal_data /\ immutable_memtables = {} /\ InMemory = wal_data
      /\ phase \in {"starting", "up"} /\ Pending = {} /\ commit.pc # "append" /\ wal_data # {}
  BY BeforeSwap, FlushAlone DEF LsmInv, FlushSwap
<1> DEFINE x == [pc |-> "create", to_flush |-> {wal_data}, old_wal |-> {wal}]
<1>0. /\ flush[f].pc = "swap" /\ memtable' = {} /\ immutable_memtables' = {wal_data}
      /\ flush' = [flush EXCEPT ![f] = x]
      /\ UNCHANGED <<phase, next_seq_no, last_committed_tx, sstables, commit, compaction, old_wals,
                     wal_data, manifest, reader, committed>>
  <2>1. immutable_memtables \cup Frozen = {wal_data}
    BY <1>1 DEF Frozen
  <2> QED BY <1>1, <2>1 DEF FlushSwap
<1>2. /\ Flushed' = x /\ Pending' = {} /\ flush'["caller"] = flush["caller"]
      /\ \A pcs : "idle" \notin pcs => (Flushing(pcs)' <=> x.pc \in pcs)
  BY <1>0, FlushMoves
<1>3. InMemory' = InMemory
  BY <1>0, <1>1 DEF InMemory
<1>4. \A e \in wal_data : e.log \in Doomed'
  <2>1. \A e \in wal_data : e.log \in Doomed \cup {wal}
    BY <1>0, BeforeSwap
  <2>2. flush'[f] = x /\ \A g \in Flushers \ {f} : flush'[g] = flush[g]
    BY <1>0, Types DEF Flushers
  <2>3. Doomed \cup {wal} \subseteq Doomed'
    <3>1. Dooms(f)' = {wal} /\ Dooms(f) = {} /\ \A g \in Flushers \ {f} : Dooms(g)' = Dooms(g)
      BY <1>0, <2>2 DEF Dooms
    <3>2. \A w : w \in Doomed' <=> w \in old_wals' \/ \E g \in Flushers : w \in Dooms(g)'
      BY DEF Doomed, Dooms
    <3> QED BY <1>0, <3>1, <3>2, DoomedMember DEF Flushers
  <2> QED BY <2>1, <2>3
<1>5. DiskInv' /\ ManifestInv' /\ CompactionInv' /\ TablesInv' /\ ReaderInv'
  BY <1>0, <1>1, <1>2, <1>3, DiskFrame, ManifestApart, CompactionFrame, TablesFrame, ReaderFrame
     DEF OrderlyInv
<1>6. MemoryInv'
  BY <1>0, <1>1, <1>2, <1>3, <1>4 DEF OrderlyInv, MemoryInv
<1>7. TasksInv'
  BY <1>0, <1>1, <1>2 DEF OrderlyInv, TasksInv
<1> QED BY <1>5, <1>6, <1>7 DEF OrderlyInv

(* The versions that a flush writes are the newest of the log. *)
LEMMA LatestIsNewest ==
    ASSUME LsmInv, OrderlyInv
    PROVE  LatestPerKey(wal_data) = NewestOf(wal_data)
<1>1. \A e \in wal_data : Rank(e.log) \in Nat /\ e.seq \in Nat
  BY Types DEF Entry, Rank, Wals, WAL_LOG
<1>2. \A e, f \in wal_data : e.log = f.log /\ (e.seq = f.seq => e = f)
  BY DEF OrderlyInv, DiskInv
<1>3. ASSUME NEW e \in wal_data, NEW f \in wal_data
      PROVE  PushedBefore(f, e) <=> f.seq < e.seq
  <2>1. f.log = e.log /\ ~(Rank(f.log) < Rank(e.log))
    BY <1>1, <1>2
  <2> QED BY <2>1 DEF PushedBefore
<1>4. ASSUME NEW e \in wal_data, NEW f \in wal_data
      PROVE  (f # e => f.seq < e.seq) <=> f.seq <= e.seq
  BY <1>1, <1>2
<1> QED BY <1>3, <1>4 DEF LatestPerKey, NewestOf

(* It names its table. *)
LEMMA CreateOrderly ==
    ASSUME LsmInv, OrderlyInv, NEW f \in {"commit", "startup"}, FlushCreate(f)
    PROVE  OrderlyInv'
<1>t. f \in Flushers /\ flush[f].pc = "create"
  BY DEF Flushers, FlushCreate
<1>1. /\ Flushed = flush[f] /\ Pending = {} /\ phase \in {"starting", "up"} /\ commit.pc # "append"
      /\ \A pcs : "idle" \notin pcs => (Flushing(pcs) <=> flush[f].pc \in pcs)
  BY <1>t, FlushAlone DEF LsmInv
<1>2. flush[f].to_flush = {wal_data}
  BY <1>t, <1>1 DEF OrderlyInv, TasksInv
<1> DEFINE t == [id |-> <<next_seq_no, segment_counter>>, data |-> NewestOf(wal_data)]
           x == [pc |-> "write", old_wal |-> flush[f].old_wal, to_flush |-> {wal_data}, table |-> t]
<1>0. /\ flush' = [flush EXCEPT ![f] = x]
      /\ UNCHANGED <<phase, next_seq_no, last_committed_tx, memtable, immutable_memtables, wal, sstables,
                     commit, compaction, old_wals, wal_data, manifest, reader, committed>>
  <2>1. UNION flush[f].to_flush = wal_data
    BY <1>2
  <2> QED BY <1>2, <2>1, LatestIsNewest DEF FlushCreate
<1>3. /\ Flushed' = x /\ Pending' = {} /\ flush'["caller"] = flush["caller"]
      /\ \A pcs : "idle" \notin pcs => (Flushing(pcs)' <=> x.pc \in pcs)
  BY <1>0, <1>t, FlushMoves
<1>4. InMemory' = InMemory /\ Doomed' = Doomed
  <2>1. flush'[f] = x /\ \A g \in Flushers \ {f} : flush'[g] = flush[g]
    BY <1>0, Types DEF Flushers
  <2>2. x.pc = "write" /\ x.old_wal = flush[f].old_wal
    OBVIOUS
  <2> HIDE DEF x
  <2>3. Dooms(f)' = Dooms(f)
    BY <1>t, <2>1, <2>2 DEF Dooms
  <2>4. \A g \in Flushers : Dooms(g)' = Dooms(g)
    BY <2>1, <2>3 DEF Dooms
  <2> QED BY <1>0, <2>4, DoomedMember DEF InMemory, Doomed, Dooms
<1>5. DiskInv' /\ ManifestInv' /\ CompactionInv' /\ TablesInv' /\ ReaderInv'
  BY <1>0, <1>t, <1>1, <1>3, <1>4, DiskFrame, ManifestApart, CompactionFrame, TablesFrame, ReaderFrame
     DEF OrderlyInv
<1>6. MemoryInv'
  BY <1>0, <1>t, <1>1, <1>3, <1>4 DEF OrderlyInv, MemoryInv
<1>7. TasksInv'
  BY <1>0, <1>1, <1>3 DEF OrderlyInv, TasksInv
<1> QED BY <1>5, <1>6, <1>7 DEF OrderlyInv

(* The table of a flush, and the last entry of the log in it. *)
LEMMA FlushTable ==
    ASSUME LsmInv, OrderlyInv, NEW f \in {"commit", "startup"}, flush[f].pc \in {"write", "publish"},
           NEW t, t = flush[f].table
    PROVE  /\ Flushed = flush[f] /\ Pending = {} /\ phase \in {"starting", "up"}
           /\ \A pcs : "idle" \notin pcs => (Flushing(pcs) <=> flush[f].pc \in pcs)
           /\ t.data = NewestOf(wal_data) /\ t.data \subseteq wal_data
           /\ t.id[1] = next_seq_no /\ next_seq_no \in Nat
           /\ memtable = {} /\ immutable_memtables = {wal_data} /\ InMemory = wal_data
           /\ flush[f].to_flush = {wal_data} /\ commit.pc # "append"
           /\ \A e \in wal_data : e.seq < next_seq_no /\ e.log \in Doomed
           /\ \E x \in t.data : x.seq + 1 = next_seq_no /\ x \in wal_data
<1>1. /\ Flushed = flush[f] /\ Pending = {} /\ phase \in {"starting", "up"} /\ commit.pc # "append"
      /\ phase = "up" => commit.pc = "flush"
      /\ \A pcs : "idle" \notin pcs => (Flushing(pcs) <=> flush[f].pc \in pcs)
  BY FlushAlone DEF LsmInv
<1>2. t.data = NewestOf(wal_data) /\ t.id[1] = next_seq_no /\ flush[f].to_flush = {wal_data}
  BY <1>1 DEF OrderlyInv, TasksInv
<1>3. /\ memtable = {} /\ immutable_memtables = {wal_data}
      /\ \A e \in wal_data : e.seq < next_seq_no /\ e.log \in Doomed
  BY <1>1 DEF OrderlyInv, MemoryInv
<1>4. InMemory = wal_data
  BY <1>3 DEF InMemory
<1>5. PICK x \in wal_data : x.seq + 1 = next_seq_no
  BY <1>1 DEF OrderlyInv, TasksInv
<1>6. x \in NewestOf(wal_data)
  BY <1>3, <1>5, Types DEF NewestOf
<1> QED BY <1>1, <1>2, <1>3, <1>4, <1>5, <1>6, Types DEF NewestOf

(* What the table holds of the log is on disk once more, and in the MANIFEST it takes the place at *)
(* most of a table with the same name, which an earlier flush of this log has left.               *)
LEMMA WriteOrderly ==
    ASSUME LsmInv, OrderlyInv, NEW f \in {"commit", "startup"}, FlushWrite(f)
    PROVE  OrderlyInv'
<1> DEFINE t == flush[f].table
<1>t. f \in Flushers /\ flush[f].pc = "write"
  BY DEF Flushers, FlushWrite
<1>1. /\ Flushed = flush[f] /\ Pending = {} /\ phase \in {"starting", "up"}
      /\ \A pcs : "idle" \notin pcs => (Flushing(pcs) <=> flush[f].pc \in pcs)
      /\ t.data = NewestOf(wal_data) /\ t.data \subseteq wal_data
      /\ t.id[1] = next_seq_no /\ next_seq_no \in Nat /\ commit.pc # "append"
      /\ \A e \in wal_data : e.seq < next_seq_no
  BY <1>t, FlushTable
<1> DEFINE x == [flush[f] EXCEPT !.pc = "publish"]
<1>0. /\ manifest' = Without(manifest, t.id) \cup {t} /\ flush' = [flush EXCEPT ![f] = x]
      /\ UNCHANGED <<phase, next_seq_no, last_committed_tx, memtable, immutable_memtables, wal, sstables,
                     commit, compaction, old_wals, wal_data, reader, committed>>
  BY DEF FlushWrite
<1>x. /\ x.pc = "publish" /\ x.table = t /\ x.old_wal = flush[f].old_wal
      /\ x.to_flush = flush[f].to_flush
  <2>1. flush[f] \in [pc : {"write", "publish", "unlink"}, to_flush : SUBSET SUBSET Entry,
                      old_wal : SUBSET Wals, table : Tables(Entry, TableId)]
    BY <1>t, FlushForms DEF LsmInv, TypeOK, DataIn, Tables
  <2> QED BY <2>1
<1> HIDE DEF x
<1>3. /\ Flushed' = x /\ Pending' = {} /\ flush'["caller"] = flush["caller"]
      /\ \A pcs : "idle" \notin pcs => (Flushing(pcs)' <=> x.pc \in pcs)
  BY <1>0, <1>t, <1>x, FlushMoves
<1>4. InMemory' = InMemory /\ Doomed' = Doomed
  <2>1. flush'[f] = x /\ \A g \in Flushers \ {f} : flush'[g] = flush[g]
    BY <1>0, Types DEF Flushers
  <2>3. Dooms(f)' = Dooms(f)
    BY <1>t, <2>1, <1>x DEF Dooms
  <2>4. \A g \in Flushers : Dooms(g)' = Dooms(g)
    BY <2>1, <2>3 DEF Dooms
  <2> QED BY <1>0, <2>4, DoomedMember DEF InMemory, Doomed, Dooms
<1>5. PICK z \in t.data : z.seq + 1 = next_seq_no /\ z \in wal_data
  BY <1>t, FlushTable
<1>6. DiskInv'
  <2>0. \A e \in wal_data \cup Data(manifest) : e.seq \in Nat
    BY Types
  <2>1. Data(manifest') \subseteq Data(manifest) \cup wal_data
    BY <1>0, <1>1 DEF Data, Without
  <2>2. \A e, g \in wal_data \cup Data(manifest \cup sstables) : e.seq = g.seq => e = g
    BY DEF OrderlyInv, DiskInv
  <2>3. \A e, g \in wal_data \cup Data(manifest' \cup sstables) : e.seq = g.seq => e = g
    <3>1. \A e \in wal_data \cup Data(manifest' \cup sstables) : e \in wal_data \cup Data(manifest \cup sstables)
      BY <2>1 DEF Data
    <3> QED BY <2>2, <3>1
  <2>4. \A y \in Data(manifest), e \in wal_data : y \in wal_data \/ y.seq < e.seq
    BY DEF OrderlyInv, DiskInv, FlushedWhole
  <2>5. ASSUME NEW u \in manifest, NEW y \in u.data, y.seq >= z.seq
        PROVE  /\ y \in wal_data /\ u.data \cap wal_data # {}
               /\ \A g \in u.data, e \in wal_data : e.key = g.key => e.seq <= g.seq
    <3>1. y \in Data(manifest)
      BY <2>5, InData
    <3>2. y \in wal_data
      BY <1>5, <2>0, <2>4, <2>5, <3>1
    <3> QED BY <2>5, <3>2 DEF OrderlyInv, DiskInv, FlushedWhole
  <2>b. PICK b \in Nat : wal_data \subseteq Ents(b) /\ \A u \in sstables \cup manifest : u.data \subseteq Ents(b)
    BY DataBound
  <2>6. Ordered(manifest')
    <3>1. ASSUME NEW u \in manifest, NEW e \in t.data, NEW g \in u.data, g.key = e.key
          PROVE  g.seq <= e.seq
      <4>1. g \in Data(manifest) /\ e \in wal_data
        BY <1>1, <3>1, InData
      <4>2. CASE g \in wal_data
        BY <1>1, <3>1, <4>2 DEF NewestOf
      <4>3. CASE g.seq < e.seq
        BY <2>0, <4>1, <4>3
      <4> QED BY <2>4, <4>1, <4>2, <4>3
    <3>2. ASSUME NEW u \in manifest, max_seq(t) <= max_seq(u), NEW e \in t.data, NEW g \in u.data,
                 g.key = e.key
          PROVE  e.seq <= g.seq
      <4>1. z.seq <= max_seq(t) /\ max_seq(t) \in Nat
        BY <1>1, <1>5, <2>b, MaxSeq
      <4>2. max_seq(u) \in Nat /\ \E y \in u.data : y.seq = max_seq(u)
        BY <2>b, <3>2, MaxSeq
      <4>3. PICK y \in u.data : y.seq >= z.seq
        BY <1>5, <2>0, <3>2, <4>1, <4>2
      <4> QED BY <1>1, <2>5, <3>2, <4>3
    <3>3. \A e, g \in t.data : g.key = e.key => g.seq <= e.seq
      BY <1>1 DEF NewestOf
    <3>4. Ordered(manifest)
      BY DEF OrderlyInv, DiskInv
    <3> SUFFICES ASSUME NEW s \in manifest \cup {t}, NEW u \in manifest \cup {t}, max_seq(u) <= max_seq(s),
                        NEW e \in s.data, NEW g \in u.data, g.key = e.key
                 PROVE  g.seq <= e.seq
      BY <1>0 DEF Ordered, Without
    <3> QED BY <3>1, <3>2, <3>3, <3>4 DEF Ordered
  <2>7. FlushedWhole(manifest)'
    <3>1. \A y \in Data(manifest'), e \in wal_data : y \in wal_data \/ y.seq < e.seq
      BY <2>1, <2>4
    <3>2. ASSUME NEW u \in manifest'
          PROVE /\ u.data \cap wal_data # {} =>
                      \A g \in u.data, e \in wal_data : e.key = g.key => e.seq <= g.seq
                /\ u.id[1] # -1 =>
                      /\ \E y \in u.data : y.seq + 1 = u.id[1]
                      /\ u.data \subseteq wal_data \/ u.data \cap wal_data = {}
      <4>1. CASE u \in manifest
        BY <4>1 DEF OrderlyInv, DiskInv, FlushedWhole
      <4>2. CASE u = t
        BY <4>2, <1>1, <1>5 DEF NewestOf
      <4> QED BY <1>0, <3>2, <4>1, <4>2 DEF Without
    <3> QED BY <1>0, <3>1, <3>2 DEF FlushedWhole
  <2>8. wal_data \cup Data(manifest') = wal_data \cup Data(manifest)
    <3>1. ASSUME NEW u \in manifest, u.id = t.id PROVE u.data \subseteq wal_data
      <4>1. u.id[1] # -1
        BY <1>1, <3>1
      <4>2. PICK y \in u.data : y.seq + 1 = next_seq_no
        BY <1>1, <3>1, <4>1 DEF OrderlyInv, DiskInv, FlushedWhole
      <4>3. y \in Data(manifest)
        BY <3>1, <4>2, InData
      <4>4. y.seq >= z.seq
        BY <1>5, <2>0, <4>2, <4>3
      <4>5. u.data \cap wal_data # {}
        BY <2>5, <3>1, <4>2, <4>4
      <4> QED BY <3>1, <4>1, <4>5 DEF OrderlyInv, DiskInv, FlushedWhole
    <3>2. ASSUME NEW e \in Data(manifest) PROVE e \in wal_data \cup Data(manifest')
      <4>1. PICK u \in manifest : e \in u.data
        BY <3>2, InData
      <4>2. u.id # t.id => u \in manifest'
        BY <1>0, <4>1 DEF Without
      <4> QED BY <3>1, <4>1, <4>2, InData
    <3> QED BY <2>1, <3>2
  <2>9. \A k \in Keys : HasValue((wal_data' \ Pending') \cup Data(manifest'), k, committed[k])
    <3>1. wal_data' \ Pending' = wal_data /\ wal_data \ Pending = wal_data
      BY <1>0, <1>1, <1>3
    <3> QED BY <2>8, <3>1 DEF OrderlyInv, DiskInv
  <2>10. ~(Flushing({"unlink"})' \/ phase' = "cleanup")
    BY <1>0, <1>1, <1>3, <1>x
  <2> QED BY <1>0, <2>3, <2>6, <2>7, <2>9, <2>10 DEF OrderlyInv, DiskInv
<1>7. ManifestInv'
  <2>1. manifest = Compacted /\ Compacted' = Compacted
    BY <1>0, <1>1, <1>t DEF OrderlyInv, ManifestInv, Compacted
  <2>2. Flushing({"publish"})' /\ Flushed'.table = t
    BY <1>3, <1>x
  <2> QED BY <1>0, <2>1, <2>2 DEF ManifestInv, Without
<1>8. MemoryInv'
  BY <1>0, <1>t, <1>x, <1>1, <1>3, <1>4 DEF OrderlyInv, MemoryInv
<1>9. TasksInv'
  BY <1>0, <1>t, <1>x, <1>1, <1>3 DEF OrderlyInv, TasksInv
<1>10. CompactionInv' /\ TablesInv' /\ ReaderInv'
  BY <1>0, <1>t, <1>1, <1>3, <1>4, CompactionFrame, TablesFrame, ReaderFrame DEF OrderlyInv
<1> QED BY <1>6, <1>7, <1>8, <1>9, <1>10 DEF OrderlyInv

(* Without the log, the tables still have the newest version of each key. *)
LEMMA LogRedundant ==
    ASSUME NEW X, NEW D, NewestOf(X) \subseteq D, NEW k, NEW v, HasValue(X \cup D, k, v)
    PROVE  HasValue(D, k, v)
<1>1. ASSUME NEW e \in NewestOf(X \cup D) PROVE e \in D
  BY DEF NewestOf
<1>2. D \in SUBSET (X \cup D)
  OBVIOUS
<1> QED BY <1>1, <1>2, HasValueSub

(* It opens its table and drops the memtables that the table holds. *)
LEMMA PublishOrderly ==
    ASSUME LsmInv, OrderlyInv, NEW f \in {"commit", "startup"}, FlushPublish(f)
    PROVE  OrderlyInv'
<1> DEFINE t == flush[f].table
<1>t. f \in Flushers /\ flush[f].pc = "publish"
  BY DEF Flushers, FlushPublish
<1>1. /\ Flushed = flush[f] /\ Pending = {} /\ phase \in {"starting", "up"}
      /\ \A pcs : "idle" \notin pcs => (Flushing(pcs) <=> flush[f].pc \in pcs)
      /\ t.data = NewestOf(wal_data) /\ t.data \subseteq wal_data
      /\ t.id[1] = next_seq_no /\ next_seq_no \in Nat /\ commit.pc # "append"
      /\ memtable = {} /\ immutable_memtables = {wal_data} /\ InMemory = wal_data
      /\ flush[f].to_flush = {wal_data}
      /\ \A e \in wal_data : e.seq < next_seq_no /\ e.log \in Doomed
      /\ \E x \in t.data : x.seq + 1 = next_seq_no /\ x \in wal_data
  BY <1>t, FlushTable
<1>u. phase = "up" <=> f = "commit"
  BY <1>t, FlushAlone DEF LsmInv
<1> DEFINE x == [flush[f] EXCEPT !.pc = "unlink"]
<1>0. /\ sstables' = Without(sstables, t.id) \cup {t} /\ flush' = [flush EXCEPT ![f] = x]
      /\ last_committed_tx' = MaxOr0({last_committed_tx} \cup {e.tx : e \in t.data})
      /\ immutable_memtables' = {}
      /\ UNCHANGED <<phase, next_seq_no, memtable, wal, manifest, commit, compaction, old_wals,
                     wal_data, reader, committed>>
  BY <1>1 DEF FlushPublish, StillFrozen
<1>x. x.pc = "unlink" /\ x.old_wal = flush[f].old_wal
  <2>1. flush[f] \in [pc : {"write", "publish", "unlink"}, to_flush : SUBSET SUBSET Entry,
                      old_wal : SUBSET Wals, table : Tables(Entry, TableId)]
    BY <1>t, FlushForms DEF LsmInv, TypeOK, DataIn, Tables
  <2> QED BY <2>1
<1> HIDE DEF x
<1>3. /\ Pending' = {} /\ flush'["caller"] = flush["caller"]
      /\ \A pcs : "idle" \notin pcs => (Flushing(pcs)' <=> x.pc \in pcs)
  BY <1>0, <1>t, <1>x, FlushMoves
<1>4. InMemory' = {} /\ Doomed' = Doomed
  <2>1. flush'[f] = x /\ \A g \in Flushers \ {f} : flush'[g] = flush[g]
    BY <1>0, Types DEF Flushers
  <2>3. Dooms(f)' = Dooms(f)
    BY <1>t, <2>1, <1>x DEF Dooms
  <2>4. \A g \in Flushers : Dooms(g)' = Dooms(g)
    BY <2>1, <2>3 DEF Dooms
  <2> QED BY <1>0, <1>1, <2>4, DoomedMember DEF InMemory, Doomed, Dooms
<1>5. Data(sstables') \subseteq wal_data \cup Data(sstables)
  BY <1>0, <1>1 DEF Data, Without
<1>6. manifest = Without(Compacted, t.id) \cup {t}
  BY <1>t, <1>1 DEF OrderlyInv, ManifestInv
<1>7. phase = "up" =>
         /\ sstables' = sstables \cup {t} /\ Without(Compacted, t.id) = Compacted
         /\ \A e \in t.data, y \in Data(sstables) : y.seq < e.seq
         /\ \A e \in wal_data, y \in Data(sstables) : y.seq < e.seq
         /\ \A u \in sstables : u.id # t.id /\ max_seq(u) < max_seq(t) /\ max_seq(u) \in Nat
         /\ max_seq(t) \in Nat
  <2> SUFFICES ASSUME phase = "up"
               PROVE  /\ sstables' = sstables \cup {t} /\ Without(Compacted, t.id) = Compacted
                      /\ \A e \in t.data, y \in Data(sstables) : y.seq < e.seq
                      /\ \A e \in wal_data, y \in Data(sstables) : y.seq < e.seq
                      /\ \A u \in sstables : u.id # t.id /\ max_seq(u) < max_seq(t) /\ max_seq(u) \in Nat
                      /\ max_seq(t) \in Nat
    OBVIOUS
  <2>1. /\ Without(Compacted, t.id) = Compacted /\ ~Flushing({"unlink"})
        /\ \A e \in t.data, y \in Data(sstables) : y.seq < e.seq
        /\ \A u \in sstables : u.id # t.id /\ max_seq(u) < max_seq(t)
        /\ \A u \in sstables : max_seq(u) \in Nat
        /\ max_seq(t) \in Nat
    BY <1>t, <1>u, CommitTable
  <2>2. \A e \in wal_data, y \in Data(sstables) : y.seq < e.seq
    BY <2>1 DEF OrderlyInv, TablesInv
  <2> QED BY <1>0, <2>1, <2>2 DEF Without
<1>8. DiskInv'
  <2>1. \A e, g \in wal_data \cup Data(manifest \cup sstables') : e.seq = g.seq => e = g
    <3>1. \A e \in wal_data \cup Data(manifest \cup sstables') : e \in wal_data \cup Data(manifest \cup sstables)
      BY <1>5 DEF Data
    <3> QED BY <3>1 DEF OrderlyInv, DiskInv
  <2>2. \A k \in Keys : HasValue(wal_data \cup Data(manifest), k, committed[k])
    <3>1. wal_data \ Pending = wal_data
      BY <1>1
    <3> QED BY <3>1 DEF OrderlyInv, DiskInv
  <2>3. NewestOf(wal_data) \subseteq Data(manifest)
    BY <1>1, <1>6, InData
  <2>4. \A k \in Keys : HasValue(Data(manifest), k, committed[k])
    BY <2>2, <2>3, LogRedundant
  <2>5. FlushedWhole(manifest)'
    BY <1>0 DEF OrderlyInv, DiskInv, FlushedWhole
  <2>6. wal_data' \ Pending' = wal_data
    BY <1>0, <1>3
  <2> QED BY <1>0, <2>1, <2>2, <2>4, <2>5, <2>6 DEF OrderlyInv, DiskInv
<1>9. MemoryInv'
  <2>1. \A e \in wal_data \cup Data(sstables') : e.seq < next_seq_no
    BY <1>1, <1>5 DEF OrderlyInv, MemoryInv
  <2>2. \A e \in Data(sstables') : e.tx <= last_committed_tx'
    <3> DEFINE S == {last_committed_tx} \cup {e.tx : e \in t.data}
    <3>1. PICK b \in Nat : wal_data \subseteq Ents(b)
      BY DataBound
    <3>2. PICK c \in Nat : S \subseteq Nat /\ \A n \in S : n <= c
      <4>1. \A e \in t.data : e.tx \in Nat /\ e.tx <= b
        BY <1>1, <3>1 DEF Ents, Entry
      <4>2. S \subseteq Nat /\ \A n \in S : n <= b + last_committed_tx
        BY <4>1, Types
      <4> QED BY <4>2, Types
    <3>3. \A n \in S : n <= MaxOr0(S)
      <4> HIDE DEF S
      <4> QED BY <3>2, MaxBounded
    <3>4. MaxOr0(S) \in Nat
      <4> HIDE DEF S
      <4> QED BY <3>2, MaxBounded
    <3>5. \A e \in wal_data \cup Data(sstables) : e.tx <= last_committed_tx /\ e.tx \in Nat
      BY <1>1, Types DEF OrderlyInv, MemoryInv
    <3>6. last_committed_tx <= last_committed_tx' /\ last_committed_tx' \in Nat
      BY <1>0, <3>3, <3>4
    <3>7. \A e \in wal_data \cup Data(sstables) : e.tx <= last_committed_tx'
      BY <3>5, <3>6, Types
    <3> QED BY <1>5, <3>7
  <2>3. memtable' = {} /\ immutable_memtables' = {}
    BY <1>0, <1>1
  <2>4. /\ ~Flushing({"create", "write", "publish"})' /\ Flushing({"unlink"})'
        /\ Flushing({"create", "write", "publish", "unlink"})'
    BY <1>3, <1>x
  <2>5. \A e \in wal_data' : e.log \in Doomed'
    BY <1>0, <1>1, <1>4
  <2>6. MemoryInv /\ phase # "down"
    BY <1>1 DEF OrderlyInv
  <2> QED BY <1>0, <1>4, <2>1, <2>2, <2>3, <2>4, <2>5, <2>6 DEF MemoryInv
<1>10. TasksInv'
  BY <1>0, <1>x, <1>1, <1>3 DEF OrderlyInv, TasksInv
<1>11. ManifestInv'
  <2>1. Compacted' = manifest
    <3>1. CASE compaction.pc = "swap"
      <4>1. phase = "up"
        BY <3>1 DEF LsmInv, PhaseInv
      <4>2. t \notin compaction.inputs
        BY <1>t, <1>u, <3>1, <4>1, TableBeside
      <4>3. Compacted' = ((sstables \cup {t}) \ compaction.inputs) \cup {compaction.table}
        BY <1>0, <1>7, <3>1, <4>1 DEF Compacted
      <4>4. Compacted = (sstables \ compaction.inputs) \cup {compaction.table}
        BY <3>1 DEF Compacted
      <4>5. manifest = Compacted \cup {t}
        BY <1>6, <1>7, <4>1
      <4> QED BY <4>2, <4>3, <4>4, <4>5
    <3>2. CASE compaction.pc # "swap"
      BY <1>0, <1>6, <3>2 DEF Compacted
    <3> QED BY <3>1, <3>2
  <2> QED BY <1>0, <1>3, <1>x, <2>1 DEF ManifestInv
<1>12. CompactionInv'
  <2>1. CASE compaction.pc \in {"replace", "swap"}
    <3>1. phase = "up"
      BY <2>1 DEF LsmInv, PhaseInv
    <3>2. IsMerge(sstables \cup {t}, compaction.inputs, compaction.table)
      BY <1>t, <1>u, <2>1, <3>1, TableBeside
    <3>3. compaction.table.id[1] = -1 /\ compaction.pc # "rollover"
      BY <2>1, CompactTable
    <3> QED BY <1>0, <1>7, <3>1, <3>2, <3>3 DEF CompactionInv, IsMerge
  <2>2. CASE compaction.pc \notin {"replace", "swap"}
    BY <1>0, <2>2 DEF OrderlyInv, CompactionInv
  <2> QED BY <2>1, <2>2
<1>13. TablesInv'
  <2> SUFFICES ASSUME phase = "up" PROVE TablesInv'
    BY <1>0 DEF TablesInv
  <2>0. /\ sstables' = sstables \cup {t}
        /\ \A e \in wal_data, y \in Data(sstables) : y.seq < e.seq
        /\ \A u \in sstables : u.id # t.id /\ max_seq(u) < max_seq(t) /\ max_seq(u) \in Nat
        /\ max_seq(t) \in Nat /\ TablesInv
    BY <1>7 DEF OrderlyInv
  <2>1. Ordered(sstables')
    <3>1. \A u \in sstables : ~(max_seq(t) <= max_seq(u))
      BY <2>0
    <3>2. ASSUME NEW u \in sstables, NEW e \in t.data, NEW g \in u.data PROVE g.seq <= e.seq
      <4>1. e \in wal_data /\ g \in Data(sstables)
        BY <1>1, <3>2, InData
      <4>2. g.seq < e.seq /\ g.seq \in Nat /\ e.seq \in Nat
        BY <2>0, <4>1, Types
      <4> QED BY <4>2
    <3>3. \A e, g \in t.data : g.key = e.key => g.seq <= e.seq
      BY <1>1 DEF NewestOf
    <3>4. Ordered(sstables)
      BY <2>0 DEF TablesInv
    <3> SUFFICES ASSUME NEW s \in sstables \cup {t}, NEW u \in sstables \cup {t}, max_seq(u) <= max_seq(s),
                        NEW e \in s.data, NEW g \in u.data, g.key = e.key
                 PROVE  g.seq <= e.seq
      BY <2>0 DEF Ordered
    <3> QED BY <3>1, <3>2, <3>3, <3>4 DEF Ordered
  <2>2. \A u \in sstables : u.data \cap wal_data = {}
    <3> SUFFICES ASSUME NEW u \in sstables, NEW y \in u.data, y \in wal_data PROVE FALSE
      OBVIOUS
    <3>1. y.seq < y.seq /\ y.seq \in Nat
      BY <2>0, InData, Types
    <3> QED BY <3>1
  <2>3. FlushedWhole(sstables)'
    <3>1. \A y \in Data(sstables'), e \in wal_data : y \in wal_data \/ y.seq < e.seq
      BY <1>5, <2>0
    <3>2. ASSUME NEW u \in sstables'
          PROVE /\ u.data \cap wal_data # {} =>
                      \A g \in u.data, e \in wal_data : e.key = g.key => e.seq <= g.seq
                /\ u.id[1] # -1 =>
                      /\ \E y \in u.data : y.seq + 1 = u.id[1]
                      /\ u.data \subseteq wal_data \/ u.data \cap wal_data = {}
      <4>1. CASE u \in sstables
        BY <4>1, <2>0 DEF TablesInv, FlushedWhole
      <4>2. CASE u = t
        BY <4>2, <1>1 DEF NewestOf
      <4> QED BY <2>0, <3>2, <4>1, <4>2
    <3> QED BY <1>0, <3>1, <3>2 DEF FlushedWhole
  <2>4. \A s, u \in sstables' : s.data \cap wal_data # {} /\ u.data \cap wal_data # {} => s = u
    BY <2>0, <2>2
  <2>5. \A e \in wal_data : \E g \in t.data : g.key = e.key
    <3>1. PICK b \in Nat : wal_data \in SUBSET Ents(b)
      BY DataBound
    <3> QED BY <1>1, <3>1, NewestExists
  <2>6. \A k \in Keys : HasValue(Data(sstables'), k, committed[k])
    <3>1. NewestOf(wal_data) \subseteq Data(sstables')
      BY <1>1, <2>0, InData
    <3>2. wal_data \cup Data(sstables') = wal_data \cup Data(sstables)
      BY <1>1, <2>0 DEF Data
    <3>3. \A k \in Keys : HasValue(wal_data \cup Data(sstables), k, committed[k])
      BY <1>1, <2>0 DEF TablesInv
    <3> QED BY <3>1, <3>2, <3>3, LogRedundant
  <2>7. InMemory' \cup Data(sstables') = Data(sstables')
    BY <1>4
  <2>8. Flushing({"unlink"})'
    BY <1>3, <1>x
  <2> QED BY <1>0, <2>0, <2>1, <2>2, <2>3, <2>4, <2>5, <2>6, <2>7, <2>8 DEF TablesInv
<1>14. ReaderInv'
  BY <1>0, <1>1, <1>4, <1>5, ReaderFrame DEF OrderlyInv
<1> QED BY <1>8, <1>9, <1>10, <1>11, <1>12, <1>13, <1>14 DEF OrderlyInv

-----------------------------------------------------------------------------
(* Logs that are removed, crashes, recovery.                                *)

(* When the tables have the value of every key, the log may go: all of it, for it is in one file. *)
LEMMA UnlinkDisk ==
    ASSUME DiskInv, Flushing({"unlink"}) \/ phase = "cleanup", Pending' = {}, Pending = {},
           UNCHANGED <<manifest, sstables, committed>>, wal_data' = wal_data \/ wal_data' = {}
    PROVE  DiskInv'
<1>1. FlushedWhole(manifest)'
  BY DEF DiskInv, FlushedWhole
<1>2. \A k \in Keys : HasValue((wal_data' \ Pending') \cup Data(manifest), k, committed[k])
  <2>1. CASE wal_data' = wal_data
    BY <2>1 DEF DiskInv
  <2>2. CASE wal_data' = {}
    <3>1. (wal_data' \ Pending') \cup Data(manifest) = Data(manifest)
      BY <2>2
    <3> QED BY <3>1 DEF DiskInv
  <2> QED BY <2>1, <2>2
<1>3. wal_data' \subseteq wal_data
  OBVIOUS
<1> QED BY <1>1, <1>2, <1>3 DEF DiskInv

(* It removes the logs that the table holds. *)
LEMMA UnlinkOrderly ==
    ASSUME Orderly, LsmInv, OrderlyInv, NEW f \in {"commit", "startup"}, FlushUnlink(f)
    PROVE  OrderlyInv'
<1> DEFINE D == flush[f].old_wal
<1>t. f \in Flushers /\ flush[f].pc = "unlink"
  BY DEF Flushers, FlushUnlink
<1>1. /\ \A g \in {"commit", "startup"} \ {f} : flush[g].pc = "idle"
      /\ Pending = {} /\ phase \in {"starting", "up"} /\ (phase = "up" <=> f = "commit")
      /\ commit.pc \in {"idle", "flush"} /\ (f = "commit" => commit.pc = "flush")
      /\ \A pcs : "idle" \notin pcs => (Flushing(pcs) <=> flush[f].pc \in pcs)
      /\ f = "startup" => commit.pc = "idle"
  BY <1>t, FlushAlone DEF LsmInv, PhaseInv
<1>0. /\ wal_data' = {e \in wal_data : e.log \notin D}
      /\ flush' = [flush EXCEPT ![f] = IdleFlush] /\ commit'.pc = "idle"
      /\ phase' = IF f = "startup" THEN "cleanup" ELSE "up"
      /\ UNCHANGED <<next_seq_no, last_committed_tx, memtable, immutable_memtables, wal, sstables,
                     compaction, old_wals, manifest, reader, committed>>
  BY <1>1 DEF FlushUnlink, Unlink, Return, Orderly, IdleCommit
<1>2. flush["caller"].pc = "idle" /\ \A g \in Flushers : flush'[g].pc = "idle"
  <2>1. flush["caller"].pc = "idle"
    BY DEF OrderlyInv, TasksInv
  <2> QED BY <1>0, <1>1, <2>1, Types DEF Flushers, IdleFlush
<1>3. Pending' = {} /\ InMemory' = InMemory /\ \A pcs : "idle" \notin pcs => ~Flushing(pcs)'
  BY <1>0, <1>2 DEF Pending, InMemory, Flushing, Flushers
<1>4. Doomed = old_wals \cup D /\ Doomed' = old_wals
  <2>1. Dooms(f) = D /\ \A g \in Flushers \ {f} : Dooms(g) = {}
    BY <1>t, <1>1, <1>2 DEF Dooms, Flushers
  <2>2. \A g \in Flushers : Dooms(g)' = {}
    BY <1>2 DEF Dooms
  <2>3. \A w : w \in Doomed' <=> w \in old_wals' \/ \E g \in Flushers : w \in Dooms(g)'
    BY DEF Doomed, Dooms
  <2> QED BY <1>0, <1>t, <2>1, <2>2, <2>3, DoomedMember
<1>5. /\ memtable = {} /\ immutable_memtables = {} /\ (\A e \in wal_data : e.log \in Doomed)
      /\ phase = "up" => old_wals = {}
  BY <1>t, <1>1 DEF OrderlyInv, MemoryInv
<1>6. wal_data' = wal_data \/ wal_data' = {}
  BY <1>0 DEF OrderlyInv, DiskInv
<1>7. phase = "up" => wal_data' = {}
  BY <1>0, <1>4, <1>5
<1>8. DiskInv'
  BY <1>0, <1>t, <1>1, <1>3, <1>6, UnlinkDisk DEF OrderlyInv
<1>9. MemoryInv'
  <2>1. \A e \in wal_data' : e.log \in Doomed'
    BY <1>0, <1>4, <1>5
  <2>2. wal_data' \subseteq wal_data
    BY <1>0
  <2>3. phase' = "up" => wal_data' = {}
    BY <1>0, <1>1, <1>7
  <2>4. /\ ~Flushing({"create", "write", "publish"})' /\ ~Flushing({"unlink"})'
        /\ ~Flushing({"create", "write", "publish", "unlink"})'
    BY <1>3
  <2>5. phase' \in {"cleanup", "up"} /\ phase # "down" /\ (phase' = "up" => phase = "up")
    BY <1>0, <1>1
  <2> QED BY <1>0, <1>3, <1>5, <2>1, <2>2, <2>3, <2>4, <2>5 DEF OrderlyInv, MemoryInv
<1>10. TasksInv'
  BY <1>0, <1>2, <1>3 DEF TasksInv
<1>11. ManifestInv'
  BY <1>0, <1>t, <1>1, <1>3, ManifestApart DEF OrderlyInv
<1>12. TablesInv'
  <2> SUFFICES ASSUME phase' = "up" PROVE TablesInv'
    BY DEF TablesInv
  <2>1. phase = "up" /\ wal_data' = {}
    BY <1>0, <1>1, <1>7
  <2>2. FlushedWhole(sstables)'
    BY <1>0, <2>1 DEF OrderlyInv, TablesInv, FlushedWhole
  <2> QED BY <1>0, <1>3, <2>1, <2>2 DEF OrderlyInv, TablesInv
<1>13. CompactionInv' /\ ReaderInv'
  BY <1>0, <1>3, CompactionFrame, ReaderFrame DEF OrderlyInv
<1> QED BY <1>8, <1>9, <1>10, <1>11, <1>12, <1>13 DEF OrderlyInv

(* A crash keeps what is on disk, the transaction that is only in the log included. *)
LEMMA CrashOrderly ==
    ASSUME LsmInv, OrderlyInv, Crash
    PROVE  OrderlyInv'
<1>0. /\ phase # "down" /\ phase' = "down" /\ sstables' = {} /\ commit' = IdleCommit
      /\ flush' = [f \in Flushers |-> IdleFlush] /\ compaction' = NoMerge
      /\ reader' = [r \in Readers |-> IdleReader] /\ UNCHANGED <<wal_data, manifest>>
      /\ committed' = [k \in Keys |->
            IF commit.pc = "apply" /\ commit.entry.key = k /\ commit.entry \in wal_data
            THEN Value(commit.entry) ELSE committed[k]]
  <2>1. ProcessEnds
    BY DEF Crash
  <2> QED BY <2>1 DEF Crash, ProcessEnds
<1>1. Pending' = {} /\ \A pcs : "idle" \notin pcs => ~Flushing(pcs)'
  BY <1>0 DEF Pending, Flushing, IdleCommit, IdleFlush, Flushers
<1>2. \A k \in Keys : HasValue(wal_data \cup Data(manifest), k, committed'[k])
  <2>0. \A k \in Keys : HasValue((wal_data \ Pending) \cup Data(manifest), k, committed[k])
    BY DEF OrderlyInv, DiskInv
  <2>1. CASE commit.pc = "apply"
    <3> DEFINE x == commit.entry
    <3>1. /\ x \in wal_data /\ Pending = {x} /\ Data(manifest) \in SUBSET Data(sstables)
          /\ \A D \in SUBSET Data(sstables), k \in Keys :
                HasValue((wal_data \ {x}) \cup D, k, committed[k])
                   => HasValue(wal_data \cup D, k, IF x.key = k THEN Value(x) ELSE committed[k])
      BY <2>1, PendingTop
    <3>2. \A k \in Keys : committed'[k] = IF x.key = k THEN Value(x) ELSE committed[k]
      BY <1>0, <2>1, <3>1
    <3>3. \A k \in Keys :
             HasValue(wal_data \cup Data(manifest), k, IF x.key = k THEN Value(x) ELSE committed[k])
      BY <2>0, <3>1
    <3> QED BY <3>2, <3>3
  <2>2. CASE commit.pc # "apply"
    <3>1. wal_data \ Pending = wal_data
      BY <2>2 DEF Pending
    <3>2. \A k \in Keys : committed'[k] = committed[k]
      BY <1>0, <2>2
    <3> QED BY <2>0, <3>1, <3>2
  <2> QED BY <2>1, <2>2
<1>3. DiskInv'
  <2>1. FlushedWhole(manifest)'
    BY <1>0 DEF OrderlyInv, DiskInv, FlushedWhole
  <2>2. \A e, f \in wal_data \cup Data(manifest \cup {}) : e.seq = f.seq => e = f
    <3>1. Data(manifest \cup {}) \subseteq Data(manifest \cup sstables)
      BY DEF Data
    <3> QED BY <3>1 DEF OrderlyInv, DiskInv
  <2>3. wal_data' \ Pending' = wal_data
    BY <1>0, <1>1
  <2> QED BY <1>0, <1>1, <1>2, <2>1, <2>2, <2>3 DEF OrderlyInv, DiskInv
<1>4. TasksInv'
  BY <1>0, <1>1 DEF TasksInv, IdleCommit, IdleFlush, Flushers
<1> QED BY <1>0, <1>3, <1>4 DEF OrderlyInv, MemoryInv, ManifestInv, CompactionInv, TablesInv, ReaderInv,
           NoMerge, IdleReader

(* While the process is down, or new() has not yet started it, nothing runs. *)
LEMMA NothingRuns ==
    ASSUME LsmInv, OrderlyInv, phase \in {"down", "cleanup"}
    PROVE  /\ commit.pc = "idle" /\ Pending = {} /\ compaction.pc = "idle" /\ Compacted = sstables
           /\ \A f \in Flushers : flush[f].pc = "idle"
           /\ \A r \in Readers : reader[r].pc = "idle"
           /\ \A pcs : "idle" \notin pcs => ~Flushing(pcs)
           /\ Doomed = old_wals
<1>1. /\ commit.pc = "idle" /\ compaction.pc = "idle" /\ \A r \in Readers : reader[r].pc = "idle"
      /\ \A f \in Flushers : flush[f].pc = "idle"
  BY DEF LsmInv, PhaseInv, Flushers
<1>2. \A pcs : "idle" \notin pcs => ~Flushing(pcs)
  BY <1>1 DEF Flushing, Flushers
<1>3. Doomed = old_wals
  BY <1>1 DEF Doomed
<1> QED BY <1>1, <1>2, <1>3 DEF Pending, Compacted

(* The numbers that new() recovers are above what is stored. *)
LEMMA RecoveredNumbers ==
    ASSUME LsmInv
    PROVE  /\ RecoveredSeqNo \in Nat /\ RecoveredSeqNo > 0
           /\ \A e \in wal_data \cup Data(manifest) :
                 e.seq < RecoveredSeqNo /\ e.tx <= MaxOr0({d.tx : d \in Recovered})
           /\ wal_data # {} => \E x \in wal_data \cup Data(manifest) : x.seq + 1 = RecoveredSeqNo
<1>0. Recovered = wal_data \cup Data(manifest)
  BY DEF Recovered, Data
<1>1. PICK b \in Nat : wal_data \subseteq Ents(b) /\ \A t \in manifest : t.data \subseteq Ents(b)
  BY DataBound
<1>2. Recovered \in SUBSET Ents(b)
  BY <1>0, <1>1, InData
<1> DEFINE S == Seqs(Recovered)
           T == {d.tx : d \in Recovered}
<1>3. S \subseteq Nat /\ (\A n \in S : n <= b) /\ \A e \in Recovered : e.seq \in S
  BY <1>2 DEF Seqs, Ents, Entry
<1>4. T \subseteq Nat /\ (\A n \in T : n <= b) /\ \A e \in Recovered : e.tx \in T
  BY <1>2 DEF Ents, Entry
<1>5. \A s \in S : \E e \in Recovered : s = e.seq
  BY DEF Seqs
<1>6. RecoveredSeqNo = MaxOr0(S) + 1
  BY DEF RecoveredSeqNo
<1> HIDE DEF S, T
<1>7. MaxOr0(S) \in Nat /\ (\A n \in S : n <= MaxOr0(S)) /\ (S # {} => MaxOr0(S) \in S)
  BY <1>3, MaxBounded
<1>8. \A n \in T : n <= MaxOr0(T)
  BY <1>4, MaxBounded
<1>9. \A e \in Recovered : e.seq < RecoveredSeqNo
  <2>1. \A n \in S : n < MaxOr0(S) + 1
    BY <1>3, <1>7
  <2> QED BY <1>3, <1>6, <2>1
<1>10. wal_data # {} => \E x \in Recovered : x.seq + 1 = RecoveredSeqNo
  BY <1>0, <1>3, <1>5, <1>6, <1>7
<1> QED BY <1>0, <1>4, <1>6, <1>7, <1>8, <1>9, <1>10 DEF T

(* A log that is not empty has the newest sequence number of all. *)
LEMMA RecoveredTop ==
    ASSUME LsmInv, OrderlyInv, wal_data # {}
    PROVE  \E x \in wal_data : x.seq + 1 = RecoveredSeqNo
<1>1. PICK w \in wal_data : TRUE
  OBVIOUS
<1>2. PICK e \in wal_data \cup Data(manifest) : e.seq + 1 = RecoveredSeqNo
  BY RecoveredNumbers
<1>3. w.seq < RecoveredSeqNo
  BY RecoveredNumbers
<1>4. w.seq \in Nat /\ e.seq \in Nat /\ w.seq <= e.seq
  BY <1>2, <1>3, Types
<1>5. e \in wal_data \/ e.seq < w.seq
  BY DEF OrderlyInv, DiskInv, FlushedWhole
<1> QED BY <1>2, <1>4, <1>5

(* new() replays the logs over the tables of the MANIFEST. *)
LEMMA ReplayOrderly ==
    ASSUME LsmInv, OrderlyInv, Replay
    PROVE  OrderlyInv'
<1>0. /\ phase = "down" /\ memtable' = wal_data /\ immutable_memtables' = {} /\ sstables' = manifest
      /\ wal' = ActiveLog /\ old_wals' = wal_files \ {ActiveLog}
      /\ next_seq_no' = RecoveredSeqNo /\ last_committed_tx' = MaxOr0({e.tx : e \in Recovered})
      /\ phase' = AfterReplay
      /\ UNCHANGED <<commit, flush, compaction, wal_data, manifest, reader, committed>>
  BY DEF Replay, ReplayedLogs
<1>1. /\ commit.pc = "idle" /\ Pending = {} /\ compaction.pc = "idle"
      /\ \A f \in Flushers : flush[f].pc = "idle"
      /\ \A r \in Readers : reader[r].pc = "idle"
      /\ \A pcs : "idle" \notin pcs => ~Flushing(pcs)
  BY <1>0, NothingRuns
<1>2. Pending' = {} /\ InMemory' = wal_data /\ \A pcs : "idle" \notin pcs => ~Flushing(pcs)'
  BY <1>0, <1>1 DEF Pending, InMemory, Flushing
<1>3. Doomed' = wal_files \ {ActiveLog}
  BY <1>0, <1>1 DEF Doomed
<1>4. \/ phase' = "starting" /\ wal_data # {}
      \/ phase' = "cleanup" /\ wal_data = {}
  BY <1>0 DEF AfterReplay
<1>5. \A e \in wal_data : e.log = wal' \/ e.log \in Doomed'
  BY <1>0, <1>3 DEF LsmInv, LogInv
<1>6. DiskInv'
  <2>1. FlushedWhole(manifest)'
    BY <1>0 DEF OrderlyInv, DiskInv, FlushedWhole
  <2>2. \A e, f \in wal_data \cup Data(manifest \cup manifest) : e.seq = f.seq => e = f
    <3>1. Data(manifest \cup manifest) \subseteq Data(manifest \cup sstables)
      BY DEF Data
    <3> QED BY <3>1 DEF OrderlyInv, DiskInv
  <2>3. wal_data' \ Pending' = wal_data \ Pending
    BY <1>0, <1>1, <1>2
  <2>4. \A k \in Keys : HasValue((wal_data \ Pending) \cup Data(manifest), k, committed[k])
    BY DEF OrderlyInv, DiskInv
  <2>5. phase' = "cleanup" => (wal_data \ Pending) \cup Data(manifest) = Data(manifest)
    BY <1>4
  <2>6. \A k \in Keys : HasValue((wal_data' \ Pending') \cup Data(manifest'), k, committed'[k])
    BY <1>0, <2>3, <2>4
  <2>7. Flushing({"unlink"})' \/ phase' = "cleanup" =>
           \A k \in Keys : HasValue(Data(manifest'), k, committed'[k])
    BY <1>0, <1>2, <2>4, <2>5
  <2> QED BY <1>0, <2>1, <2>2, <2>6, <2>7 DEF OrderlyInv, DiskInv
<1>7. MemoryInv'
  <2>1. /\ next_seq_no' > 0
        /\ \A e \in wal_data \cup Data(manifest) : e.seq < next_seq_no' /\ e.tx <= last_committed_tx'
    BY <1>0, RecoveredNumbers
  <2>2. /\ ~Flushing({"create", "write", "publish"})' /\ ~Flushing({"unlink"})'
        /\ ~Flushing({"create", "write", "publish", "unlink"})'
    BY <1>2
  <2>3. wal_data' \ Pending' = wal_data /\ wal_data' = wal_data
    BY <1>0, <1>2
  <2> QED BY <1>0, <1>2, <1>4, <1>5, <2>1, <2>2, <2>3 DEF MemoryInv
<1>8. TasksInv'
  <2>1. wal_data # {} => \E x \in wal_data : x.seq + 1 = next_seq_no'
    BY <1>0, RecoveredTop
  <2> QED BY <1>0, <1>1, <1>2, <1>4, <2>1 DEF TasksInv, Flushers
<1>9. ManifestInv' /\ CompactionInv'
  BY <1>0, <1>1, <1>2 DEF ManifestInv, CompactionInv, Compacted
<1>10. TablesInv' /\ ReaderInv'
  BY <1>0, <1>1, <1>4 DEF TablesInv, ReaderInv
<1> QED BY <1>6, <1>7, <1>8, <1>9, <1>10 DEF OrderlyInv

(* new() removes the logs that its flush has written. *)
LEMMA RemoveOrderly ==
    ASSUME Orderly, LsmInv, OrderlyInv, RemoveOldWal
    PROVE  OrderlyInv'
<1>0. PICK w \in old_wals :
         /\ phase = "cleanup" /\ old_wals' = old_wals \ {w}
         /\ wal_data' = {e \in wal_data : e.log \notin {w}}
         /\ UNCHANGED <<phase, next_seq_no, last_committed_tx, memtable, immutable_memtables, wal,
                        sstables, commit, flush, compaction, manifest, reader, committed>>
  <2>2. old_wals \subseteq Wals /\ old_wals # {}
    BY DEF LsmInv, TypeOK, RemoveOldWal
  <2>3. \A v \in old_wals : Rank(v) \in Nat
    BY <2>2 DEF Rank, Wals, WAL_LOG
  <2>4. PICK m \in {Rank(v) : v \in old_wals} : \A n \in {Rank(v) : v \in old_wals} : m <= n
    BY <2>2, <2>3, LeastExists
  <2>5. \E v \in old_wals : \A x \in old_wals : Rank(v) <= Rank(x)
    BY <2>4
  <2> DEFINE u == CHOOSE v \in old_wals : \A x \in old_wals : Rank(v) <= Rank(x)
  <2>6. u \in old_wals
    BY <2>5
  <2> QED BY <2>6 DEF RemoveOldWal, Unlink, Orderly
<1>1. /\ commit.pc = "idle" /\ Pending = {} /\ Doomed = old_wals
      /\ \A f \in Flushers : flush[f].pc = "idle"
      /\ \A pcs : "idle" \notin pcs => ~Flushing(pcs)
  BY <1>0, NothingRuns
<1>2. /\ Pending' = Pending /\ InMemory' = InMemory /\ Doomed' = old_wals'
      /\ \A pcs : "idle" \notin pcs => ~Flushing(pcs)'
  BY <1>0, <1>1 DEF Pending, InMemory, Flushing, Doomed
<1>3. wal_data' = wal_data \/ wal_data' = {}
  BY <1>0 DEF OrderlyInv, DiskInv
<1>4. DiskInv'
  BY <1>0, <1>1, <1>2, <1>3, UnlinkDisk DEF OrderlyInv
<1>5. MemoryInv'
  <2>1. /\ memtable = {} /\ immutable_memtables = {} /\ \A e \in wal_data : e.log \in Doomed
    BY <1>0, <1>1 DEF OrderlyInv, MemoryInv
  <2>2. /\ ~Flushing({"create", "write", "publish"})' /\ ~Flushing({"unlink"})'
        /\ ~Flushing({"create", "write", "publish", "unlink"})'
    BY <1>2
  <2>3. \A e \in wal_data' : e.log \in Doomed'
    BY <1>0, <1>1, <1>2, <2>1
  <2>4. wal_data' \subseteq wal_data
    BY <1>0
  <2> QED BY <1>0, <1>2, <2>1, <2>2, <2>3, <2>4 DEF OrderlyInv, MemoryInv
<1>6. TasksInv'
  BY <1>0, <1>1, <1>2 DEF TasksInv, Flushers
<1>7. ManifestInv' /\ CompactionInv' /\ ReaderInv'
  BY <1>0, <1>2, ManifestFrame, CompactionFrame, ReaderFrame DEF OrderlyInv
<1>8. TablesInv'
  BY <1>0 DEF TablesInv
<1> QED BY <1>4, <1>5, <1>6, <1>7, <1>8 DEF OrderlyInv

(* When new() returns, no log has entries and the open tables are those of the MANIFEST. *)
LEMMA OpenedOrderly ==
    ASSUME LsmInv, OrderlyInv, Opened
    PROVE  OrderlyInv'
<1>0. /\ phase = "cleanup" /\ old_wals = {} /\ phase' = "up"
      /\ UNCHANGED <<next_seq_no, last_committed_tx, memtable, immutable_memtables, wal, sstables,
                     commit, flush, compaction, old_wals, wal_data, manifest, reader, committed>>
  BY DEF Opened
<1>1. /\ commit.pc = "idle" /\ Pending = {} /\ Doomed = old_wals /\ compaction.pc = "idle"
      /\ \A f \in Flushers : flush[f].pc = "idle"
      /\ \A r \in Readers : reader[r].pc = "idle"
      /\ \A pcs : "idle" \notin pcs => ~Flushing(pcs)
  BY <1>0, NothingRuns
<1>2. /\ Pending' = Pending /\ InMemory' = InMemory /\ Doomed' = Doomed
      /\ \A pcs : "idle" \notin pcs => ~Flushing(pcs)'
  BY <1>0, <1>1 DEF Pending, InMemory, Flushing, Doomed
<1>3. memtable = {} /\ immutable_memtables = {} /\ wal_data = {} /\ InMemory = {}
  BY <1>0, <1>1 DEF OrderlyInv, MemoryInv, InMemory
<1>4. sstables = manifest
  BY <1>0, <1>1 DEF OrderlyInv, ManifestInv, Compacted
<1>5. DiskInv'
  BY <1>0, <1>2, DiskFrame DEF OrderlyInv
<1>6. MemoryInv'
  <2>1. /\ ~Flushing({"create", "write", "publish"})' /\ ~Flushing({"unlink"})'
        /\ ~Flushing({"create", "write", "publish", "unlink"})'
    BY <1>2
  <2> QED BY <1>0, <1>2, <1>3, <2>1 DEF OrderlyInv, MemoryInv
<1>7. TasksInv'
  BY <1>0, <1>1, <1>2 DEF TasksInv, Flushers
<1>8. ManifestInv' /\ CompactionInv' /\ ReaderInv'
  BY <1>0, <1>1, <1>2, <1>4, CompactionFrame, ReaderFrame DEF OrderlyInv, ManifestInv, Compacted
<1>9. TablesInv'
  <2>1. Ordered(sstables) /\ FlushedWhole(sstables)
    BY <1>4 DEF OrderlyInv, DiskInv
  <2>2. FlushedWhole(sstables)'
    BY <1>0, <2>1 DEF FlushedWhole
  <2>3. InMemory' \cup Data(sstables) = Data(manifest)
    BY <1>2, <1>3, <1>4
  <2>4. \A k \in Keys : HasValue(Data(manifest), k, committed[k])
    BY <1>0 DEF OrderlyInv, DiskInv
  <2> QED BY <1>0, <1>3, <2>1, <2>2, <2>3, <2>4 DEF TablesInv
<1> QED BY <1>5, <1>6, <1>7, <1>8, <1>9 DEF OrderlyInv

-----------------------------------------------------------------------------
(* get().                                                                   *)

(* What the memtables hold is newer than the tables, unless the flush has just emptied them. *)
LEMMA MemoryNewer ==
    ASSUME LsmInv, OrderlyInv, phase = "up"
    PROVE  /\ \A x \in Data(sstables), e \in InMemory : x.seq < e.seq
           /\ \A e, f \in InMemory \cup Data(sstables) : e.seq = f.seq => e = f
<1>1. InMemory \subseteq wal_data /\ (Flushing({"unlink"}) => InMemory = {})
  <2>1. CASE Flushing({"create", "write", "publish"})
    <3>1. ~Flushing({"unlink"})
      BY <2>1 DEF Flushing, LsmInv, PhaseInv
    <3> QED BY <2>1, <3>1 DEF OrderlyInv, MemoryInv, InMemory
  <2>2. CASE ~Flushing({"create", "write", "publish"})
    BY <2>2 DEF OrderlyInv, MemoryInv, InMemory
  <2> QED BY <2>1, <2>2
<1>2. Data(sstables) \subseteq Data(manifest \cup sstables)
  BY DEF Data
<1> QED BY <1>1, <1>2 DEF OrderlyInv, DiskInv, TablesInv

(* Written as an operator, so that the sets of answers stay opaque. *)
Only(S, v) == S = {v}

(* A lookup in the memtables' versions es of k, or in the open tables when there are none, answers *)
(* the value of the newest version.                                                               *)
LEMMA LookupFinds ==
    ASSUME LsmInv, OrderlyInv, phase = "up", NEW k, NEW v, NEW n, NEW tx, NEW es \in SUBSET Entry,
           \A e \in es \cup Data(sstables) : e.key = k => Visible(e, n, tx),
           \A e, f \in es : e.seq = f.seq => e = f,
           (\E e \in es : e.key = k) => HasValue(es, k, v),
           (\A e \in es : e.key # k) =>
              (\A e \in InMemory : e.key # k) /\ HasValue(InMemory \cup Data(sstables), k, v)
    PROVE  Only(Lookup(k, es, sstables, n, tx), v)
<1> DEFINE Hit(S) == {e \in S : e.key = k /\ Visible(e, n, tx)}
           hits   == {t \in sstables : Hit(t.data) # {}}
           newest == {t \in hits : \A u \in hits : max_seq(u) <= max_seq(t)}
<1>0. Lookup(k, es, sstables, n, tx) =
         IF Hit(es) # {} THEN {Value(e) : e \in LatestPerKey(Hit(es))}
         ELSE IF hits = {} THEN {No}
         ELSE {Value(e) : e \in UNION {Hit(t.data) : t \in newest}}
  BY DEF Lookup
<1>1. Hit(es) = {e \in es : e.key = k}
  OBVIOUS
<1>2. CASE \E e \in es : e.key = k
  <2>1. PICK e \in NewestOf(es) : e.key = k /\ Value(e) = v
    BY <1>2 DEF HasValue
  <2>2. e \in es /\ \A f \in es : f.key = k => f.seq <= e.seq
    BY <2>1 DEF NewestOf
  <2>3. \A f \in es : f.seq \in Nat
    BY DEF Entry
  <2>4. LatestPerKey(Hit(es)) = {e}
    <3>1. \A f \in Hit(es) : f \in es /\ f.key = k
      BY <1>1
    <3>2. e \in Hit(es)
      BY <1>1, <2>1, <2>2
    <3>3. \A f \in Hit(es) : f # e => f.seq < e.seq /\ ~(e.seq < f.seq)
      BY <2>2, <2>3, <3>1
    <3> HIDE DEF Hit
    <3> QED BY <3>1, <3>2, <3>3, <2>1 DEF LatestPerKey, PushedBefore
  <2> QED BY <1>0, <1>1, <1>2, <2>1, <2>4 DEF Only
<1>3. CASE ~\E e \in es : e.key = k
  <2>0. /\ \A e \in InMemory : e.key # k
        /\ HasValue(InMemory \cup Data(sstables), k, v) /\ Hit(es) = {}
    BY <1>1, <1>3
  <2>1. ASSUME NEW t \in sstables PROVE Hit(t.data) = {e \in t.data : e.key = k}
    BY <2>1, InData
  <2>2. CASE hits = {}
    <3>1. \A e \in InMemory \cup Data(sstables) : e.key # k
      BY <2>0, <2>1, <2>2, InData
    <3>2. v = No
      BY <2>0, <3>1 DEF HasValue
    <3> QED BY <1>0, <2>0, <2>2, <3>2 DEF Only
  <2>3. CASE hits # {}
    <3>1. PICK e : e.key = k /\ \E t \in sstables : e \in t.data
      BY <2>1, <2>3
    <3>2. e \in Data(sstables)
      BY <3>1, InData
    <3>3. PICK z \in NewestOf(InMemory \cup Data(sstables)) : z.key = k /\ Value(z) = v
      BY <2>0, <3>1, <3>2 DEF HasValue
    <3>4. z \in Data(sstables) /\ \A f \in Data(sstables) : f.key = k => f.seq <= z.seq
      BY <2>0, <3>3 DEF NewestOf
    <3>5. PICK u \in sstables : z \in u.data
      BY <3>4, InData
    <3>6. u \in hits
      BY <2>1, <3>3, <3>5
    <3>7. ASSUME NEW s \in newest, NEW f \in Hit(s.data) PROVE f = z
      <4>1. s \in sstables /\ f \in s.data /\ f.key = k /\ max_seq(u) <= max_seq(s)
        BY <3>6, <3>7
      <4>2. z.seq <= f.seq
        BY <3>3, <3>5, <4>1 DEF OrderlyInv, TablesInv, Ordered
      <4>3. f \in Data(sstables) /\ f.seq <= z.seq
        BY <3>4, <4>1, InData
      <4>4. f.seq = z.seq
        BY <3>4, <4>2, <4>3, Types
      <4> QED BY <3>4, <4>3, <4>4, MemoryNewer
    <3>8. \E s \in newest : Hit(s.data) # {}
      <4> DEFINE M == {max_seq(s) : s \in hits}
      <4>1. PICK b \in Nat : \A s \in sstables : s.data \subseteq Ents(b)
        BY DataBound
      <4>2. \A s \in sstables : max_seq(s) \in Nat /\ max_seq(s) <= b
        BY <4>1, SeqsBounded DEF max_seq
      <4>3. M \subseteq Nat /\ M # {} /\ \A m \in M : m <= b
        BY <2>3, <4>2
      <4>4. \E m \in M : \A l \in M : l <= m
        <5> HIDE DEF M
        <5> QED BY <4>3, GreatestExists
      <4>5. PICK s \in hits : \A l \in M : l <= max_seq(s)
        BY <4>4
      <4>6. s \in newest
        BY <4>5
      <4> QED BY <4>5, <4>6
    <3> HIDE DEF Hit, newest
    <3>9. UNION {Hit(s.data) : s \in newest} = {z}
      BY <3>7, <3>8
    <3> QED BY <1>0, <2>0, <2>3, <3>3, <3>9 DEF Only
  <2> QED BY <2>2, <2>3
<1> QED BY <1>2, <1>3 DEF Only

(* A get takes its snapshot, clones its versions from the memtables, and then loads the *)
(* tables.                                                                              *)
LEMMA GetOrderly ==
    ASSUME LsmInv, OrderlyInv, NEW r \in Readers, Reading(r)
    PROVE  OrderlyInv'
<1>0. UNCHANGED <<phase, next_seq_no, last_committed_tx, memtable, immutable_memtables, wal, sstables,
                  commit, flush, compaction, old_wals, wal_data, manifest, committed>>
  BY DEF Reading, GetStart, GetMemtables, GetSstables, GetReturn
<1>1. Pending' = Pending /\ InMemory' = InMemory /\ \A pcs : Flushing(pcs)' = Flushing(pcs)
  BY <1>0 DEF Pending, InMemory, Flushing
<1>2. DiskInv' /\ MemoryInv' /\ TasksInv' /\ ManifestInv' /\ CompactionInv' /\ TablesInv'
  BY <1>0, <1>1, Types, DiskFrame, MemoryFrame, TasksFrame, ManifestFrame, CompactionFrame, TablesFrame
     DEF OrderlyInv
<1>3. \A s \in Readers : reader[s].pc # "idle" => phase = "up"
  BY DEF LsmInv, PhaseInv
<1>4. \A s \in Readers \ {r} : reader'[s] = reader[s]
  BY Types DEF Reading, GetStart, GetMemtables, GetSstables, GetReturn
<1>5. reader'[r].pc # "idle" /\ ~reader'[r].overtaken => Finds(r)'
  <2>1. ASSUME NEW k \in Keys, GetStart(r, k) PROVE Finds(r)'
    <3>1. /\ phase = "up"
          /\ reader'[r] = [pc |-> "memtables", key |-> k, seq_no |-> next_seq_no,
                           snapshot_tx |-> last_committed_tx, seen |-> {committed[k]},
                           overtaken |-> FALSE]
      BY <2>1, Types DEF GetStart
    <3>2. \A e \in InMemory \cup Data(sstables) : e.seq < next_seq_no /\ e.tx <= last_committed_tx
      <4>1. InMemory \subseteq wal_data
        BY <3>1 DEF OrderlyInv, MemoryInv, InMemory
      <4> QED BY <3>1, <4>1 DEF OrderlyInv, MemoryInv
    <3>3. \A e \in InMemory \cup Data(sstables) : Visible(e, next_seq_no, last_committed_tx)
      BY <3>2, Types DEF Visible
    <3> QED BY <1>0, <1>1, <3>1, <3>3 DEF Finds
  <2>2. ASSUME GetMemtables(r), ~reader'[r].overtaken PROVE Finds(r)'
    <3> DEFINE k  == reader[r].key
               es == {e \in InMemory : e.key = k}
    <3>1. /\ reader[r].pc = "memtables" /\ phase = "up"
          /\ reader'[r] = [pc |-> "sstables", key |-> k, seq_no |-> reader[r].seq_no,
                           snapshot_tx |-> reader[r].snapshot_tx, seen |-> reader[r].seen,
                           overtaken |-> reader[r].overtaken, es |-> es]
      BY <1>3, <2>2, Types DEF GetMemtables
    <3>2. Finds(r)
      BY <2>2, <3>1 DEF OrderlyInv, ReaderInv
    <3>k. k \in Keys
      BY <3>1, ReaderForms DEF LsmInv, TypeOK
    <3>3. /\ \A x \in Data(sstables), e \in InMemory : x.seq < e.seq
          /\ \A e, f \in es : e.seq = f.seq => e = f
      BY <3>1, MemoryNewer
    <3>4. ASSUME es # {} PROVE HasValue(es, k, committed[k])
      <4>1. HasValue(InMemory \cup Data(sstables), k, committed[k])
        BY <3>1, <3>k DEF OrderlyInv, TablesInv
      <4>2. ASSUME NEW e \in NewestOf(InMemory \cup Data(sstables)), e.key = k PROVE e \in es
        <5>1. PICK f \in InMemory : f.key = k
          BY <3>4
        <5>2. f.seq <= e.seq /\ e \in InMemory \cup Data(sstables)
          BY <4>2, <5>1 DEF NewestOf
        <5>3. e \notin Data(sstables)
          BY <3>3, <5>1, <5>2, Types
        <5> QED BY <4>2, <5>2, <5>3
      <4>3. es \in SUBSET (InMemory \cup Data(sstables))
        OBVIOUS
      <4> HIDE DEF es
      <4> QED BY <4>1, <4>2, <4>3, HasValueSub
    <3>5. /\ reader[r].seen = {committed[k]}
          /\ \A e \in InMemory \cup Data(sstables) :
                e.key = k => Visible(e, reader[r].seq_no, reader[r].snapshot_tx)
      BY <3>1, <3>2 DEF Finds
    <3>6. es = {} => \A e \in InMemory : e.key # k
      OBVIOUS
    <3>7. \A e \in es : e.key = k /\ e \in InMemory
      OBVIOUS
    <3> HIDE DEF es
    <3> QED BY <1>0, <1>1, <3>1, <3>3, <3>4, <3>5, <3>6, <3>7 DEF Finds
  <2>3. ASSUME GetSstables(r), ~reader'[r].overtaken PROVE Finds(r)'
    <3> DEFINE k == reader[r].key
               answers == Lookup(k, reader[r].es, sstables, reader[r].seq_no, reader[r].snapshot_tx)
    <3>1. /\ reader[r].pc = "sstables" /\ phase = "up"
          /\ reader'[r] = [pc |-> "done", key |-> k, seen |-> reader[r].seen,
                           overtaken |-> reader[r].overtaken, answers |-> answers]
      BY <1>3, <2>3, Types DEF GetSstables
    <3>2. Finds(r)
      BY <2>3, <3>1 DEF OrderlyInv, ReaderInv
    <3>k. k \in Keys /\ reader[r].es \in SUBSET Entry
      BY <3>1, ReaderForms DEF LsmInv, TypeOK
    <3>3. /\ reader[r].seen = {committed[k]}
          /\ \A e \in reader[r].es \cup Data(sstables) :
                e.key = k => Visible(e, reader[r].seq_no, reader[r].snapshot_tx)
          /\ \A e \in reader[r].es : e.key = k
          /\ \A e, f \in reader[r].es : e.seq = f.seq => e = f
          /\ IF reader[r].es = {} THEN \A e \in InMemory : e.key # k
             ELSE HasValue(reader[r].es, k, committed[k])
      BY <3>1, <3>2 DEF Finds
    <3>4. HasValue(InMemory \cup Data(sstables), k, committed[k])
      BY <3>1, <3>k DEF OrderlyInv, TablesInv
    <3>5. answers = {committed[k]}
      <4>1. /\ (\E e \in reader[r].es : e.key = k) => HasValue(reader[r].es, k, committed[k])
            /\ (\A e \in reader[r].es : e.key # k) =>
                  (\A e \in InMemory : e.key # k) /\ HasValue(InMemory \cup Data(sstables), k, committed[k])
        BY <3>3, <3>4
      <4>2. \A e \in reader[r].es \cup Data(sstables) :
                e.key = k => Visible(e, reader[r].seq_no, reader[r].snapshot_tx)
        BY <3>3
      <4>3. \A e, f \in reader[r].es : e.seq = f.seq => e = f
        BY <3>3
      <4>4. phase = "up" /\ reader[r].es \in SUBSET Entry
        BY <3>1, <3>k
      <4> HIDE DEF k
      <4>5. Only(answers, committed[k])
        BY <4>1, <4>2, <4>3, <4>4, LookupFinds
      <4> QED BY <4>5 DEF Only
    <3> HIDE DEF answers
    <3> QED BY <1>0, <3>1, <3>3, <3>5 DEF Finds
  <2>4. ASSUME GetReturn(r) PROVE reader'[r].pc = "idle"
    BY <2>4, Types DEF GetReturn, IdleReader
  <2> QED BY <2>1, <2>2, <2>3, <2>4 DEF Reading
<1>6. ReaderInv'
  <2> SUFFICES ASSUME NEW s \in Readers, reader'[s].pc # "idle", ~reader'[s].overtaken
               PROVE  Finds(s)'
    BY DEF ReaderInv
  <2>1. CASE s = r
    BY <1>5, <2>1
  <2>2. CASE s # r
    <3>1. Finds(s)
      BY <1>4, <2>2 DEF OrderlyInv, ReaderInv
    <3> QED BY <1>0, <1>1, <1>4, <2>2, <3>1, FindsFrame
  <2> QED BY <2>1, <2>2
<1> QED BY <1>2, <1>6 DEF OrderlyInv

-----------------------------------------------------------------------------
(* The invariant, and what it says of gets and scans.                       *)

(* An empty store has no values. *)
LEMMA OrderlyInit ==
    ASSUME Init
    PROVE  OrderlyInv
<1>1. wal_data = {} /\ Data(manifest) = {} /\ Data(manifest \cup sstables) = {} /\ Pending = {}
  BY DEF Init, Data, Pending, IdleCommit
<1>2. \A pcs : "idle" \notin pcs => ~Flushing(pcs)
  BY DEF Init, Flushing, IdleFlush, Flushers
<1>3. DiskInv
  <2>1. Ordered(manifest) /\ FlushedWhole(manifest)
    BY <1>1 DEF Init, Ordered, FlushedWhole
  <2>2. \A k \in Keys : HasValue({}, k, committed[k])
    BY DEF Init, HasValue
  <2>3. (wal_data \ Pending) \cup Data(manifest) = {}
    BY <1>1
  <2> QED BY <1>1, <1>2, <2>1, <2>2, <2>3 DEF DiskInv, Init
<1>4. TasksInv
  BY <1>2 DEF Init, TasksInv, IdleCommit, IdleFlush, Flushers
<1> QED BY <1>3, <1>4 DEF OrderlyInv, Init, MemoryInv, ManifestInv, CompactionInv, TablesInv, ReaderInv,
           NoMerge, IdleReader

(* The steps of a flush. *)
LEMMA FlushOrderly ==
    ASSUME Orderly, LsmInv, OrderlyInv, NEW f \in Flushers, Flush(f)
    PROVE  OrderlyInv'
<1>1. f # "caller"
  <2>1. flush["caller"].pc = "idle" /\ ~MayFlush("caller")
    BY DEF OrderlyInv, TasksInv, Orderly, MayFlush
  <2> QED BY <2>1 DEF Flush, FlushStart, FlushNothing, FlushSwap, FlushCreate, FlushWrite, FlushFails,
              FlushPublish, FlushUnlink
<1>2. f \in {"commit", "startup"} /\ ~FlushFails(f)
  BY <1>1 DEF Flushers, FlushFails, Orderly
<1> QED BY <1>2, StartOrderly, NothingOrderly, SwapLogOrderly, CreateOrderly, WriteOrderly,
           PublishOrderly, UnlinkOrderly DEF Flush

(* The invariant is inductive, beside LsmInv. *)
LEMMA OrderlyStep ==
    ASSUME Orderly, LsmInv, OrderlyInv, [Next]_vars
    PROVE  OrderlyInv'
<1>1. LsmInv'
  BY LsmStep
<1>2. CASE Commit
  BY <1>1, <1>2, PrepareOrderly, AppendOrderly, AppendFailsOrderly, ApplyOrderly DEF Commit
<1>3. ASSUME NEW f \in Flushers, Flush(f) PROVE OrderlyInv'
  BY <1>3, FlushOrderly
<1>4. CASE Compaction
  <2>1. ~RolloverList /\ ~RolloverRename
    BY DEF RolloverList, RolloverRename, Orderly, OrderlyInv, CompactionInv
  <2> QED BY <1>4, <2>1, SelectOrderly, ReplaceOrderly, SwapOrderly DEF Compaction
<1>5. CASE ProcessStops
  BY <1>5, CrashOrderly DEF ProcessStops, StartupFails, Orderly
<1>6. CASE Recovery
  BY <1>6, ReplayOrderly, RemoveOrderly, OpenedOrderly DEF Recovery
<1>7. ASSUME NEW r \in Readers, Reading(r) PROVE OrderlyInv'
  BY <1>7, GetOrderly
<1>8. CASE UNCHANGED vars
  <2>1. UNCHANGED <<phase, next_seq_no, last_committed_tx, memtable, immutable_memtables, wal, sstables,
                    commit, flush, compaction, old_wals, wal_data, manifest, committed, reader>>
    BY <1>8 DEF vars
  <2>2. Pending' = Pending /\ InMemory' = InMemory /\ \A pcs : Flushing(pcs)' = Flushing(pcs)
    BY <2>1 DEF Pending, InMemory, Flushing
  <2> QED BY <2>1, <2>2, Types, DiskFrame, MemoryFrame, TasksFrame, ManifestFrame, CompactionFrame,
             TablesFrame, ReaderFrame DEF OrderlyInv
<1> QED BY <1>2, <1>3, <1>4, <1>5, <1>6, <1>7, <1>8 DEF Next

(* With callers that only commit, and no faults but crashes and append errors on an   *)
(* encrypted store, the store keeps OrderlyInv: log, memtables, tables and MANIFEST   *)
(* together hold the committed value of every key at every step of commit(), flush(), *)
(* run_compaction() and new().                                                        *)
THEOREM OrderlyInvariant ==
    ASSUME Orderly
    PROVE  Spec => []OrderlyInv
<1>1. Init => OrderlyInv
  BY OrderlyInit
<1>2. LsmInv /\ OrderlyInv /\ [Next]_vars => OrderlyInv'
  BY OrderlyStep
<1> QED BY <1>1, <1>2, LsmInvariant, PTL DEF Spec

(* What the invariant says of a get, and of a scan, that nothing overtakes. *)
LEMMA OrderlyReads ==
    ASSUME LsmInv, OrderlyInv
    PROVE  ReadLatest /\ ScanLatest
<1> SUFFICES ASSUME phase = "up", NEW k \in Keys
             PROVE  Get(k) = {committed[k]} /\ Scan(k) = {committed[k]}
  BY DEF ReadLatest, ScanLatest
<1> DEFINE all == InMemory \cup Data(sstables)
           v == committed[k]
<1>1. /\ HasValue(all, k, v)
      /\ \A x \in Data(sstables), e \in InMemory : x.seq < e.seq
      /\ \A e, f \in all : e.seq = f.seq => e = f
  BY MemoryNewer DEF OrderlyInv, TablesInv
<1>2. \A e \in all : e.seq < next_seq_no /\ e.tx <= last_committed_tx
  <2>1. InMemory \subseteq wal_data
    BY DEF OrderlyInv, MemoryInv, InMemory
  <2> QED BY <2>1 DEF OrderlyInv, MemoryInv
<1>3. \A e \in all : Visible(e, next_seq_no, last_committed_tx)
  BY <1>2, Types DEF Visible
<1>4. Get(k) = {v}
  <2>1. ASSUME NEW f \in InMemory, f.key = k PROVE HasValue(InMemory, k, v)
    <3>1. ASSUME NEW e \in NewestOf(all), e.key = k PROVE e \in InMemory
      <4>1. f.seq <= e.seq /\ e \in all
        BY <2>1, <3>1 DEF NewestOf
      <4>2. e \notin Data(sstables)
        BY <1>1, <2>1, <4>1, Types
      <4> QED BY <4>1, <4>2
    <3>2. InMemory \in SUBSET all
      OBVIOUS
    <3> HIDE DEF all
    <3> QED BY <1>1, <3>1, <3>2, HasValueSub
  <2>2. InMemory \in SUBSET Entry
    BY Types
  <2>3. /\ (\E e \in InMemory : e.key = k) => HasValue(InMemory, k, v)
        /\ (\A e \in InMemory : e.key # k) =>
              (\A e \in InMemory : e.key # k) /\ HasValue(InMemory \cup Data(sstables), k, v)
    BY <1>1, <2>1
  <2>4. Lookup(k, InMemory, sstables, next_seq_no, last_committed_tx) = {v}
    <3>1. \A e \in InMemory \cup Data(sstables) : e.key = k => Visible(e, next_seq_no, last_committed_tx)
      BY <1>3
    <3>2. \A e, f \in InMemory : e.seq = f.seq => e = f
      BY <1>1
    <3> HIDE DEF v
    <3>3. Only(Lookup(k, InMemory, sstables, next_seq_no, last_committed_tx), v)
      BY <2>2, <2>3, <3>1, <3>2, LookupFinds
    <3> QED BY <3>3 DEF Only
  <2> QED BY <2>4 DEF Get
<1>5. Scan(k) = {v}
  <2> DEFINE es == {e \in all : e.key = k /\ e.tx <= last_committed_tx}
  <2>1. es = {e \in all : e.key = k}
    BY <1>2
  <2>2. Scan(k) = IF es = {} THEN {No}
                  ELSE {Value(e) : e \in {x \in es : \A y \in es : y.seq <= x.seq}}
    BY DEF Scan, Data
  <2>3. CASE es = {}
    BY <1>1, <2>1, <2>2, <2>3 DEF HasValue
  <2>4. CASE es # {}
    <3>1. PICK z \in NewestOf(all) : z.key = k /\ Value(z) = v
      BY <1>1, <2>1, <2>4 DEF HasValue
    <3>2. z \in es /\ \A y \in es : y.seq <= z.seq
      BY <2>1, <3>1 DEF NewestOf
    <3>3. ASSUME NEW x \in es, \A y \in es : y.seq <= x.seq PROVE x = z
      <4>1. z.seq <= x.seq /\ x.seq <= z.seq /\ x.seq \in Nat /\ z.seq \in Nat
        BY <3>2, <3>3, <2>1, Types
      <4> QED BY <4>1, <2>1, <3>2, <3>3, <1>1
    <3>4. {x \in es : \A y \in es : y.seq <= x.seq} = {z}
      <4> HIDE DEF es
      <4> QED BY <3>2, <3>3
    <3> HIDE DEF es
    <3> QED BY <2>2, <2>4, <3>1, <3>4
  <2> QED BY <2>3, <2>4
<1> QED BY <1>4, <1>5

(* get() answers the last committed value of its key, at every point of a flush or a *)
(* compaction and after every crash and recovery (lsm/ops/read.rs).                  *)
THEOREM GetsReadLatest ==
    ASSUME Orderly
    PROVE  Spec => []ReadLatest
<1>1. LsmInv /\ OrderlyInv => ReadLatest
  BY OrderlyReads
<1> QED BY <1>1, LsmInvariant, OrderlyInvariant, PTL

(* scan() answers the last committed value of every key, reading memtables and all tables *)
(* together (lsm/ops/read.rs).                                                            *)
THEOREM ScansReadLatest ==
    ASSUME Orderly
    PROVE  Spec => []ScanLatest
<1>1. LsmInv /\ OrderlyInv => ScanLatest
  BY OrderlyReads
<1> QED BY <1>1, LsmInvariant, OrderlyInvariant, PTL

(* A get that commits to other keys, flushes and compactions overtake between its lock *)
(* sections answers the value that its key has all along (lsm/ops/read.rs).            *)
THEOREM GetsUndisturbed ==
    ASSUME Orderly
    PROVE  Spec => []GetUndisturbed
<1>1. OrderlyInv => GetUndisturbed
  BY DEF OrderlyInv, ReaderInv, Finds, GetUndisturbed
<1> QED BY <1>1, OrderlyInvariant, PTL

-----------------------------------------------------------------------------
(* Sequence numbers.                                                        *)

(* append_batch() always succeeds. *)
NoAppendErrors == "append error" \notin Environment

(* The entries below the sequence number n. *)
Upto(n) == {e \in Entry : e.seq < n}

(* Whatever else happens, next_seq_no is above everything that a running process holds. *)
SeqInv == phase # "down" => \A n \in Nat : next_seq_no <= n => DataIn(Upto(n), TableId)

(* A store comes up by a replay. *)
LEMMA OnlyReplay ==
    ASSUME LsmInv, [Next]_vars, phase = "down", phase' # "down"
    PROVE  Replay
<1>t. PhaseInv
  BY DEF LsmInv
<1>1. ~Commit
  BY <1>t DEF Commit, CommitPrepare, CommitAppend, CommitAppendFails, CommitApply, PhaseInv
<1>2. ASSUME NEW f \in Flushers PROVE ~Flush(f)
  <2>1. flush[f].pc = "idle" /\ ~MayFlush(f)
    BY <1>t DEF PhaseInv, MayFlush, Flushers
  <2> QED BY <2>1 DEF Flush, FlushStart, FlushNothing, FlushSwap, FlushCreate, FlushWrite, FlushFails,
              FlushPublish, FlushUnlink
<1>3. ~Compaction
  BY DEF Compaction, CompactSelect, CompactAbort, CompactReplace, CompactSwap, RolloverList, RolloverRename
<1>4. ~ProcessStops
  <2>1. ~ProcessEnds
    BY DEF ProcessEnds
  <2> QED BY <2>1 DEF ProcessStops, Crash, StartupFails
<1>5. ASSUME NEW r \in Readers PROVE ~Reading(r)
  BY DEF Reading, GetStart, GetMemtables, GetSstables, GetReturn
<1>6. ~UNCHANGED vars
  BY DEF vars
<1> QED BY <1>1, <1>2, <1>3, <1>4, <1>5, <1>6 DEF Next, Recovery, RemoveOldWal, Opened

(* Only a replay, and the rollback of a failed append, recompute next_seq_no. *)
LEMMA SeqNoGrows ==
    ASSUME LsmInv, [Next]_vars, phase # "down", phase' # "down", ~CommitAppendFails
    PROVE  next_seq_no' = next_seq_no \/ next_seq_no' = next_seq_no + 1
<1>1. CASE Commit
  BY <1>1 DEF Commit, CommitPrepare, CommitAppend, CommitApply
<1>2. ASSUME NEW f \in Flushers, Flush(f) PROVE next_seq_no' = next_seq_no
  BY <1>2 DEF Flush, FlushStart, FlushNothing, FlushSwap, FlushCreate, FlushWrite, FlushFails,
              FlushPublish, FlushUnlink
<1>3. CASE Compaction
  BY <1>3 DEF Compaction, CompactSelect, CompactAbort, CompactReplace, CompactSwap, RolloverList,
              RolloverRename
<1>4. CASE ProcessStops
  <2>1. ProcessEnds
    BY <1>4 DEF ProcessStops, Crash, StartupFails
  <2> QED BY <2>1 DEF ProcessEnds
<1>5. CASE Recovery
  BY <1>5 DEF Recovery, Replay, RemoveOldWal, Opened
<1>6. ASSUME NEW r \in Readers, Reading(r) PROVE next_seq_no' = next_seq_no
  BY <1>6 DEF Reading, GetStart, GetMemtables, GetSstables, GetReturn
<1>7. CASE UNCHANGED vars
  BY <1>7 DEF vars
<1> QED BY <1>1, <1>2, <1>3, <1>4, <1>5, <1>6, <1>7 DEF Next

(* Entries get their numbers from next_seq_no, and a replay starts above all it reads. *)
LEMMA SeqStep ==
    ASSUME NoAppendErrors, LsmInv, SeqInv, [Next]_vars
    PROVE  SeqInv'
<1>0. SUFFICES ASSUME phase' # "down", NEW n \in Nat, next_seq_no' <= n
               PROVE  DataIn(Upto(n), TableId)'
  BY DEF SeqInv
<1>t. TypeOK /\ PhaseInv /\ LogInv /\ Bounded
  BY DEF LsmInv
<1>n. next_seq_no \in Nat /\ segment_counter \in Nat /\ lastTx \in Nat
  BY <1>t DEF TypeOK
<1>1. CASE phase = "down"
  <2>0. Replay
    BY <1>0, <1>1, OnlyReplay
  <2>1. /\ memtable' = wal_data /\ immutable_memtables' = {} /\ sstables' = manifest
        /\ next_seq_no' = RecoveredSeqNo
        /\ UNCHANGED <<commit, flush, compaction, wal_data, manifest, torn>>
    BY <2>0 DEF Replay
  <2>2. wal_data \cup Data(manifest) \subseteq Upto(n)
    <3>1. \A e \in wal_data \cup Data(manifest) : e \in Entry /\ e.seq < next_seq_no'
      BY <2>1, RecoveredNumbers, Types
    <3>2. next_seq_no' \in Nat
      BY <2>1, RecoveredNumbers
    <3>3. \A m \in Nat : m < next_seq_no' => m < n
      BY <1>0, <3>2
    <3>4. \A e \in wal_data \cup Data(manifest) : e \in Entry /\ e.seq < n
      BY <3>1, <3>3, Types
    <3> QED BY <3>4 DEF Upto
  <2>3. manifest \subseteq Tables(Upto(n), TableId) /\ torn \subseteq TableId
    <3>1. manifest \subseteq Tables(Entry, TableId) /\ torn \subseteq TableId
      BY <1>t DEF TypeOK, DataIn, Tables
    <3>2. \A t \in manifest : t.data \subseteq Upto(n)
      BY <2>2, InData
    <3> QED BY <3>1, <3>2 DEF Tables
  <2>4. commit \in Idle /\ compaction \in Idle /\ flush \in [Flushers -> Idle]
    <3>1. commit.pc = "idle" /\ compaction.pc = "idle" /\ \A f \in Flushers : flush[f].pc = "idle"
      BY <1>1, <1>t DEF PhaseInv, Flushers
    <3>2. /\ commit \in CommitState(Entry) /\ compaction \in CompactionState(Tables(Entry, TableId))
          /\ flush \in [Flushers -> FlushState(Entry, Tables(Entry, TableId))]
      BY <1>t DEF TypeOK, DataIn, Tables
    <3>3. commit \in Idle /\ compaction \in Idle
      BY <3>1, <3>2 DEF CommitState, CompactionState, Idle
    <3>4. \A f \in Flushers : flush[f] \in Idle
      BY <3>1, <3>2 DEF FlushState, Idle
    <3> QED BY <3>2, <3>3, <3>4
  <2> QED BY <2>1, <2>2, <2>3, <2>4 DEF DataIn, Tables, CommitState, FlushState, CompactionState
<1>2. CASE phase # "down"
  <2>1. ~CommitAppendFails
    BY DEF CommitAppendFails, NoAppendErrors
  <2>2. next_seq_no' = next_seq_no \/ next_seq_no' = next_seq_no + 1
    BY <1>0, <1>2, <2>1, SeqNoGrows
  <2>3. next_seq_no <= n
    BY <1>0, <1>n, <2>2
  <2>4. DataIn(Upto(n), TableId)
    BY <1>2, <1>0, <2>3 DEF SeqInv
  <2>5. ASSUME NEW k \in Keys, NEW tomb \in BOOLEAN, CommitPrepare(k, tomb)
        PROVE  commit'.entry \in Upto(n)
    <3>1. /\ next_seq_no' = next_seq_no + 1 /\ lastTx + 1 \in Nat
          /\ wal \in Wals
          /\ commit'.entry = [key |-> k, seq |-> next_seq_no, tx |-> lastTx + 1, tomb |-> tomb, log |-> wal]
      <4>1. wal \in wal_files
        BY <1>2, <1>t DEF LogInv
      <4>2. wal \in Wals
        BY <4>1, <1>t DEF TypeOK
      <4> QED BY <2>5, <4>2, <1>n DEF CommitPrepare
    <3>2. commit'.entry \in Entry /\ commit'.entry.seq = next_seq_no
      BY <1>n, <3>1 DEF Entry
    <3>3. next_seq_no < n
      BY <1>0, <1>n, <3>1
    <3> QED BY <3>2, <3>3 DEF Upto
  <2>6. <<next_seq_no, segment_counter>> \in TableId
    BY <1>n DEF TableId
  <2>7. FreshCompactId \in TableId
    <3>1. PICK b \in Nat : Within(b)
      BY <1>t DEF Bounded
    <3>2. FreshCompactId \in Ids(b + 1)
      BY <3>1, CompactIdBounded DEF Within
    <3> QED BY <3>2 DEF Ids
  <2> QED BY <1>t, <2>4, <2>5, <2>6, <2>7, DataStep
<1> QED BY <1>1, <1>2

(* Where the stored entries are. *)
LEMMA StoredWhere ==
    ASSUME NEW e \in Stored
    PROVE  \/ e \in InMemory \cup wal_data
           \/ \E t \in sstables \cup manifest : e \in t.data
           \/ \E f \in Flushers : flush[f].pc \in {"write", "publish"} /\ e \in flush[f].table.data
           \/ compaction.pc \in {"replace", "swap"} /\ e \in compaction.table.data
<1> DEFINE A == UNION {t.data : t \in sstables \cup manifest}
           B == UNION {flush[f].table.data : f \in {g \in Flushers : flush[g].pc \in {"write", "publish"}}}
           C == IF compaction.pc \in {"replace", "swap"} THEN compaction.table.data ELSE {}
<1>1. e \in InMemory \cup wal_data \cup A \cup B \cup C
  BY DEF Stored
<1>2. e \in A => \E t \in sstables \cup manifest : e \in t.data
  OBVIOUS
<1>3. e \in B => \E f \in Flushers : flush[f].pc \in {"write", "publish"} /\ e \in flush[f].table.data
  OBVIOUS
<1>4. e \in C => compaction.pc \in {"replace", "swap"} /\ e \in compaction.table.data
  OBVIOUS
<1> HIDE DEF A, B, C
<1> QED BY <1>1, <1>2, <1>3, <1>4

(* What DataIn says of the entries that are stored. *)
LEMMA StoredIn ==
    ASSUME NEW E, NEW I, DataIn(E, I)
    PROVE  Stored \subseteq E
<1> DEFINE T == Tables(E, I)
<1>1. /\ InMemory \subseteq E /\ wal_data \subseteq E
      /\ \A t \in sstables \cup manifest : t.data \subseteq E
  BY DEF DataIn, InMemory
<1>2. ASSUME NEW f \in Flushers, flush[f].pc \in {"write", "publish"} PROVE flush[f].table.data \subseteq E
  <2>1. flush \in [Flushers -> FlushState(E, T)]
    BY DEF DataIn, Tables
  <2>2. flush[f] \in [pc : {"write", "publish", "unlink"}, to_flush : SUBSET SUBSET E,
                      old_wal : SUBSET Wals, table : T]
    BY <1>2, <2>1, FlushForms
  <2> QED BY <2>2 DEF Tables
<1>3. compaction.pc \in {"replace", "swap"} => compaction.table.data \subseteq E
  <2>1. compaction \in CompactionState(T)
    BY DEF DataIn, Tables
  <2>2. compaction.pc \in {"replace", "swap"} =>
           compaction \in [pc : {"replace", "swap"}, inputs : SUBSET T, table : T]
    BY <2>1 DEF CompactionState, Idle
  <2> QED BY <2>2 DEF Tables
<1> QED BY <1>1, <1>2, <1>3, StoredWhere

(* The same from what gets rest on, where the rollback of a failed append recomputes next_seq_no. *)
LEMMA OrderlySeqs ==
    ASSUME LsmInv, OrderlyInv
    PROVE  SeqAboveStored
<1> SUFFICES ASSUME phase = "up", NEW e \in Stored PROVE e.seq < next_seq_no
  BY DEF SeqAboveStored
<1>1. \A x \in wal_data \cup Data(sstables) : x.seq < next_seq_no
  BY DEF OrderlyInv, MemoryInv
<1>2. InMemory \subseteq wal_data
  BY DEF OrderlyInv, MemoryInv, InMemory
<1>3. flush["caller"].pc = "idle" /\ flush["startup"].pc = "idle"
  BY DEF OrderlyInv, TasksInv, LsmInv, PhaseInv
<1>4. ASSUME flush["commit"].pc \in {"write", "publish"}
      PROVE  flush["commit"].table.data \subseteq wal_data /\ Flushed = flush["commit"]
  BY <1>4, FlushTable
<1>5. compaction.pc \in {"replace", "swap"} => compaction.table.data \subseteq Data(sstables)
  BY CompactTable
<1>6. Data(manifest) \subseteq wal_data \cup Data(sstables)
  <2>1. CASE Flushing({"publish"})
    <3>1. flush["commit"].pc = "publish"
      BY <1>3, <2>1 DEF Flushing
    <3>2. manifest \subseteq Compacted \cup {flush["commit"].table}
      BY <1>4, <2>1, <3>1 DEF OrderlyInv, ManifestInv, Without
    <3> QED BY <1>4, <3>1, <3>2, CompactedData DEF Data
  <2>2. CASE ~Flushing({"publish"})
    BY <2>2, CompactedData DEF OrderlyInv, ManifestInv
  <2> QED BY <2>1, <2>2
<1>7. ASSUME NEW f \in Flushers, flush[f].pc \in {"write", "publish"}
      PROVE  flush[f].table.data \subseteq wal_data
  BY <1>3, <1>4, <1>7 DEF Flushers
<1>8. \A t \in sstables \cup manifest : t.data \subseteq wal_data \cup Data(sstables)
  BY <1>6, InData
<1>9. e \in wal_data \cup Data(sstables)
  BY <1>2, <1>5, <1>7, <1>8, StoredWhere
<1> QED BY <1>1, <1>9

(* The next sequence number of an open store is above every one that is stored anywhere,  *)
(* in memory, in a log, in an open table, in the MANIFEST or in a table being written, so *)
(* a new version is never taken for an old one. This holds in every environment without   *)
(* append errors, and with them in an orderly one (lsm/recovery.rs, lsm/ops/write.rs).    *)
THEOREM SeqNosFresh ==
    ASSUME Orderly \/ NoAppendErrors
    PROVE  Spec => []SeqAboveStored
<1>1. CASE Orderly
  <2>1. LsmInv /\ OrderlyInv => SeqAboveStored
    BY OrderlySeqs
  <2> QED BY <1>1, <2>1, LsmInvariant, OrderlyInvariant, PTL
<1>2. CASE NoAppendErrors
  <2>1. Init => SeqInv
    BY DEF Init, SeqInv
  <2>2. LsmInv /\ SeqInv /\ [Next]_vars => SeqInv'
    BY <1>2, SeqStep
  <2>3. LsmInv /\ SeqInv => SeqAboveStored
    <3> SUFFICES ASSUME LsmInv, SeqInv, phase = "up" PROVE \A e \in Stored : e.seq < next_seq_no
      BY DEF SeqAboveStored
    <3>1. PICK n \in Nat : n = next_seq_no
      BY Types
    <3>2. next_seq_no <= n
      BY <3>1
    <3>3. DataIn(Upto(n), TableId)
      BY <3>2 DEF SeqInv
    <3> QED BY <3>1, <3>3, StoredIn DEF Upto
  <2> QED BY <2>1, <2>2, <2>3, LsmInvariant, PTL DEF Spec
<1> QED BY <1>1, <1>2
=============================================================================
