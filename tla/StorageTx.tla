------------------------------ MODULE StorageTx ------------------------------
(***************************************************************************)
(* LsmStorage as its clients see it through the StorageEngine trait: the   *)
(* store is a value, and each call is an operator from the store before to *)
(* the store after it.  A commit is one step here (its inside is in        *)
(* LsmTree and GroupCommit), and so is rollback_to_tx, which holds         *)
(* commit_mutex and the write lock of the state from beginning to end.     *)
(*                                                                         *)
(* A record carries seq, its place in the order of the commits.  Internal  *)
(* transactions (checkpoints, the mark of their ids) all have the id       *)
(* INTERNAL_BASE: nothing here tells them apart.                           *)
(***************************************************************************)
EXTENDS Naturals, FiniteSets, FiniteSetsExt

CONSTANTS INTERNAL_BASE,                    \* TxId::INTERNAL_BASE
          MIN_ENTRIES_FOR_SSTABLE_REBUILD,  \* 8 in the code
          encryption_at_rest                \* the Cargo feature

ASSUME StorageAssumption ==
    /\ INTERNAL_BASE \in Nat \ {0}
    /\ MIN_ENTRIES_FOR_SSTABLE_REBUILD \in Nat \ {0}
    /\ encryption_at_rest \in BOOLEAN

-----------------------------------------------------------------------------
EmptyStore == [log |-> {}, memtable |-> {}, sstables |-> {}, tx_buffer |-> {},
               last_committed_tx |-> 0, seq |-> 1]

Internal(r) == r.tx >= INTERNAL_BASE

\* What flush writes and a read returns: of each key the newest version.
Newest(rs) == {r \in rs : \A q \in rs : q.key = r.key => q.seq <= r.seq}

\* get: the memtables show internal records and what is committed, the tables
\* only what is committed.
Found(s, key) ==
    \/ \E r \in s.memtable : r.key = key /\ (Internal(r) \/ r.tx <= s.last_committed_tx)
    \/ \E b \in s.sstables : \E r \in b : r.key = key /\ r.tx <= s.last_committed_tx

\* scan_prefix shows internal records from the tables as well.
Scan(s) ==
    Newest({r \in s.memtable \cup UNION s.sstables :
                Internal(r) \/ r.tx <= s.last_committed_tx})

-----------------------------------------------------------------------------
Put(s, tx, key, val) ==
    [s EXCEPT !.tx_buffer = @ \cup {[tx |-> tx, key |-> key, val |-> val]}]

\* put_if_absent writes unless the key is staged, by anybody, or readable.
Absent(s, key) == /\ \A o \in s.tx_buffer : o.key # key
                  /\ ~Found(s, key)

StagedBy(s, tx) == {o \in s.tx_buffer : o.tx = tx}

\* rollback of a transaction that has not committed.
Rollback(s, tx) == [s EXCEPT !.tx_buffer = @ \ StagedBy(s, tx)]

\* advance_visibility ignores internal transactions.
Advanced(s, tx) ==
    IF tx < INTERNAL_BASE THEN Max({s.last_committed_tx, tx}) ELSE s.last_committed_tx

\* Commit drains whatever is staged under the id; with nothing staged it
\* returns Ok and does nothing.
Commit(s, tx) ==
    LET new == {[seq |-> s.seq, tx |-> tx, key |-> o.key, val |-> o.val] :
                    o \in StagedBy(s, tx)}
    IN  IF new = {} THEN s
        ELSE [s EXCEPT !.tx_buffer = @ \ StagedBy(s, tx),
                       !.log = @ \cup new,
                       !.memtable = @ \cup new,
                       !.last_committed_tx = Advanced(s, tx),
                       !.seq = @ + 1]

\* The truncated log: everything before the first record of a transaction after
\* the target, where internal records are passed over.  Without the feature the
\* scan never calls back, and the log is truncated to nothing.
TruncatedLog(s, target) ==
    LET after == {r \in s.log : ~Internal(r) /\ r.tx > target}
    IN  IF encryption_at_rest
        THEN {r \in s.log : \A a \in after : r.seq < a.seq}
        ELSE {}

\* next_seq_no after the log and the tables have been read again.
NextSeq(log, sstables) == 1 + Max({0} \cup {r.seq : r \in log \cup UNION sstables})

\* Rollback_to_tx: the log is truncated and replayed; a table with records on
\* both sides of the target is written again if enough of it survives, and else
\* its survivors go to the memtable.  Internal records are above every target.
RollbackToTx(s, target) ==
    LET Surviving(b) == {r \in b : r.tx <= target}
        kept     == {b \in s.sstables : Surviving(b) = b}
        spanning == {b \in s.sstables \ kept : Surviving(b) # {}}
        rebuilt  == {b \in spanning :
                        Cardinality(Surviving(b)) >= MIN_ENTRIES_FOR_SSTABLE_REBUILD}
        log      == TruncatedLog(s, target)
        sstables == kept \cup {Surviving(b) : b \in rebuilt}
    IN  [s EXCEPT !.log = log,
                  !.memtable = log \cup UNION {Surviving(b) : b \in spanning \ rebuilt},
                  !.sstables = sstables,
                  !.last_committed_tx = target,
                  !.seq = NextSeq(log, sstables)]

\* A commit whose append fails has drained the buffer; the store is rolled back
\* to the last committed transaction.
CommitFails(s, tx) == RollbackToTx(Rollback(s, tx), s.last_committed_tx)

\* The max_tx_id of a table is that of its newest record, internal or not, and
\* counts for nothing when it is internal.
Horizon(b) == IF \E r \in b : Internal(r) THEN 0 ELSE Max({0} \cup {r.tx : r \in b})

Flush(s) ==
    IF s.memtable = {} THEN s
    ELSE [s EXCEPT !.log = {},
                   !.memtable = {},
                   !.sstables = @ \cup {Newest(s.memtable)},
                   !.last_committed_tx = Max({@, Horizon(s.memtable)})]

\* LsmStorage::new: replay the log, recompute last_committed_tx, flush.
Reopen(s) ==
    Flush([s EXCEPT !.tx_buffer = {},
                    !.memtable = s.log,
                    !.seq = NextSeq(s.log, s.sstables),
                    !.last_committed_tx =
                        Max({0} \cup {r.tx : r \in {q \in s.log : ~Internal(q)}}
                                \cup {Horizon(b) : b \in s.sstables})])

\* The highest transaction that a client has committed and that is stored.
HighestTx(s) ==
    Max({0} \cup {r.tx : r \in {q \in s.memtable \cup s.log \cup UNION s.sstables :
                                    ~Internal(q)}})
=============================================================================
