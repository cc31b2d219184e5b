-------------------------- MODULE AgentEngineProofs --------------------------
(***************************************************************************)
(* Proofs about AgentEngine, for any graph, tasks, budget, limits and      *)
(* environment: its types, that what is committed stays readable, that a   *)
(* step which is readable as committed has its audit entry, that the       *)
(* budget of a task covers what its audit log says was consumed, and that  *)
(* a replay undoes exactly the steps from its checkpoint on.               *)
(*                                                                         *)
(* EngineType gives every part of the state its type. KeepInv says what    *)
(* the store owes to its history: unless a restart was blind every row of  *)
(* a client is visible, and unless something was left unlogged the whole   *)
(* memtable is in the log. CommittedKept follows from it step by step      *)
(* (StepKeeps). AuditInv says of a store, and of the calls at work on it,  *)
(* that the row of a step has an audit entry which is older by its         *)
(* transaction and by its sequence number, and which is in an sstable when *)
(* the row is: a rollback to any transaction, which removes by transaction *)
(* in the sstables and by sequence in the log, then never removes the      *)
(* entry and leaves the row.                                               *)
(*                                                                         *)
(* BudgetInv says of each task, and of each stored checkpoint, that its    *)
(* budget covers the audit entries: those of the task, and those that a    *)
(* replay from the checkpoint would keep. It says so of some bound on the  *)
(* entries of each step, so that a step of the engine compares the entries *)
(* with the bound and never two sums. SplitInv says of each stored         *)
(* checkpoint that a rollback to its transaction divides the audit log of  *)
(* its task at its step.                                                   *)
(*                                                                         *)
(* A commit that fails rolls the store back to the last committed          *)
(* transaction. Without the feature encryption_at_rest the scan of the log *)
(* for that transaction reports nothing and the log is truncated to        *)
(* nothing, so the theorems about what stays readable assume the feature.  *)
(***************************************************************************)
EXTENDS AgentEngine, NatSetLemmas

(* The ids of the transactions of clients: those that allocate_tx hands out, and 0. *)
Collection == 0 .. MAX_COLLECTION_SEQUENCE

(* A store is a record of these six fields. *)
IsStore(s) ==
    s = [log |-> s.log, memtable |-> s.memtable, sstables |-> s.sstables,
         tx_buffer |-> s.tx_buffer, last_committed_tx |-> s.last_committed_tx, seq |-> s.seq]

(* The rows a read of the store goes through. *)
Readable(s) == s.memtable \cup UNION s.sstables

(* The kinds of key that only the checkpoint store writes. *)
InternalKinds == {"hwm", "checkpoint"}

(* A row, or a write that is staged: it has an internal id exactly if the checkpoint *)
(* store wrote it, and what a checkpoint says of its task is well typed.             *)
RowOK(o) ==
    /\ o.tx \in Collection \cup {INTERNAL_BASE}
    /\ o.tx = INTERNAL_BASE <=> o.key[1] \in InternalKinds
    /\ o.key[1] = "checkpoint" =>
          /\ o.val.tx_id \in Collection /\ o.val.step \in Nat /\ o.val.consumed \in Nat
          /\ o.val.node \in DOMAIN NodeType

(* The type of a store: the log holds no row that the memtable does not, and the sequence *)
(* numbers are bounded.                                                                   *)
StoreType(s) ==
    /\ IsStore(s)
    /\ s.log \subseteq s.memtable
    /\ \A r \in Readable(s) : RowOK(r) /\ r.seq \in Nat
    /\ \E n \in Nat : \A r \in Readable(s) : r.seq <= n
    /\ \A o \in s.tx_buffer : RowOK(o)
    /\ s.last_committed_tx \in Collection
    /\ s.seq \in Nat \ {0}

(* The rows that the commit of tx makes of what it staged. *)
NewRows(s, tx) ==
    {[seq |-> s.seq, tx |-> tx, key |-> o.key, val |-> o.val] : o \in StagedBy(s, tx)}

(* The numbers behind the ids: those of clients stay below the internal ones. *)
LEMMA Base ==
    /\ MAX_COLLECTION_SEQUENCE \in Nat \ {0} /\ INTERNAL_BASE \in Nat \ {0}
    /\ MAX_COLLECTION_SEQUENCE + 1 < INTERNAL_BASE
    /\ \A n \in Collection : n \in Nat /\ n <= MAX_COLLECTION_SEQUENCE /\ n < INTERNAL_BASE
    /\ \A n \in Nat : n <= MAX_COLLECTION_SEQUENCE => n \in Collection
BY AgentAssumption, StorageAssumption DEF Collection

(* Max of a set of numbers that is not empty and bounded is its greatest element. *)
LEMMA MaxOf ==
  ASSUME NEW S, S \subseteq Nat, S # {}, NEW b \in Nat, \A x \in S : x <= b
  PROVE  Max(S) \in S /\ \A x \in S : x <= Max(S)
<1>1. \E m \in S : \A x \in S : x <= m
  BY GreatestExists
<1>2. \E m \in S : \A x \in S : m >= x
  BY <1>1
<1>3. Max(S) \in S /\ \A x \in S : Max(S) >= x
  BY <1>2 DEF Max
<1> QED BY <1>3

(* Max of two numbers. *)
LEMMA MaxTwo ==
  ASSUME NEW a \in Nat, NEW b \in Nat
  PROVE  Max({a, b}) \in {a, b} /\ a <= Max({a, b}) /\ b <= Max({a, b})
<1>1. a + b \in Nat /\ \A x \in {a, b} : x <= a + b
  OBVIOUS
<1>2. Max({a, b}) \in {a, b} /\ \A x \in {a, b} : x <= Max({a, b})
  BY <1>1, MaxOf
<1> QED BY <1>2

-----------------------------------------------------------------------------

(* What put changes: the transaction buffer. *)
LEMMA PutStore ==
  ASSUME NEW s, IsStore(s), NEW tx, NEW key, NEW val, NEW p, p = Put(s, tx, key, val)
  PROVE  /\ IsStore(p)
         /\ p.log = s.log /\ p.memtable = s.memtable /\ p.sstables = s.sstables
         /\ p.tx_buffer = s.tx_buffer \cup {[tx |-> tx, key |-> key, val |-> val]}
         /\ p.last_committed_tx = s.last_committed_tx /\ p.seq = s.seq
BY DEF IsStore, Put

(* What the rollback of one transaction changes: it takes its writes from the buffer. *)
LEMMA DrainStore ==
  ASSUME NEW s, IsStore(s), NEW tx, NEW p, p = Rollback(s, tx)
  PROVE  /\ IsStore(p)
         /\ p.log = s.log /\ p.memtable = s.memtable /\ p.sstables = s.sstables
         /\ p.tx_buffer = s.tx_buffer \ StagedBy(s, tx)
         /\ p.last_committed_tx = s.last_committed_tx /\ p.seq = s.seq
BY DEF IsStore, Rollback

(* What commit changes: the rows of tx enter the log and the memtable, and leave the *)
(* buffer.                                                                           *)
LEMMA CommitStore ==
  ASSUME NEW s, IsStore(s), NEW tx, NEW p, p = Commit(s, tx)
  PROVE  /\ IsStore(p)
         /\ p.log = s.log \cup NewRows(s, tx) /\ p.memtable = s.memtable \cup NewRows(s, tx)
         /\ p.sstables = s.sstables
         /\ p.tx_buffer = s.tx_buffer \ StagedBy(s, tx)
         /\ NewRows(s, tx) = {} => p = s
         /\ NewRows(s, tx) # {} =>
               p.last_committed_tx = Advanced(s, tx) /\ p.seq = s.seq + 1
<1>1. CASE NewRows(s, tx) = {}
  <2>1. p = s
    BY <1>1 DEF Commit, NewRows
  <2>2. StagedBy(s, tx) = {}
    BY <1>1 DEF NewRows
  <2> QED BY <1>1, <2>1, <2>2
<1>2. CASE NewRows(s, tx) # {}
  <2>1. p = [s EXCEPT !.tx_buffer = @ \ StagedBy(s, tx),
                       !.log = @ \cup NewRows(s, tx),
                       !.memtable = @ \cup NewRows(s, tx),
                       !.last_committed_tx = Advanced(s, tx),
                       !.seq = @ + 1]
    BY <1>2 DEF Commit, NewRows
  <2> QED BY <1>2, <2>1 DEF IsStore
<1> QED BY <1>1, <1>2

(* What rollback_to_tx leaves: of the log the part before the cut, of the sstables the *)
(* rows up to the target, nothing else.                                                *)
LEMMA RollbackStore ==
  ASSUME NEW s, IsStore(s), NEW target, NEW p, p = RollbackToTx(s, target)
  PROVE  /\ IsStore(p)
         /\ p.log = TruncatedLog(s, target) /\ p.log \subseteq s.log
         /\ p.log \subseteq p.memtable
         /\ \A r \in p.memtable : r \in p.log \/ (r \in UNION s.sstables /\ r.tx <= target)
         /\ \A r \in UNION p.sstables : r \in UNION s.sstables /\ r.tx <= target
         /\ \A r \in UNION s.sstables : r.tx <= target => r \in Readable(p)
         /\ p.tx_buffer = s.tx_buffer
         /\ p.last_committed_tx = target /\ p.seq = NextSeq(p.log, p.sstables)
<1> DEFINE Surviving(b) == {r \in b : r.tx <= target}
           kept == {b \in s.sstables : Surviving(b) = b}
           spanning == {b \in s.sstables \ kept : Surviving(b) # {}}
           rebuilt == {b \in spanning :
                          Cardinality(Surviving(b)) >= MIN_ENTRIES_FOR_SSTABLE_REBUILD}
           log == TruncatedLog(s, target)
           sstables == kept \cup {Surviving(b) : b \in rebuilt}
           moved == UNION {Surviving(b) : b \in spanning \ rebuilt}
<1>1. p = [s EXCEPT !.log = log, !.memtable = log \cup moved, !.sstables = sstables,
                    !.last_committed_tx = target, !.seq = NextSeq(log, sstables)]
  BY DEF RollbackToTx
<1>2. log \subseteq s.log
  BY DEF TruncatedLog
<1>3. \A r \in moved : r \in UNION s.sstables /\ r.tx <= target
  OBVIOUS
<1>4. \A r \in UNION sstables : r \in UNION s.sstables /\ r.tx <= target
  <2> SUFFICES ASSUME NEW c \in sstables, NEW r \in c
               PROVE  r \in UNION s.sstables /\ r.tx <= target
    OBVIOUS
  <2>1. CASE c \in kept
    <3>1. r \in Surviving(c)
      BY <2>1
    <3> QED BY <2>1, <3>1
  <2>2. CASE c \in {Surviving(b) : b \in rebuilt}
    BY <2>2
  <2> QED BY <2>1, <2>2
<1>5. \A r \in UNION s.sstables : r.tx <= target => r \in moved \/ r \in UNION sstables
  <2> SUFFICES ASSUME NEW b \in s.sstables, NEW r \in b, r.tx <= target
               PROVE  r \in moved \/ r \in UNION sstables
    OBVIOUS
  <2>1. r \in Surviving(b)
    OBVIOUS
  <2>2. CASE b \in kept
    BY <2>2
  <2>3. CASE b \in rebuilt
    <3>1. Surviving(b) \in sstables
      BY <2>3
    <3> QED BY <2>1, <3>1
  <2>4. CASE b \notin kept /\ b \notin rebuilt
    <3>1. b \in spanning \ rebuilt
      BY <2>1, <2>4
    <3> QED BY <2>1, <3>1
  <2> QED BY <2>2, <2>3, <2>4
<1> HIDE DEF log, sstables, moved, kept, spanning, rebuilt, Surviving
<1>6. /\ IsStore(p) /\ p.log = log /\ p.memtable = log \cup moved /\ p.sstables = sstables
      /\ p.tx_buffer = s.tx_buffer /\ p.last_committed_tx = target
      /\ p.seq = NextSeq(log, sstables)
  BY <1>1 DEF IsStore
<1>7. log = TruncatedLog(s, target)
  BY DEF log
<1> QED BY <1>2, <1>3, <1>4, <1>5, <1>6, <1>7 DEF Readable

(* The commit horizon of a batch of rows is the id of a client's transaction, or 0. *)
LEMMA HorizonType ==
  ASSUME NEW b, \A r \in b : RowOK(r)
  PROVE  Horizon(b) \in Collection
<1> DEFINE txs == {0} \cup {r.tx : r \in b}
<1>1. CASE \E r \in b : Internal(r)
  BY <1>1, Base DEF Horizon
<1>2. CASE ~ \E r \in b : Internal(r)
  <2>1. txs \subseteq Collection
    BY <1>2, Base DEF RowOK, Internal
  <2>2. txs # {} /\ txs \subseteq Nat /\ \A x \in txs : x <= MAX_COLLECTION_SEQUENCE
    BY <2>1, Base
  <2>3. Max(txs) \in txs
    <3> HIDE DEF txs
    <3> QED BY <2>2, MaxOf, Base
  <2> QED BY <1>2, <2>1, <2>3 DEF Horizon
<1> QED BY <1>1, <1>2

(* What flush changes: the newest row of each key moves from the memtable to the *)
(* sstables, and last_committed_tx does not fall.                                *)
LEMMA FlushStore ==
  ASSUME NEW s, StoreType(s), NEW p, p = Flush(s)
  PROVE  /\ IsStore(p)
         /\ p.log = {} /\ p.memtable = {}
         /\ UNION p.sstables = (UNION s.sstables) \cup Newest(s.memtable)
         /\ p.tx_buffer = s.tx_buffer /\ p.seq = s.seq
         /\ p.last_committed_tx \in Collection
         /\ s.last_committed_tx <= p.last_committed_tx
<1>1. CASE s.memtable = {}
  <2>1. Newest(s.memtable) = {}
    BY <1>1 DEF Newest
  <2>2. p = s /\ s.log = {}
    BY <1>1 DEF Flush, StoreType
  <2> QED BY <1>1, <2>1, <2>2, Base DEF StoreType
<1>2. CASE s.memtable # {}
  <2> DEFINE h == Horizon(s.memtable)
             lct == s.last_committed_tx
  <2>1. h \in Collection
    BY HorizonType DEF StoreType, Readable
  <2>2. lct \in Collection
    BY DEF StoreType
  <2>3. Max({lct, h}) \in {lct, h} /\ lct <= Max({lct, h})
    <3> HIDE DEF h, lct
    <3> QED BY <2>1, <2>2, MaxTwo, Base
  <2>4. p = [s EXCEPT !.log = {}, !.memtable = {},
                       !.sstables = @ \cup {Newest(s.memtable)},
                       !.last_committed_tx = Max({lct, h})]
    BY <1>2 DEF Flush
  <2>5. /\ IsStore(p) /\ p.log = {} /\ p.memtable = {}
        /\ p.sstables = s.sstables \cup {Newest(s.memtable)}
        /\ p.tx_buffer = s.tx_buffer /\ p.seq = s.seq /\ p.last_committed_tx = Max({lct, h})
    <3> HIDE DEF h, lct
    <3> QED BY <2>4 DEF IsStore, StoreType
  <2> QED BY <2>1, <2>2, <2>3, <2>5
<1> QED BY <1>1, <1>2

(* The sequence number a store starts with after recovery is above that of every row it *)
(* has.                                                                                 *)
LEMMA NextSeqAbove ==
  ASSUME NEW log, NEW sstables, NEW n \in Nat,
         \A r \in log \cup UNION sstables : r.seq \in Nat /\ r.seq <= n
  PROVE  /\ NextSeq(log, sstables) \in Nat \ {0}
         /\ \A r \in log \cup UNION sstables : r.seq < NextSeq(log, sstables)
<1> DEFINE seqs == {0} \cup {r.seq : r \in log \cup UNION sstables}
<1>1. seqs \subseteq Nat /\ seqs # {} /\ \A x \in seqs : x <= n
  OBVIOUS
<1>2. \A r \in log \cup UNION sstables : r.seq \in seqs
  OBVIOUS
<1>3. NextSeq(log, sstables) = 1 + Max(seqs)
  BY DEF NextSeq
<1>4. Max(seqs) \in seqs /\ \A x \in seqs : x <= Max(seqs)
  <2> HIDE DEF seqs
  <2> QED BY <1>1, MaxOf
<1> HIDE DEF seqs
<1>5. Max(seqs) \in Nat
  BY <1>1, <1>4
<1>6. \A r \in log \cup UNION sstables : r.seq \in Nat /\ r.seq <= Max(seqs)
  BY <1>2, <1>4
<1>7. \A m \in Nat : m <= Max(seqs) => m < 1 + Max(seqs)
  BY <1>5
<1> QED BY <1>3, <1>5, <1>6, <1>7

-----------------------------------------------------------------------------

(* Put keeps the type of the store. *)
LEMMA PutType ==
  ASSUME NEW s, StoreType(s), NEW tx, NEW key, NEW val,
         RowOK([tx |-> tx, key |-> key, val |-> val])
  PROVE  StoreType(Put(s, tx, key, val))
<1> DEFINE p == Put(s, tx, key, val)
<1>1. /\ IsStore(p)
      /\ p.log = s.log /\ p.memtable = s.memtable /\ p.sstables = s.sstables
      /\ p.tx_buffer = s.tx_buffer \cup {[tx |-> tx, key |-> key, val |-> val]}
      /\ p.last_committed_tx = s.last_committed_tx /\ p.seq = s.seq
  BY PutStore DEF StoreType
<1> HIDE DEF p
<1>2. Readable(p) = Readable(s)
  BY <1>1 DEF Readable
<1>3. \A o \in p.tx_buffer : RowOK(o)
  BY <1>1 DEF StoreType
<1>4. StoreType(p)
  BY <1>1, <1>2, <1>3 DEF StoreType
<1> QED BY <1>4 DEF p

(* So does the rollback of one transaction. *)
LEMMA DrainType ==
  ASSUME NEW s, StoreType(s), NEW tx
  PROVE  StoreType(Rollback(s, tx))
<1> DEFINE p == Rollback(s, tx)
<1>1. /\ IsStore(p)
      /\ p.log = s.log /\ p.memtable = s.memtable /\ p.sstables = s.sstables
      /\ p.tx_buffer = s.tx_buffer \ StagedBy(s, tx)
      /\ p.last_committed_tx = s.last_committed_tx /\ p.seq = s.seq
  BY DrainStore DEF StoreType
<1> HIDE DEF p
<1>2. Readable(p) = Readable(s)
  BY <1>1 DEF Readable
<1>3. StoreType(p)
  BY <1>1, <1>2 DEF StoreType
<1> QED BY <1>3 DEF p

(* The rows of a commit are rows, with the sequence number of the commit. *)
LEMMA NewRowsType ==
  ASSUME NEW s, StoreType(s), NEW tx, NEW r \in NewRows(s, tx)
  PROVE  RowOK(r) /\ r.seq = s.seq /\ r.tx = tx
<1>1. PICK o \in StagedBy(s, tx) :
         r = [seq |-> s.seq, tx |-> tx, key |-> o.key, val |-> o.val]
  BY DEF NewRows
<1>2. RowOK(o) /\ o.tx = tx
  BY DEF StoreType, StagedBy
<1>3. r.tx = o.tx /\ r.key = o.key /\ r.val = o.val /\ r.seq = s.seq
  BY <1>1, <1>2
<1> QED BY <1>2, <1>3 DEF RowOK

(* A commit never lowers last_committed_tx, and only the id of a client raises it. *)
LEMMA AdvancedType ==
  ASSUME NEW s, StoreType(s), NEW tx, tx \in Collection \cup {INTERNAL_BASE}
  PROVE  /\ Advanced(s, tx) \in Collection /\ s.last_committed_tx <= Advanced(s, tx)
         /\ tx \in Collection => tx <= Advanced(s, tx)
<1> DEFINE l == s.last_committed_tx
<1>1. l \in Collection
  BY DEF StoreType
<1>2. CASE tx \in Collection
  <2>1. Max({l, tx}) \in {l, tx} /\ l <= Max({l, tx}) /\ tx <= Max({l, tx})
    <3> HIDE DEF l
    <3> QED BY <1>1, <1>2, MaxTwo, Base
  <2> QED BY <1>1, <1>2, <2>1, Base DEF Advanced
<1>3. CASE tx = INTERNAL_BASE
  <2>1. INTERNAL_BASE \notin Collection
    BY Base
  <2>2. Advanced(s, tx) = l
    BY <1>3, Base DEF Advanced
  <2>3. l \in Nat /\ l <= l
    BY <1>1, Base
  <2> QED BY <1>1, <1>3, <2>1, <2>2, <2>3
<1> QED BY <1>2, <1>3

(* Commit keeps the type of the store. *)
LEMMA CommitType ==
  ASSUME NEW s, StoreType(s), NEW tx
  PROVE  StoreType(Commit(s, tx))
<1> DEFINE p == Commit(s, tx)
           new == NewRows(s, tx)
<1>1. /\ IsStore(p)
      /\ p.log = s.log \cup new /\ p.memtable = s.memtable \cup new
      /\ p.sstables = s.sstables /\ p.tx_buffer = s.tx_buffer \ StagedBy(s, tx)
      /\ new = {} => p = s
      /\ new # {} => p.last_committed_tx = Advanced(s, tx) /\ p.seq = s.seq + 1
  BY CommitStore DEF StoreType
<1>2. \A r \in new : RowOK(r) /\ r.seq = s.seq /\ r.tx = tx
  BY NewRowsType
<1> HIDE DEF p, new
<1>3. CASE new = {}
  BY <1>1, <1>3 DEF p
<1>4. CASE new # {}
  <2>1. Readable(p) = Readable(s) \cup new
    BY <1>1 DEF Readable
  <2>2. PICK n \in Nat : \A r \in Readable(s) : r.seq \in Nat /\ r.seq <= n
    BY DEF StoreType
  <2>3. s.seq \in Nat \ {0}
    BY DEF StoreType
  <2>4. n + s.seq \in Nat /\ \A r \in Readable(p) : r.seq \in Nat /\ r.seq <= n + s.seq
    BY <1>2, <2>1, <2>2, <2>3
  <2>5. tx \in Collection \cup {INTERNAL_BASE}
    BY <1>2, <1>4 DEF RowOK
  <2>6. p.last_committed_tx \in Collection
    BY <1>1, <1>4, <2>5, AdvancedType
  <2>7. p.log \subseteq p.memtable /\ \A r \in Readable(p) : RowOK(r)
    BY <1>1, <1>2, <2>1 DEF StoreType
  <2>8. \A o \in p.tx_buffer : RowOK(o)
    BY <1>1 DEF StoreType
  <2>9. StoreType(p)
    BY <1>1, <1>4, <2>3, <2>4, <2>6, <2>7, <2>8 DEF StoreType
  <2> QED BY <2>9 DEF p
<1> QED BY <1>3, <1>4

(* So does rollback_to_tx, and it makes nothing readable that was not. *)
LEMMA RollbackType ==
  ASSUME NEW s, StoreType(s), NEW target \in Collection
  PROVE  /\ StoreType(RollbackToTx(s, target))
         /\ Readable(RollbackToTx(s, target)) \subseteq Readable(s)
<1> DEFINE p == RollbackToTx(s, target)
<1>1. /\ IsStore(p)
      /\ p.log \subseteq s.log /\ p.log \subseteq p.memtable
      /\ \A r \in p.memtable : r \in p.log \/ (r \in UNION s.sstables /\ r.tx <= target)
      /\ \A r \in UNION p.sstables : r \in UNION s.sstables /\ r.tx <= target
      /\ p.tx_buffer = s.tx_buffer
      /\ p.last_committed_tx = target /\ p.seq = NextSeq(p.log, p.sstables)
  <2>1. IsStore(s)
    BY DEF StoreType
  <2> QED BY <2>1, RollbackStore
<1> HIDE DEF p
<1>2. Readable(p) \subseteq Readable(s) /\ p.log \cup UNION p.sstables \subseteq Readable(p)
  BY <1>1 DEF Readable, StoreType
<1>3. PICK n \in Nat : \A r \in Readable(s) : r.seq \in Nat /\ r.seq <= n
  BY DEF StoreType
<1>4. p.seq \in Nat \ {0}
  BY <1>1, <1>2, <1>3, NextSeqAbove
<1>5. \A r \in Readable(p) : RowOK(r) /\ r.seq \in Nat /\ r.seq <= n
  BY <1>2, <1>3 DEF StoreType
<1>6. StoreType(p)
  BY <1>1, <1>4, <1>5 DEF StoreType
<1> QED BY <1>2, <1>6 DEF p

(* So does flush, which makes nothing readable that was not. *)
LEMMA FlushType ==
  ASSUME NEW s, StoreType(s)
  PROVE  StoreType(Flush(s)) /\ Readable(Flush(s)) \subseteq Readable(s)
<1> DEFINE p == Flush(s)
<1>1. /\ IsStore(p) /\ p.log = {} /\ p.memtable = {}
      /\ UNION p.sstables = (UNION s.sstables) \cup Newest(s.memtable)
      /\ p.tx_buffer = s.tx_buffer /\ p.seq = s.seq
      /\ p.last_committed_tx \in Collection
  BY FlushStore
<1> HIDE DEF p
<1>2. Readable(p) \subseteq Readable(s)
  BY <1>1 DEF Readable, Newest
<1>3. StoreType(p)
  BY <1>1, <1>2 DEF StoreType
<1> QED BY <1>2, <1>3 DEF p

(* Opening a store first replays its log; the flush of what was replayed follows. *)
Replayed(s) ==
    [s EXCEPT !.tx_buffer = {},
              !.memtable = s.log,
              !.seq = NextSeq(s.log, s.sstables),
              !.last_committed_tx =
                  Max({0} \cup {r.tx : r \in {q \in s.log : ~Internal(q)}}
                          \cup {Horizon(b) : b \in s.sstables})]

(* What the replay of the log leaves. *)
LEMMA ReplayedStore ==
  ASSUME NEW s, StoreType(s), NEW p, p = Replayed(s)
  PROVE  /\ StoreType(p)
         /\ p.tx_buffer = {} /\ p.memtable = s.log /\ p.log = s.log
         /\ p.sstables = s.sstables /\ p.seq = NextSeq(s.log, s.sstables)
         /\ \A r \in Readable(p) : r.seq < p.seq
<1> DEFINE txs == {0} \cup {r.tx : r \in {q \in s.log : ~Internal(q)}}
                      \cup {Horizon(b) : b \in s.sstables}
<1>1. txs \subseteq Collection
  <2>1. \A b \in s.sstables : Horizon(b) \in Collection
    BY HorizonType DEF StoreType, Readable
  <2>2. \A r \in s.log : ~Internal(r) => r.tx \in Collection
    BY Base DEF StoreType, Readable, RowOK, Internal
  <2> QED BY <2>1, <2>2, Base
<1>2. Max(txs) \in Collection
  <2>1. txs # {} /\ txs \subseteq Nat /\ \A x \in txs : x <= MAX_COLLECTION_SEQUENCE
    BY <1>1, Base
  <2> HIDE DEF txs
  <2> QED BY <1>1, <2>1, MaxOf, Base
<1>3. p = [s EXCEPT !.tx_buffer = {}, !.memtable = s.log,
                    !.seq = NextSeq(s.log, s.sstables), !.last_committed_tx = Max(txs)]
  BY DEF Replayed
<1> HIDE DEF txs
<1>4. /\ IsStore(p) /\ p.log = s.log /\ p.memtable = s.log /\ p.sstables = s.sstables
      /\ p.tx_buffer = {} /\ p.seq = NextSeq(s.log, s.sstables)
      /\ p.last_committed_tx = Max(txs)
  BY <1>3 DEF IsStore, StoreType
<1>5. PICK n \in Nat : \A r \in Readable(s) : r.seq \in Nat /\ r.seq <= n
  BY DEF StoreType
<1>6. Readable(p) = s.log \cup UNION s.sstables /\ Readable(p) \subseteq Readable(s)
  BY <1>4 DEF Readable, StoreType
<1>7. p.seq \in Nat \ {0} /\ \A r \in s.log \cup UNION s.sstables : r.seq < p.seq
  BY <1>4, <1>5, <1>6, NextSeqAbove
<1>8. \A r \in Readable(p) : RowOK(r) /\ r.seq \in Nat /\ r.seq <= n
  BY <1>5, <1>6 DEF StoreType
<1> QED BY <1>2, <1>4, <1>6, <1>7, <1>8 DEF StoreType

(* Opening a store is the replay of its log and a flush. *)
LEMMA ReopenIs ==
  ASSUME NEW s
  PROVE  Reopen(s) = Flush(Replayed(s))
BY DEF Reopen, Replayed

(* Opening a store keeps its type, reads no new row and empties the transaction buffer. *)
LEMMA ReopenType ==
  ASSUME NEW s, StoreType(s)
  PROVE  /\ StoreType(Reopen(s)) /\ Readable(Reopen(s)) \subseteq Readable(s)
         /\ Reopen(s).tx_buffer = {}
<1>1. /\ StoreType(Replayed(s)) /\ Readable(Replayed(s)) \subseteq Readable(s)
      /\ Replayed(s).tx_buffer = {}
  BY ReplayedStore DEF Readable, StoreType
<1>2. /\ StoreType(Flush(Replayed(s)))
      /\ Readable(Flush(Replayed(s))) \subseteq Readable(Replayed(s))
      /\ Flush(Replayed(s)).tx_buffer = {}
  BY <1>1, FlushType, FlushStore
<1> QED BY <1>1, <1>2, ReopenIs

-----------------------------------------------------------------------------

(* Between two steps of the engine nothing internal is staged. *)
StoreOK(s) == StoreType(s) /\ \A o \in s.tx_buffer : o.tx \in Collection

(* A put of a client's transaction keeps that. *)
LEMMA PutOK ==
  ASSUME NEW s, StoreOK(s), NEW tx \in Collection, NEW key, key[1] \notin InternalKinds, NEW val
  PROVE  StoreOK(Put(s, tx, key, val))
<1> DEFINE e == [tx |-> tx, key |-> key, val |-> val]
<1>1. e.tx = tx /\ e.key = key /\ tx # INTERNAL_BASE /\ key[1] # "checkpoint"
  BY Base DEF InternalKinds
<1>2. RowOK(e)
  <2> HIDE DEF e
  <2> QED BY <1>1 DEF RowOK
<1>3. StoreType(Put(s, tx, key, val))
  BY <1>2, PutType DEF StoreOK
<1>4. Put(s, tx, key, val).tx_buffer = s.tx_buffer \cup {e}
  BY PutStore DEF StoreOK, StoreType
<1> HIDE DEF e
<1> QED BY <1>1, <1>3, <1>4 DEF StoreOK

(* The rollback of a transaction does. *)
LEMMA DrainOK ==
  ASSUME NEW s, StoreOK(s), NEW tx
  PROVE  StoreOK(Rollback(s, tx))
<1>1. Rollback(s, tx).tx_buffer \subseteq s.tx_buffer
  BY DrainStore DEF StoreOK, StoreType
<1> QED BY <1>1, DrainType DEF StoreOK

(* Commit does. *)
LEMMA CommitOK ==
  ASSUME NEW s, StoreOK(s), NEW tx
  PROVE  StoreOK(Commit(s, tx))
<1>1. Commit(s, tx).tx_buffer \subseteq s.tx_buffer
  BY CommitStore DEF StoreOK, StoreType
<1> QED BY <1>1, CommitType DEF StoreOK

(* rollback_to_tx does. *)
LEMMA RollbackOK ==
  ASSUME NEW s, StoreOK(s), NEW target \in Collection
  PROVE  StoreOK(RollbackToTx(s, target))
<1>1. RollbackToTx(s, target).tx_buffer = s.tx_buffer
  BY RollbackStore DEF StoreOK, StoreType
<1> QED BY <1>1, RollbackType DEF StoreOK

(* A commit that fails does. *)
LEMMA FailsOK ==
  ASSUME NEW s, StoreOK(s), NEW tx
  PROVE  StoreOK(CommitFails(s, tx))
<1>1. StoreOK(Rollback(s, tx)) /\ s.last_committed_tx \in Collection
  BY DrainOK DEF StoreOK, StoreType
<1> QED BY <1>1, RollbackOK DEF CommitFails

(* Flush does. *)
LEMMA FlushOK ==
  ASSUME NEW s, StoreOK(s)
  PROVE  StoreOK(Flush(s))
<1>1. Flush(s).tx_buffer = s.tx_buffer
  BY FlushStore DEF StoreOK
<1> QED BY <1>1, FlushType DEF StoreOK

(* Opening the store does. *)
LEMMA ReopenOK ==
  ASSUME NEW s, StoreOK(s)
  PROVE  StoreOK(Reopen(s))
BY ReopenType DEF StoreOK

\* A put and the commit of an internal transaction leave nothing internal staged.
LEMMA InternalPut ==
  ASSUME NEW s, StoreOK(s), NEW key, NEW val,
         RowOK([tx |-> INTERNAL_BASE, key |-> key, val |-> val]),
         NEW p, p = Put(s, INTERNAL_BASE, key, val)
  PROVE  /\ StoreType(p)
         /\ \A o \in p.tx_buffer : o.tx # INTERNAL_BASE => o.tx \in Collection
         /\ StoreOK(Commit(p, INTERNAL_BASE)) /\ StoreOK(CommitFails(p, INTERNAL_BASE))
<1>1. StoreType(p)
  BY PutType DEF StoreOK
<1>2. p.tx_buffer = s.tx_buffer \cup {[tx |-> INTERNAL_BASE, key |-> key, val |-> val]}
  BY PutStore DEF StoreOK, StoreType
<1>3. \A o \in p.tx_buffer : o.tx # INTERNAL_BASE => o.tx \in Collection
  BY <1>2 DEF StoreOK
<1>4. p.tx_buffer \ StagedBy(p, INTERNAL_BASE) \subseteq {o \in p.tx_buffer : o.tx \in Collection}
  BY <1>3 DEF StagedBy
<1>5. StoreOK(Commit(p, INTERNAL_BASE))
  <2>1. Commit(p, INTERNAL_BASE).tx_buffer = p.tx_buffer \ StagedBy(p, INTERNAL_BASE)
    BY <1>1, CommitStore DEF StoreType
  <2> QED BY <1>1, <1>4, <2>1, CommitType DEF StoreOK
<1>6. StoreOK(Rollback(p, INTERNAL_BASE))
  <2>1. Rollback(p, INTERNAL_BASE).tx_buffer = p.tx_buffer \ StagedBy(p, INTERNAL_BASE)
    BY <1>1, DrainStore DEF StoreType
  <2> QED BY <1>1, <1>4, <2>1, DrainType DEF StoreOK
<1>7. p.last_committed_tx \in Collection
  BY <1>1 DEF StoreType
<1> QED BY <1>1, <1>3, <1>5, <1>6, <1>7, RollbackOK DEF CommitFails

(* The reservation of ids by the checkpoint store does. *)
LEMMA ReservedOK ==
  ASSUME NEW s, StoreOK(s)
  PROVE  StoreOK(Reserved(s))
<1>1. CASE hwm_reserved
  BY <1>1 DEF Reserved
<1>2. CASE ~hwm_reserved
  <2> DEFINE e == [tx |-> INTERNAL_BASE, key |-> HwmKey, val |-> <<>>]
  <2>1. e.tx = INTERNAL_BASE /\ e.key[1] = "hwm"
    BY DEF HwmKey
  <2>2. RowOK(e)
    <3> HIDE DEF e
    <3> QED BY <2>1 DEF RowOK, InternalKinds
  <2>3. StoreOK(Commit(Put(s, INTERNAL_BASE, HwmKey, <<>>), INTERNAL_BASE))
    BY <2>2, InternalPut
  <2> QED BY <1>2, <2>3, FlushOK DEF Reserved
<1> QED BY <1>1, <1>2

-----------------------------------------------------------------------------

(* The locals of a call of run. *)
CallType ==
    [pc : Pcs, guard : Collection \cup {NONE}, reserved : Nat, attempt : Nat,
     tx : Collection, cp : Collection, seq_no : Nat, tokens : Nat,
     next : {"idle", "failure", "execute"}, todo : Seq(Collection), last_tx : Nat]

(* An AgentContext. *)
ContextType == [node : DOMAIN NodeType, step : Nat, consumed : Nat, status : Statuses]

(* What may have happened that the properties except. *)
Departures == {"erased", "ahead", "unlogged", "mixed", "raced", "blind", "stale"}

(* The locals c of a call fit its place in the code and the context k: what is reserved *)
(* is counted as consumed, and a letter returns to the tool or to the failure.          *)
CallOK(c, k) ==
    /\ c.reserved <= k.consumed
    /\ c.pc = "idle" => c.reserved = 0
    /\ c.pc = "recovering" => c.todo # <<>>
    /\ c.pc \in {"letter", "letter_put"} => c.next \in {"failure", "execute"}

(* The contexts and the calls have their types and fit each other. *)
TasksOK ==
    /\ ctx \in [Tasks -> ContextType] /\ call \in [Tasks -> CallType]
    /\ \A t \in Tasks : CallOK(call[t], ctx[t])

(* The counters of transactions do not pass the bound on ids by more than one. *)
CountersOK ==
    /\ next_tx \in 1 .. MAX_COLLECTION_SEQUENCE + 1
    /\ dlq_next_tx \in 0 .. MAX_COLLECTION_SEQUENCE + 1
    /\ client_tx \in Collection
    /\ departures \subseteq Departures

(* The orphan registry, in memory and on disk, is a sequence of clients' ids. *)
RegistryOK == orphans \in Seq(Collection) /\ orphan_file \in Seq(Collection)

(* The type of the whole state; it is inductive. *)
EngineType == StoreOK(store) /\ TasksOK /\ CountersOK /\ RegistryOK

(* What is assumed of the constants, without the bounds. *)
LEMMA Constants ==
    /\ estimated_cost \in [DOMAIN estimated_cost -> Nat] /\ Tokens \subseteq Nat
    /\ usable_budget \in Nat
    /\ Edges \subseteq (DOMAIN NodeType) \X (DOMAIN NodeType)
BY AgentAssumption

(* A step of one task keeps TasksOK when its new call and context fit. *)
LEMMA TaskUpdate ==
  ASSUME TasksOK, NEW t \in Tasks, NEW c \in CallType, NEW k \in ContextType, CallOK(c, k),
         call' = [call EXCEPT ![t] = c], ctx' = [ctx EXCEPT ![t] = k]
  PROVE  TasksOK'
BY DEF TasksOK

(* The same when its context stays. *)
LEMMA CallUpdate ==
  ASSUME TasksOK, NEW t \in Tasks, NEW c \in CallType, CallOK(c, ctx[t]),
         call' = [call EXCEPT ![t] = c], ctx' = ctx
  PROVE  TasksOK'
BY DEF TasksOK

(* What TasksOK says of one task. *)
LEMMA TaskFacts ==
  ASSUME TasksOK, NEW t \in Tasks
  PROVE  call[t] \in CallType /\ ctx[t] \in ContextType /\ CallOK(call[t], ctx[t])
BY DEF TasksOK

(* A jump to a place that asks nothing of the locals keeps TasksOK. *)
LEMMA GotoType ==
  ASSUME TasksOK, NEW t \in Tasks,
         NEW pc \in Pcs \ {"idle", "recovering", "execute", "letter", "letter_put"},
         Goto(t, pc), ctx' = ctx
  PROVE  TasksOK'
<1> DEFINE c == [call[t] EXCEPT !.pc = pc]
<1>1. c \in CallType /\ CallOK(c, ctx[t])
  BY TaskFacts DEF CallType, CallOK
<1>2. call' = [call EXCEPT ![t] = c]
  BY DEF Goto
<1> HIDE DEF c
<1> QED BY <1>1, <1>2, CallUpdate

(* The counters of the store are numbers. *)
LEMMA StoreFacts ==
  ASSUME StoreOK(store)
  PROVE  /\ store.last_committed_tx \in Collection /\ store.last_committed_tx \in Nat
         /\ store.seq \in Nat \ {0}
BY Base DEF StoreOK, StoreType

(* Stores adds departures only. *)
LEMMA StoresDepartures ==
  ASSUME departures \subseteq Departures, NEW s, NEW more, more \subseteq Departures,
         Stores(s, more)
  PROVE  departures' \subseteq Departures /\ store' = s
BY DEF Stores, Departures

(* A commit, or its failure, keeps the type of the store. *)
LEMMA CommitsType ==
  ASSUME StoreOK(store), departures \subseteq Departures, NEW tx,
         Commits(tx) \/ CommitError(tx)
  PROVE  StoreOK(store)' /\ departures' \subseteq Departures
<1>1. CASE Commits(tx)
  <2>1. departures' \subseteq Departures /\ store' = Commit(store, tx)
    BY <1>1, StoresDepartures DEF Commits
  <2> QED BY <2>1, CommitOK
<1>2. CASE CommitError(tx)
  <2>1. departures' \subseteq Departures /\ store' = CommitFails(store, tx)
    BY <1>2, StoresDepartures DEF CommitError
  <2> QED BY <2>1, FailsOK
<1> QED BY <1>1, <1>2

(* The locals of no call fit any context. *)
LEMMA NoCallType ==
  ASSUME NEW k \in ContextType
  PROVE  NoCall \in CallType /\ CallOK(NoCall, k)
BY Base, Constants DEF NoCall, CallType, CallOK, Pcs, ContextType

(* The return of run keeps the types: the refund is not more than was consumed, and the *)
(* guard enters the registry.                                                           *)
LEMMA ReturnsType ==
  ASSUME TasksOK, RegistryOK, NEW t \in Tasks, NEW status \in Statuses, Returns(t, status)
  PROVE  TasksOK' /\ RegistryOK'
<1> DEFINE k == [ctx[t] EXCEPT !.status = status, !.consumed = @ - call[t].reserved]
<1>0. call[t] \in CallType /\ ctx[t] \in ContextType /\ CallOK(call[t], ctx[t])
  BY TaskFacts
<1>1. k \in ContextType
  <2>1. ctx[t].consumed - call[t].reserved \in Nat
    BY <1>0, Constants DEF CallType, ContextType, CallOK
  <2> QED BY <1>0, <2>1 DEF ContextType
<1>2. ctx' = [ctx EXCEPT ![t] = k] /\ call' = [call EXCEPT ![t] = NoCall]
  BY DEF Returns, TasksOK
<1> HIDE DEF k
<1>3. TasksOK'
  BY <1>1, <1>2, NoCallType, TaskUpdate
<1>4. RegistryOK'
  <2>1. call[t].guard \in Collection \cup {NONE}
    BY <1>0 DEF CallType
  <2>2. orphans' \in Seq(Collection)
    BY <2>1 DEF Returns, RegistryOK
  <2> QED BY <2>2 DEF Returns, RegistryOK
<1> QED BY <1>3, <1>4

(* The recovery of orphans reads the registry. *)
LEMMA RecoverReadType ==
  ASSUME EngineType, NEW t \in Tasks, RecoverRead(t)
  PROVE  EngineType'
<1>a. StoreOK(store) /\ TasksOK /\ CountersOK /\ RegistryOK
  BY DEF EngineType
<1>b. call[t] \in CallType /\ ctx[t] \in ContextType /\ CallOK(call[t], ctx[t])
  BY <1>a, TaskFacts
<1>c. /\ store.last_committed_tx \in Collection /\ store.last_committed_tx \in Nat
      /\ store.seq \in Nat \ {0}
  BY <1>a, StoreFacts
<1>1. StoreOK(store)'
  BY <1>a DEF RecoverRead, shared
<1>2. TasksOK'
  <2> DEFINE c == [call[t] EXCEPT !.pc = IF orphans = <<>> THEN "loop" ELSE "recovering",
                                  !.todo = orphans, !.last_tx = store.last_committed_tx]
  <2>0. orphans \in Seq(Collection)
    BY <1>a DEF RegistryOK
  <2>1. c \in CallType /\ CallOK(c, ctx[t])
    BY <1>b, <1>c, <2>0, Constants, Base DEF CallType, CallOK, Pcs, At, RecoverRead
  <2>2. call' = [call EXCEPT ![t] = c] /\ ctx' = ctx
    BY <1>a DEF RecoverRead, TasksOK
  <2> HIDE DEF c
  <2> QED BY <1>a, <2>1, <2>2, CallUpdate
<1>3. CountersOK'
  BY <1>a DEF RecoverRead, shared, CountersOK
<1>4. RegistryOK'
  BY <1>a DEF RecoverRead, shared, registry, RegistryOK
<1> QED BY <1>1, <1>2, <1>3, <1>4 DEF EngineType

(* The limit on the steps is reached. *)
LEMMA LimitReachedType ==
  ASSUME EngineType, NEW t \in Tasks, LimitReached(t)
  PROVE  EngineType'
<1>a. StoreOK(store) /\ TasksOK /\ CountersOK /\ RegistryOK
  BY DEF EngineType
<1>b. call[t] \in CallType /\ ctx[t] \in ContextType /\ CallOK(call[t], ctx[t])
  BY <1>a, TaskFacts
<1>c. /\ store.last_committed_tx \in Collection /\ store.last_committed_tx \in Nat
      /\ store.seq \in Nat \ {0}
  BY <1>a, StoreFacts
<1>1. StoreOK(store)'
  BY <1>a DEF LimitReached, shared
<1>2. TasksOK'
  BY <1>a, GotoType DEF LimitReached, Pcs
<1>3. CountersOK'
  BY <1>a DEF LimitReached, shared, CountersOK
<1>4. RegistryOK'
  BY <1>a DEF LimitReached, shared, registry, RegistryOK
<1> QED BY <1>1, <1>2, <1>3, <1>4 DEF EngineType

(* A decision node goes on. *)
LEMMA DecideType ==
  ASSUME EngineType, NEW t \in Tasks, Decide(t)
  PROVE  EngineType'
<1>a. StoreOK(store) /\ TasksOK /\ CountersOK /\ RegistryOK
  BY DEF EngineType
<1>b. call[t] \in CallType /\ ctx[t] \in ContextType /\ CallOK(call[t], ctx[t])
  BY <1>a, TaskFacts
<1>c. /\ store.last_committed_tx \in Collection /\ store.last_committed_tx \in Nat
      /\ store.seq \in Nat \ {0}
  BY <1>a, StoreFacts
<1>1. StoreOK(store)'
  BY <1>a DEF Decide, shared
<1>2. TasksOK'
  <2>1. CASE Goto(t, "failure") /\ UNCHANGED ctx
    BY <1>a, <2>1, GotoType DEF Pcs
  <2>2. ASSUME NEW next \in Targets(Node(t)), ctx' = [ctx EXCEPT ![t].node = next], UNCHANGED call
        PROVE  TasksOK'
    <3> DEFINE k == [ctx[t] EXCEPT !.node = next]
    <3>1. next \in DOMAIN NodeType
      BY Constants DEF Targets
    <3>2. k \in ContextType /\ CallOK(call[t], k)
      BY <1>b, <3>1 DEF ContextType, CallOK
    <3>3. ctx' = [ctx EXCEPT ![t] = k] /\ call' = [call EXCEPT ![t] = call[t]]
      BY <1>a, <2>2 DEF TasksOK
    <3> HIDE DEF k
    <3> QED BY <1>a, <1>b, <3>2, <3>3, TaskUpdate
  <2> QED BY <2>1, <2>2 DEF Decide
<1>3. CountersOK'
  BY <1>a DEF Decide, shared, CountersOK
<1>4. RegistryOK'
  BY <1>a DEF Decide, shared, registry, RegistryOK
<1> QED BY <1>1, <1>2, <1>3, <1>4 DEF EngineType

(* A step makes its guard. *)
LEMMA StepBeginType ==
  ASSUME EngineType, NEW t \in Tasks, StepBegin(t)
  PROVE  EngineType'
<1>a. StoreOK(store) /\ TasksOK /\ CountersOK /\ RegistryOK
  BY DEF EngineType
<1>b. call[t] \in CallType /\ ctx[t] \in ContextType /\ CallOK(call[t], ctx[t])
  BY <1>a, TaskFacts
<1>c. /\ store.last_committed_tx \in Collection /\ store.last_committed_tx \in Nat
      /\ store.seq \in Nat \ {0}
  BY <1>a, StoreFacts
<1>1. StoreOK(store)'
  BY <1>a DEF StepBegin, shared
<1>2. TasksOK'
  <2> DEFINE c == [call[t] EXCEPT !.pc = "checkpoint", !.guard = store.last_committed_tx]
  <2>1. c \in CallType /\ CallOK(c, ctx[t])
    BY <1>b, <1>c, Constants, Base DEF CallType, CallOK, Pcs, At, StepBegin
  <2>2. call' = [call EXCEPT ![t] = c] /\ ctx' = ctx
    BY <1>a DEF StepBegin, TasksOK
  <2> HIDE DEF c
  <2> QED BY <1>a, <2>1, <2>2, CallUpdate
<1>3. CountersOK'
  BY <1>a DEF StepBegin, shared, CountersOK
<1>4. RegistryOK'
  BY <1>a DEF StepBegin, shared, registry, RegistryOK
<1> QED BY <1>1, <1>2, <1>3, <1>4 DEF EngineType

(* A checkpoint reads the counters of the store. *)
LEMMA CheckpointReadType ==
  ASSUME EngineType, NEW t \in Tasks, CheckpointRead(t)
  PROVE  EngineType'
<1>a. StoreOK(store) /\ TasksOK /\ CountersOK /\ RegistryOK
  BY DEF EngineType
<1>b. call[t] \in CallType /\ ctx[t] \in ContextType /\ CallOK(call[t], ctx[t])
  BY <1>a, TaskFacts
<1>c. /\ store.last_committed_tx \in Collection /\ store.last_committed_tx \in Nat
      /\ store.seq \in Nat \ {0}
  BY <1>a, StoreFacts
<1>1. StoreOK(store)'
  BY <1>a DEF CheckpointRead, shared
<1>2. TasksOK'
  <2> DEFINE c == [call[t] EXCEPT !.pc = "save", !.cp = store.last_committed_tx,
                                  !.seq_no = store.seq - 1]
  <2>0. store.seq - 1 \in Nat
    BY <1>c
  <2>1. c \in CallType /\ CallOK(c, ctx[t])
    BY <1>b, <1>c, <2>0, Constants, Base DEF CallType, CallOK, Pcs, At, CheckpointRead
  <2>2. call' = [call EXCEPT ![t] = c] /\ ctx' = ctx
    BY <1>a DEF CheckpointRead, TasksOK
  <2> HIDE DEF c
  <2> QED BY <1>a, <2>1, <2>2, CallUpdate
<1>3. CountersOK'
  BY <1>a DEF CheckpointRead, shared, CountersOK
<1>4. RegistryOK'
  BY <1>a DEF CheckpointRead, shared, registry, RegistryOK
<1> QED BY <1>1, <1>2, <1>3, <1>4 DEF EngineType

(* A retry is refused. *)
LEMMA RetryRefusedType ==
  ASSUME EngineType, NEW t \in Tasks, RetryRefused(t)
  PROVE  EngineType'
<1>a. StoreOK(store) /\ TasksOK /\ CountersOK /\ RegistryOK
  BY DEF EngineType
<1>b. call[t] \in CallType /\ ctx[t] \in ContextType /\ CallOK(call[t], ctx[t])
  BY <1>a, TaskFacts
<1>c. /\ store.last_committed_tx \in Collection /\ store.last_committed_tx \in Nat
      /\ store.seq \in Nat \ {0}
  BY <1>a, StoreFacts
<1>1. StoreOK(store)'
  BY <1>a DEF RetryRefused, shared
<1>2. TasksOK'
  <2> DEFINE c == [call[t] EXCEPT !.pc = "letter", !.next = "failure"]
  <2>1. c \in CallType /\ CallOK(c, ctx[t])
    BY <1>b, <1>c, Constants, Base DEF CallType, CallOK, Pcs, At, RetryRefused
  <2>2. call' = [call EXCEPT ![t] = c] /\ ctx' = ctx
    BY <1>a DEF RetryRefused, TasksOK
  <2> HIDE DEF c
  <2> QED BY <1>a, <2>1, <2>2, CallUpdate
<1>3. CountersOK'
  BY <1>a DEF RetryRefused, shared, CountersOK
<1>4. RegistryOK'
  BY <1>a DEF RetryRefused, shared, registry, RegistryOK
<1> QED BY <1>1, <1>2, <1>3, <1>4 DEF EngineType

(* The tool fails. *)
LEMMA ToolErrorType ==
  ASSUME EngineType, NEW t \in Tasks, ToolError(t)
  PROVE  EngineType'
<1>a. StoreOK(store) /\ TasksOK /\ CountersOK /\ RegistryOK
  BY DEF EngineType
<1>b. call[t] \in CallType /\ ctx[t] \in ContextType /\ CallOK(call[t], ctx[t])
  BY <1>a, TaskFacts
<1>c. /\ store.last_committed_tx \in Collection /\ store.last_committed_tx \in Nat
      /\ store.seq \in Nat \ {0}
  BY <1>a, StoreFacts
<1>1. StoreOK(store)'
  BY <1>a DEF ToolError, shared
<1>2. TasksOK'
  <2> DEFINE c == IF call[t].attempt < max_attempts
                  THEN [call[t] EXCEPT !.attempt = @ + 1]
                  ELSE [call[t] EXCEPT !.pc = "letter", !.next = "failure"]
  <2>1. c \in CallType /\ CallOK(c, ctx[t])
    <3>1. CASE call[t].attempt < max_attempts
      BY <1>b, <3>1 DEF CallType, CallOK, Pcs
    <3>2. CASE ~(call[t].attempt < max_attempts)
      BY <1>b, <3>2 DEF CallType, CallOK, Pcs
    <3> QED BY <3>1, <3>2
  <2>2. call' = [call EXCEPT ![t] = c] /\ ctx' = ctx
    BY <1>a DEF ToolError, TasksOK
  <2> HIDE DEF c
  <2> QED BY <1>a, <2>1, <2>2, CallUpdate
<1>3. CountersOK'
  BY <1>a DEF ToolError, shared, CountersOK
<1>4. RegistryOK'
  BY <1>a DEF ToolError, shared, registry, RegistryOK
<1> QED BY <1>1, <1>2, <1>3, <1>4 DEF EngineType

(* The tool takes too long. *)
LEMMA ToolTimeoutType ==
  ASSUME EngineType, NEW t \in Tasks, ToolTimeout(t)
  PROVE  EngineType'
<1>a. StoreOK(store) /\ TasksOK /\ CountersOK /\ RegistryOK
  BY DEF EngineType
<1>b. call[t] \in CallType /\ ctx[t] \in ContextType /\ CallOK(call[t], ctx[t])
  BY <1>a, TaskFacts
<1>c. /\ store.last_committed_tx \in Collection /\ store.last_committed_tx \in Nat
      /\ store.seq \in Nat \ {0}
  BY <1>a, StoreFacts
<1>1. StoreOK(store)'
  BY <1>a DEF ToolTimeout
<1>2. TasksOK'
  <2> DEFINE c == IF call[t].attempt < max_attempts
                  THEN [call[t] EXCEPT !.pc = "letter", !.next = "execute", !.attempt = @ + 1]
                  ELSE [call[t] EXCEPT !.pc = "letter", !.next = "failure"]
  <2>0. call[t].pc = "execute"
    BY DEF At, ToolTimeout
  <2>1. c \in CallType /\ CallOK(c, ctx[t])
    <3>1. CASE call[t].attempt < max_attempts
      <4> DEFINE d == [call[t] EXCEPT !.pc = "letter", !.next = "execute", !.attempt = @ + 1]
      <4>1. d \in CallType
        <5>1. call[t].attempt + 1 \in Nat
          BY <1>b DEF CallType
        <5>2. \A n \in Nat : [call[t] EXCEPT !.pc = "letter", !.next = "execute", !.attempt = n] \in CallType
          BY <1>b DEF CallType, Pcs
        <5> QED BY <5>1, <5>2
      <4>2. CallOK(d, ctx[t])
        <5>1. d.pc = "letter" /\ d.next = "execute" /\ d.reserved = call[t].reserved
          BY <1>b DEF CallType
        <5> HIDE DEF d
        <5> QED BY <1>b, <2>0, <5>1 DEF CallOK
      <4> QED BY <3>1, <4>1, <4>2
    <3>2. CASE ~(call[t].attempt < max_attempts)
      BY <1>b, <2>0, <3>2 DEF CallType, CallOK, Pcs
    <3> QED BY <3>1, <3>2
  <2>2. call' = [call EXCEPT ![t] = c] /\ ctx' = ctx
    BY <1>a DEF ToolTimeout, TasksOK
  <2> HIDE DEF c
  <2> QED BY <1>a, <2>1, <2>2, CallUpdate
<1>3. CountersOK'
  BY <1>a DEF ToolTimeout, CountersOK
<1>4. RegistryOK'
  BY <1>a DEF ToolTimeout, registry, RegistryOK
<1> QED BY <1>1, <1>2, <1>3, <1>4 DEF EngineType

(* run starts. *)
LEMMA RunType ==
  ASSUME EngineType, NEW t \in Tasks, Run(t)
  PROVE  EngineType'
<1>a. StoreOK(store) /\ TasksOK /\ CountersOK /\ RegistryOK
  BY DEF EngineType
<1>b. call[t] \in CallType /\ ctx[t] \in ContextType /\ CallOK(call[t], ctx[t])
  BY <1>a, TaskFacts
<1>c. /\ store.last_committed_tx \in Collection /\ store.last_committed_tx \in Nat
      /\ store.seq \in Nat \ {0}
  BY <1>a, StoreFacts
<1>1. StoreOK(store)'
  BY <1>a DEF Run
<1>2. TasksOK'
  <2> DEFINE c == [call[t] EXCEPT !.pc = "recover"]
             k1 == [ctx[t] EXCEPT !.status = "Running", !.step = @ + 1]
             k2 == [ctx[t] EXCEPT !.status = "Running"]
  <2>1. c \in CallType /\ CallOK(c, ctx[t])
    BY <1>b DEF CallType, CallOK, Pcs
  <2>2. k1 \in ContextType /\ k2 \in ContextType /\ CallOK(c, k1) /\ CallOK(c, k2)
    <3>1. ctx[t].step + 1 \in Nat
      BY <1>b DEF ContextType
    <3>2. k1 \in ContextType /\ k2 \in ContextType
      BY <1>b, <3>1 DEF ContextType, Statuses
    <3>3. k1.consumed = ctx[t].consumed /\ k2.consumed = ctx[t].consumed
      BY <1>b DEF ContextType
    <3> HIDE DEF k1, k2, c
    <3> QED BY <2>1, <3>2, <3>3 DEF CallOK
  <2>3. call' = [call EXCEPT ![t] = c]
    BY <1>a DEF Run, Goto
  <2>4. ctx' = [ctx EXCEPT ![t] = k1] \/ ctx' = [ctx EXCEPT ![t] = k2]
    BY <1>a DEF Run, TasksOK
  <2> HIDE DEF c, k1, k2
  <2> QED BY <1>a, <2>1, <2>2, <2>3, <2>4, TaskUpdate
<1>3. CountersOK'
  BY <1>a DEF Run, CountersOK, Departures
<1>4. RegistryOK'
  BY <1>a DEF Run, registry, RegistryOK
<1> QED BY <1>1, <1>2, <1>3, <1>4 DEF EngineType

(* Removing an element leaves a sequence over the same set. *)
LEMMA RemoveFirstType ==
  ASSUME NEW S, NEW q \in Seq(S), NEW e
  PROVE  RemoveFirst(q, e) \in Seq(S)
<1>1. CASE ~ \E i \in 1 .. Len(q) : q[i] = e
  BY <1>1 DEF RemoveFirst
<1>2. CASE \E i \in 1 .. Len(q) : q[i] = e
  <2> DEFINE I == {i \in 1 .. Len(q) : q[i] = e}
             m == Min(I)
  <2>1. I # {} /\ I \subseteq Nat
    BY <1>2
  <2>2. m \in I
    <3>1. \E u \in I : \A v \in I : u <= v
      <4> HIDE DEF I
      <4> QED BY <2>1, LeastExists
    <3> QED BY <3>1 DEF Min
  <2>3. RemoveFirst(q, e) = SubSeq(q, 1, m - 1) \o SubSeq(q, m + 1, Len(q))
    BY <1>2, <2>1 DEF RemoveFirst, RemoveAt, SelectInSeq
  <2>4. m \in 1 .. Len(q)
    BY <2>2
  <2> HIDE DEF I, m
  <2>5. SubSeq(q, 1, m - 1) \in Seq(S) /\ SubSeq(q, m + 1, Len(q)) \in Seq(S)
    BY <2>4
  <2> QED BY <2>3, <2>5
<1> QED BY <1>1, <1>2

(* An orphan is rolled back to, or dropped. *)
LEMMA RecoverOrphanType ==
  ASSUME EngineType, NEW t \in Tasks, RecoverOrphan(t)
  PROVE  EngineType'
<1>a. StoreOK(store) /\ TasksOK /\ CountersOK /\ RegistryOK
  BY DEF EngineType
<1>b. call[t] \in CallType /\ ctx[t] \in ContextType /\ CallOK(call[t], ctx[t])
  BY <1>a, TaskFacts
<1>c. /\ store.last_committed_tx \in Collection /\ store.last_committed_tx \in Nat
      /\ store.seq \in Nat \ {0}
  BY <1>a, StoreFacts
<1> DEFINE cp == Head(call[t].todo)
           rest == Tail(call[t].todo)
<1>d. cp \in Collection /\ rest \in Seq(Collection)
  BY <1>b DEF RecoverOrphan, At, CallType, CallOK
<1>e. StoreOK(store)' /\ departures' \subseteq Departures
  <2>1. CASE ~UNCHANGED <<store, departures>>
    <3> DEFINE more == IF store.last_committed_tx > call[t].last_tx THEN {"raced"} ELSE {}
    <3>1. Stores(RollbackToTx(store, cp), more) /\ more \subseteq Departures
      BY <2>1 DEF RecoverOrphan, Departures
    <3>2. departures' \subseteq Departures /\ store' = RollbackToTx(store, cp)
      <4> HIDE DEF more
      <4> QED BY <1>a, <3>1, StoresDepartures DEF CountersOK
    <3> HIDE DEF cp
    <3> QED BY <1>a, <1>d, <3>2, RollbackOK
  <2>2. CASE UNCHANGED <<store, departures>>
    BY <1>a, <2>2 DEF CountersOK
  <2> QED BY <2>1, <2>2
<1>1. StoreOK(store)'
  BY <1>e
<1>2. TasksOK'
  <2> DEFINE c == [call[t] EXCEPT !.todo = rest,
                                  !.pc = IF rest = <<>> THEN "loop" ELSE "recovering"]
  <2>1. call' = [call EXCEPT ![t] = c] /\ ctx' = ctx
    BY <1>a DEF RecoverOrphan, TasksOK
  <2>2. c \in CallType /\ CallOK(c, ctx[t])
    <3> HIDE DEF rest
    <3> QED BY <1>b, <1>d DEF CallType, CallOK, Pcs
  <2> HIDE DEF c
  <2> QED BY <1>a, <2>1, <2>2, CallUpdate
<1>3. CountersOK'
  BY <1>a, <1>e DEF RecoverOrphan, CountersOK
<1>4. RegistryOK'
  <2>1. \/ orphans' = RemoveFirst(orphans, cp) /\ orphan_file' = orphans'
        \/ UNCHANGED <<orphans, orphan_file>>
    BY DEF RecoverOrphan
  <2> QED BY <1>a, <2>1, RemoveFirstType DEF RegistryOK
<1> QED BY <1>1, <1>2, <1>3, <1>4 DEF EngineType

(* The row of a checkpoint is well typed. *)
LEMMA CheckpointRowOK ==
  ASSUME EngineType, NEW t \in Tasks
  PROVE  RowOK([tx |-> INTERNAL_BASE, key |-> CheckpointKey(t, Node(t), ctx[t].step),
                val |-> [node |-> Node(t), step |-> ctx[t].step, tx_id |-> call[t].cp,
                         consumed |-> ctx[t].consumed, seq_no |-> call[t].seq_no]])
<1> DEFINE e == [tx |-> INTERNAL_BASE, key |-> CheckpointKey(t, Node(t), ctx[t].step),
                 val |-> [node |-> Node(t), step |-> ctx[t].step, tx_id |-> call[t].cp,
                          consumed |-> ctx[t].consumed, seq_no |-> call[t].seq_no]]
<1>1. call[t] \in CallType /\ ctx[t] \in ContextType
  BY TaskFacts DEF EngineType
<1>2. /\ e.tx = INTERNAL_BASE /\ e.key[1] = "checkpoint"
      /\ e.val.tx_id \in Collection /\ e.val.step \in Nat /\ e.val.consumed \in Nat
      /\ e.val.node \in DOMAIN NodeType
  BY <1>1 DEF CheckpointKey, CallType, ContextType, Node
<1> HIDE DEF e
<1>3. RowOK(e)
  BY <1>2 DEF RowOK, InternalKinds
<1> QED BY <1>3 DEF e

(* A checkpoint is saved, or is not. *)
LEMMA CheckpointSaveType ==
  ASSUME EngineType, NEW t \in Tasks, CheckpointSave(t)
  PROVE  EngineType'
<1>a. StoreOK(store) /\ TasksOK /\ CountersOK /\ RegistryOK
  BY DEF EngineType
<1>b. call[t] \in CallType /\ ctx[t] \in ContextType /\ CallOK(call[t], ctx[t])
  BY <1>a, TaskFacts
<1>c. /\ store.last_committed_tx \in Collection /\ store.last_committed_tx \in Nat
      /\ store.seq \in Nat \ {0}
  BY <1>a, StoreFacts
<1> DEFINE meta == [node |-> Node(t), step |-> ctx[t].step, tx_id |-> call[t].cp,
                     consumed |-> ctx[t].consumed, seq_no |-> call[t].seq_no]
           key == CheckpointKey(t, Node(t), ctx[t].step)
           s == Put(Reserved(store), INTERNAL_BASE, key, meta)
<1>d. StoreOK(Commit(s, INTERNAL_BASE)) /\ StoreOK(CommitFails(s, INTERNAL_BASE))
  <2>1. RowOK([tx |-> INTERNAL_BASE, key |-> key, val |-> meta])
    BY CheckpointRowOK
  <2>2. StoreOK(Reserved(store))
    BY <1>a, ReservedOK
  <2> HIDE DEF key, meta
  <2> QED BY <2>1, <2>2, InternalPut
<1> DEFINE Saved == Stores(Commit(s, INTERNAL_BASE), {})
           Refused == Stores(CommitFails(s, INTERNAL_BASE), {})
<1>e. Saved \/ Refused
  BY DEF CheckpointSave
<1>f. StoreOK(store)' /\ departures' \subseteq Departures
  <2> HIDE DEF s
  <2>1. CASE Saved
    BY <1>a, <1>d, <2>1, StoresDepartures DEF CountersOK
  <2>2. CASE Refused
    BY <1>a, <1>d, <2>2, StoresDepartures DEF CountersOK
  <2> QED BY <1>e, <2>1, <2>2
<1> HIDE DEF s
<1>1. StoreOK(store)'
  BY <1>f
<1> DEFINE c == [call[t] EXCEPT !.pc = "reserve", !.cp = 0, !.seq_no = 0]
<1>g. \/ Returns(t, "Completed") \/ Returns(t, "Failed")
      \/ call' = [call EXCEPT ![t] = c] /\ UNCHANGED <<ctx, registry>>
  BY <1>a DEF CheckpointSave, TasksOK
<1>h. c \in CallType /\ CallOK(c, ctx[t])
  <2>1. 0 \in Collection
    BY Base
  <2>2. c \in CallType
    BY <1>b, <2>1 DEF CallType, Pcs
  <2>3. c.pc = "reserve" /\ c.reserved = call[t].reserved
    BY <1>b DEF CallType
  <2> HIDE DEF c
  <2> QED BY <1>b, <2>2, <2>3 DEF CallOK
<1> HIDE DEF c
<1>i. TasksOK' /\ RegistryOK'
  <2>1. CASE Returns(t, "Completed") \/ Returns(t, "Failed")
    BY <1>a, <2>1, ReturnsType DEF Statuses
  <2>2. CASE call' = [call EXCEPT ![t] = c] /\ UNCHANGED <<ctx, registry>>
    BY <1>a, <1>h, <2>2, CallUpdate DEF registry, RegistryOK
  <2> QED BY <1>g, <2>1, <2>2
<1>2. TasksOK'
  BY <1>i
<1>3. CountersOK'
  BY <1>a, <1>f DEF CheckpointSave, CountersOK
<1>4. RegistryOK'
  BY <1>i
<1> QED BY <1>1, <1>2, <1>3, <1>4 DEF EngineType

(* What a step with a tool reserves. *)
LEMMA EstimateType ==
  ASSUME NEW t, Node(t) \in DOMAIN estimated_cost
  PROVE  Estimate(t) \in Nat
BY Constants DEF Estimate

(* A step reserves its budget. *)
LEMMA ReserveType ==
  ASSUME EngineType, NEW t \in Tasks, Reserve(t)
  PROVE  EngineType'
<1>a. StoreOK(store) /\ TasksOK /\ CountersOK /\ RegistryOK
  BY DEF EngineType
<1>b. call[t] \in CallType /\ ctx[t] \in ContextType /\ CallOK(call[t], ctx[t])
  BY <1>a, TaskFacts
<1>c. /\ store.last_committed_tx \in Collection /\ store.last_committed_tx \in Nat
      /\ store.seq \in Nat \ {0}
  BY <1>a, StoreFacts
<1>1. StoreOK(store)'
  BY <1>a DEF Reserve, shared
<1>2. TasksOK'
  <2> DEFINE e == Estimate(t)
             pc == IF NodeType[Node(t)] = "Start" /\ Node(t) \notin handler THEN "audit"
                   ELSE "failure"
             c1 == [call[t] EXCEPT !.tokens = 0, !.pc = pc]
             c2 == [call[t] EXCEPT !.pc = "execute", !.attempt = 1, !.reserved = e]
             k2 == [ctx[t] EXCEPT !.consumed = @ + e]
             c3 == [call[t] EXCEPT !.pc = "letter", !.next = "failure"]
  <2>1. c1 \in CallType /\ CallOK(c1, ctx[t])
    <3>0. pc \in {"audit", "failure"}
      OBVIOUS
    <3> HIDE DEF pc
    <3>1. c1 \in CallType
      BY <1>b, <3>0 DEF CallType, Pcs
    <3>2. c1.pc \in {"audit", "failure"} /\ c1.reserved = call[t].reserved
      BY <1>b, <3>0 DEF CallType
    <3> HIDE DEF c1
    <3> QED BY <1>b, <3>1, <3>2 DEF CallOK
  <2>2. c3 \in CallType /\ CallOK(c3, ctx[t])
    <3>1. c3 \in CallType
      BY <1>b DEF CallType, Pcs
    <3>2. c3.pc = "letter" /\ c3.next = "failure" /\ c3.reserved = call[t].reserved
      BY <1>b DEF CallType
    <3> HIDE DEF c3
    <3> QED BY <1>b, <3>1, <3>2 DEF CallOK
  <2>3. ASSUME Node(t) \in DOMAIN estimated_cost
        PROVE  c2 \in CallType /\ k2 \in ContextType /\ CallOK(c2, k2)
    <3>0. e \in Nat
      BY <2>3, EstimateType
    <3> HIDE DEF e
    <3>1. c2 \in CallType /\ c2.pc = "execute" /\ c2.reserved = e
      BY <1>b, <3>0 DEF CallType, Pcs
    <3>2. k2 \in ContextType /\ k2.consumed = ctx[t].consumed + e
      BY <1>b, <3>0 DEF ContextType
    <3>3. e <= ctx[t].consumed + e
      BY <1>b, <3>0 DEF ContextType
    <3> HIDE DEF c2, k2
    <3> QED BY <3>1, <3>2, <3>3 DEF CallOK
  <2>4. \/ call' = [call EXCEPT ![t] = c1] /\ ctx' = ctx
        \/ /\ Node(t) \in DOMAIN estimated_cost
           /\ call' = [call EXCEPT ![t] = c2] /\ ctx' = [ctx EXCEPT ![t] = k2]
        \/ call' = [call EXCEPT ![t] = c3] /\ ctx' = ctx
    BY <1>a DEF Reserve, TasksOK
  <2> HIDE DEF c1, c2, c3, k2
  <2> QED BY <1>a, <2>1, <2>2, <2>3, <2>4, CallUpdate, TaskUpdate
<1>3. CountersOK'
  BY <1>a DEF Reserve, shared, CountersOK
<1>4. RegistryOK'
  BY <1>a DEF Reserve, shared, registry, RegistryOK
<1> QED BY <1>1, <1>2, <1>3, <1>4 DEF EngineType

(* The tool returns; what it did not take is returned to the budget. *)
LEMMA ToolOkType ==
  ASSUME EngineType, NEW t \in Tasks, ToolOk(t)
  PROVE  EngineType'
<1>a. StoreOK(store) /\ TasksOK /\ CountersOK /\ RegistryOK
  BY DEF EngineType
<1>b. call[t] \in CallType /\ ctx[t] \in ContextType /\ CallOK(call[t], ctx[t])
  BY <1>a, TaskFacts
<1>c. /\ store.last_committed_tx \in Collection /\ store.last_committed_tx \in Nat
      /\ store.seq \in Nat \ {0}
  BY <1>a, StoreFacts
<1>1. StoreOK(store)'
  BY <1>a DEF ToolOk, shared
<1>2. TasksOK'
  <2>1. PICK tokens \in Tokens :
           /\ ctx' = [ctx EXCEPT ![t].consumed = Reconciled(@, call[t].reserved, tokens)]
           /\ call' = [call EXCEPT ![t] = Settled(t, tokens)]
    BY DEF ToolOk
  <2> DEFINE k == [ctx[t] EXCEPT !.consumed = Reconciled(ctx[t].consumed, call[t].reserved, tokens)]
             c == Settled(t, tokens)
  <2>2. Reconciled(ctx[t].consumed, call[t].reserved, tokens) \in Nat
    <3>1. /\ call[t].reserved \in Nat /\ call[t].reserved <= ctx[t].consumed
          /\ ctx[t].consumed \in Nat /\ tokens \in Nat
      BY <1>b, Constants DEF CallOK, CallType, ContextType
    <3> QED BY <3>1 DEF Reconciled
  <2>3. k \in ContextType /\ k.consumed \in Nat
    BY <1>b, <2>2 DEF ContextType
  <2>4. c \in CallType /\ c.reserved = 0 /\ c.pc = "audit"
    BY <1>b, Constants DEF CallType, Settled, Pcs
  <2>5. ctx' = [ctx EXCEPT ![t] = k]
    BY <1>a, <2>1 DEF TasksOK
  <2> HIDE DEF c, k
  <2>6. CallOK(c, k)
    BY <2>3, <2>4 DEF CallOK
  <2> QED BY <1>a, <2>1, <2>3, <2>4, <2>5, <2>6, TaskUpdate DEF c
<1>3. CountersOK'
  BY <1>a DEF ToolOk, shared, CountersOK
<1>4. RegistryOK'
  BY <1>a DEF ToolOk, shared, registry, RegistryOK
<1> QED BY <1>1, <1>2, <1>3, <1>4 DEF EngineType

(* Mixed is a departure. *)
LEMMA MixedDepartures ==
  ASSUME NEW tx
  PROVE  Mixed(tx) \subseteq Departures
BY DEF Mixed, Departures

(* A put by a client's transaction keeps the types. *)
LEMMA StagesType ==
  ASSUME StoreOK(store), departures \subseteq Departures, NEW tx \in Collection, NEW key,
         key[1] \notin InternalKinds, NEW val, Stores(Put(store, tx, key, val), Mixed(tx))
  PROVE  StoreOK(store)' /\ departures' \subseteq Departures
<1>1. departures' \subseteq Departures /\ store' = Put(store, tx, key, val)
  BY StoresDepartures, MixedDepartures
<1> QED BY <1>1, PutOK

(* The kind of each key. *)
LEMMA KeyKinds ==
  /\ \A t, n : AuditKey(t, n)[1] = "audit" /\ StepKey(t, n)[1] = "step"
  /\ \A t : FinalKey(t)[1] = "final"
  /\ \A t, d, n : LetterKey(t, d, n)[1] = "letter" /\ CheckpointKey(t, d, n)[1] = "checkpoint"
  /\ \A n : ClientKey(n)[1] = "client"
  /\ HwmKey[1] = "hwm"
BY DEF AuditKey, StepKey, FinalKey, LetterKey, CheckpointKey, ClientKey, HwmKey

(* A call that has put may be at any place that waits for its commit. *)
LEMMA PutPcType ==
  ASSUME TasksOK, NEW t \in Tasks, NEW tx \in Collection,
         NEW pc \in {"audit_put", "failure_put", "commit_put", "final_put"}
  PROVE  [call[t] EXCEPT !.tx = tx, !.pc = pc] \in CallType
         /\ CallOK([call[t] EXCEPT !.tx = tx, !.pc = pc], ctx[t])
<1> DEFINE c == [call[t] EXCEPT !.tx = tx, !.pc = pc]
<1>1. call[t] \in CallType /\ CallOK(call[t], ctx[t])
  BY TaskFacts
<1>2. c \in CallType
  BY <1>1 DEF CallType, Pcs
<1>3. c.pc = pc /\ c.reserved = call[t].reserved
  BY <1>1 DEF CallType
<1> HIDE DEF c
<1>4. CallOK(c, ctx[t])
  BY <1>1, <1>2, <1>3 DEF CallOK
<1> QED BY <1>2, <1>4 DEF c

(* A dead letter is put. *)
LEMMA LetterPutType ==
  ASSUME EngineType, NEW t \in Tasks, LetterPut(t)
  PROVE  EngineType'
<1>a. StoreOK(store) /\ TasksOK /\ CountersOK /\ RegistryOK
  BY DEF EngineType
<1>b. call[t] \in CallType /\ ctx[t] \in ContextType /\ CallOK(call[t], ctx[t])
  BY <1>a, TaskFacts
<1>c. /\ store.last_committed_tx \in Collection /\ store.last_committed_tx \in Nat
      /\ store.seq \in Nat \ {0}
  BY <1>a, StoreFacts
<1> DEFINE tx == IF dlq_next_tx = 0 THEN store.last_committed_tx + 1 ELSE dlq_next_tx
           key == LetterKey(t, Node(t), ctx[t].step)
<1>d. tx \in Nat
  BY <1>a, <1>c DEF CountersOK
<1>e. tx \in Collection
  BY <1>d, Base DEF LetterPut, Allocatable
<1>f. key[1] \notin InternalKinds
  BY KeyKinds DEF InternalKinds
<1>g. /\ Stores(Put(store, tx, key, <<>>), Mixed(tx)) /\ dlq_next_tx' = tx + 1
      /\ call' = [call EXCEPT ![t].pc = "letter_put", ![t].tx = tx]
      /\ call[t].pc = "letter"
      /\ UNCHANGED <<next_tx, client_tx, ctx, orphans, orphan_file>>
  BY DEF LetterPut, registry, At
<1> HIDE DEF tx, key
<1>h. StoreOK(store)' /\ departures' \subseteq Departures
  BY <1>a, <1>e, <1>f, <1>g, StagesType DEF CountersOK
<1>1. StoreOK(store)'
  BY <1>h
<1>2. TasksOK'
  <2> DEFINE c == [call[t] EXCEPT !.pc = "letter_put", !.tx = tx]
  <2>1. c \in CallType /\ CallOK(c, ctx[t])
    BY <1>b, <1>e, <1>g DEF CallType, CallOK, Pcs
  <2>2. call' = [call EXCEPT ![t] = c] /\ ctx' = ctx
    BY <1>a, <1>g DEF TasksOK
  <2> HIDE DEF c
  <2> QED BY <1>a, <2>1, <2>2, CallUpdate
<1>3. CountersOK'
  BY <1>a, <1>d, <1>e, <1>g, <1>h, Base DEF CountersOK
<1>4. RegistryOK'
  BY <1>a, <1>g DEF RegistryOK
<1> QED BY <1>1, <1>2, <1>3, <1>4 DEF EngineType

(* Its commit ends. *)
LEMMA LetterCommitType ==
  ASSUME EngineType, NEW t \in Tasks, LetterCommit(t)
  PROVE  EngineType'
<1>a. StoreOK(store) /\ TasksOK /\ CountersOK /\ RegistryOK
  BY DEF EngineType
<1>b. call[t] \in CallType /\ ctx[t] \in ContextType /\ CallOK(call[t], ctx[t])
  BY <1>a, TaskFacts
<1>c. /\ store.last_committed_tx \in Collection /\ store.last_committed_tx \in Nat
      /\ store.seq \in Nat \ {0}
  BY <1>a, StoreFacts
<1>d. StoreOK(store)' /\ departures' \subseteq Departures
  BY <1>a, CommitsType DEF LetterCommit, CountersOK
<1>1. StoreOK(store)'
  BY <1>d
<1>2. TasksOK'
  <2> DEFINE c == [call[t] EXCEPT !.pc = call[t].next]
  <2>1. call[t].pc = "letter_put"
    BY DEF LetterCommit, At
  <2>2. call[t].next \in {"failure", "execute"}
    BY <1>b, <2>1 DEF CallOK
  <2>3. c \in CallType /\ CallOK(c, ctx[t])
    BY <1>b, <2>2 DEF CallType, CallOK, Pcs
  <2>4. call' = [call EXCEPT ![t] = c] /\ ctx' = ctx
    BY <1>a DEF LetterCommit, Goto, TasksOK
  <2> HIDE DEF c
  <2> QED BY <1>a, <2>3, <2>4, CallUpdate
<1>3. CountersOK'
  BY <1>a, <1>d DEF LetterCommit, CountersOK
<1>4. RegistryOK'
  BY <1>a DEF LetterCommit, registry, RegistryOK
<1> QED BY <1>1, <1>2, <1>3, <1>4 DEF EngineType

(* An audit entry is put, or is there already. *)
LEMMA AuditPutType ==
  ASSUME EngineType, NEW t \in Tasks, AuditPut(t)
  PROVE  EngineType'
<1>a. StoreOK(store) /\ TasksOK /\ CountersOK /\ RegistryOK
  BY DEF EngineType
<1>b. call[t] \in CallType /\ ctx[t] \in ContextType /\ CallOK(call[t], ctx[t])
  BY <1>a, TaskFacts
<1>c. /\ store.last_committed_tx \in Collection /\ store.last_committed_tx \in Nat
      /\ store.seq \in Nat \ {0}
  BY <1>a, StoreFacts
<1> DEFINE key == AuditKey(t, ctx[t].step)
           failed == At(t, "failure")
           row == [tokens |-> IF failed THEN 0 ELSE call[t].tokens, error |-> failed]
           pc == IF failed THEN "failure_put" ELSE "audit_put"
<1>d. next_tx \in Collection /\ next_tx' = next_tx + 1
  BY <1>a, Base DEF AuditPut, Allocatable, CountersOK
<1>e. key[1] \notin InternalKinds
  BY KeyKinds DEF InternalKinds
<1>f. \/ /\ Stores(Put(store, next_tx, key, row), Mixed(next_tx))
         /\ call' = [call EXCEPT ![t].tx = next_tx, ![t].pc = pc]
         /\ UNCHANGED <<ctx, orphans, orphan_file>>
      \/ /\ Stores(Rollback(store, next_tx), Mixed(next_tx))
         /\ Returns(t, "Failed")
  BY DEF AuditPut, registry
<1>g. pc \in {"audit_put", "failure_put", "commit_put", "final_put"}
  OBVIOUS
<1>h. dlq_next_tx' = dlq_next_tx /\ client_tx' = client_tx
  BY DEF AuditPut
<1> HIDE DEF key, row, pc, failed
<1>i. StoreOK(store)' /\ departures' \subseteq Departures /\ TasksOK' /\ RegistryOK'
  <2>1. CASE /\ Stores(Put(store, next_tx, key, row), Mixed(next_tx))
             /\ call' = [call EXCEPT ![t].tx = next_tx, ![t].pc = pc]
             /\ UNCHANGED <<ctx, orphans, orphan_file>>
    <3>1. StoreOK(store)' /\ departures' \subseteq Departures
      BY <1>a, <1>d, <1>e, <2>1, StagesType DEF CountersOK
    <3> DEFINE c == [call[t] EXCEPT !.tx = next_tx, !.pc = pc]
    <3>2. c \in CallType /\ CallOK(c, ctx[t])
      BY <1>a, <1>d, <1>g, PutPcType
    <3>3. call' = [call EXCEPT ![t] = c] /\ ctx' = ctx
      BY <1>a, <2>1 DEF TasksOK
    <3> HIDE DEF c
    <3>4. TasksOK'
      BY <1>a, <3>2, <3>3, CallUpdate
    <3> QED BY <1>a, <2>1, <3>1, <3>4 DEF RegistryOK
  <2>2. CASE Stores(Rollback(store, next_tx), Mixed(next_tx)) /\ Returns(t, "Failed")
    <3>1. departures' \subseteq Departures /\ store' = Rollback(store, next_tx)
      BY <1>a, <2>2, StoresDepartures, MixedDepartures DEF CountersOK
    <3>2. StoreOK(store)'
      BY <1>a, <3>1, DrainOK
    <3> QED BY <1>a, <2>2, <3>1, <3>2, ReturnsType DEF Statuses
  <2> QED BY <1>f, <2>1, <2>2
<1>1. StoreOK(store)'
  BY <1>i
<1>2. TasksOK'
  BY <1>i
<1>3. CountersOK'
  BY <1>a, <1>d, <1>h, <1>i, Base DEF CountersOK
<1>4. RegistryOK'
  BY <1>i
<1> QED BY <1>1, <1>2, <1>3, <1>4 DEF EngineType

(* Its commit ends. *)
LEMMA AuditCommitType ==
  ASSUME EngineType, NEW t \in Tasks, AuditCommit(t)
  PROVE  EngineType'
<1>a. StoreOK(store) /\ TasksOK /\ CountersOK /\ RegistryOK
  BY DEF EngineType
<1>b. call[t] \in CallType /\ ctx[t] \in ContextType /\ CallOK(call[t], ctx[t])
  BY <1>a, TaskFacts
<1>c. /\ store.last_committed_tx \in Collection /\ store.last_committed_tx \in Nat
      /\ store.seq \in Nat \ {0}
  BY <1>a, StoreFacts
<1>d. StoreOK(store)' /\ departures' \subseteq Departures
  BY <1>a, CommitsType DEF AuditCommit, CountersOK
<1>e. \/ Goto(t, "commit") /\ UNCHANGED <<ctx, registry>>
      \/ Returns(t, "Failed")
  BY DEF AuditCommit
<1>f. TasksOK' /\ RegistryOK'
  <2>1. CASE Goto(t, "commit") /\ UNCHANGED <<ctx, registry>>
    BY <1>a, <2>1, GotoType DEF Pcs, registry, RegistryOK
  <2>2. CASE Returns(t, "Failed")
    BY <1>a, <2>2, ReturnsType DEF Statuses
  <2> QED BY <1>e, <2>1, <2>2
<1>1. StoreOK(store)'
  BY <1>d
<1>2. TasksOK'
  BY <1>f
<1>3. CountersOK'
  BY <1>a, <1>d DEF AuditCommit, CountersOK
<1>4. RegistryOK'
  BY <1>f
<1> QED BY <1>1, <1>2, <1>3, <1>4 DEF EngineType

(* Its commit ends. *)
LEMMA StepCommitType ==
  ASSUME EngineType, NEW t \in Tasks, StepCommit(t)
  PROVE  EngineType'
<1>a. StoreOK(store) /\ TasksOK /\ CountersOK /\ RegistryOK
  BY DEF EngineType
<1>b. call[t] \in CallType /\ ctx[t] \in ContextType /\ CallOK(call[t], ctx[t])
  BY <1>a, TaskFacts
<1>c. /\ store.last_committed_tx \in Collection /\ store.last_committed_tx \in Nat
      /\ store.seq \in Nat \ {0}
  BY <1>a, StoreFacts
<1>d. StoreOK(store)' /\ departures' \subseteq Departures
  BY <1>a, CommitsType DEF StepCommit, CountersOK
<1>e. \/ Goto(t, "advance") /\ UNCHANGED <<ctx, registry>>
      \/ Returns(t, "Failed")
  BY DEF StepCommit
<1>f. TasksOK' /\ RegistryOK'
  <2>1. CASE Goto(t, "advance") /\ UNCHANGED <<ctx, registry>>
    BY <1>a, <2>1, GotoType DEF Pcs, registry, RegistryOK
  <2>2. CASE Returns(t, "Failed")
    BY <1>a, <2>2, ReturnsType DEF Statuses
  <2> QED BY <1>e, <2>1, <2>2
<1>1. StoreOK(store)'
  BY <1>d
<1>2. TasksOK'
  BY <1>f
<1>3. CountersOK'
  BY <1>a, <1>d DEF StepCommit, CountersOK
<1>4. RegistryOK'
  BY <1>f
<1> QED BY <1>1, <1>2, <1>3, <1>4 DEF EngineType

(* Its commit ends. *)
LEMMA FinalCommitType ==
  ASSUME EngineType, NEW t \in Tasks, FinalCommit(t)
  PROVE  EngineType'
<1>a. StoreOK(store) /\ TasksOK /\ CountersOK /\ RegistryOK
  BY DEF EngineType
<1>b. call[t] \in CallType /\ ctx[t] \in ContextType /\ CallOK(call[t], ctx[t])
  BY <1>a, TaskFacts
<1>c. /\ store.last_committed_tx \in Collection /\ store.last_committed_tx \in Nat
      /\ store.seq \in Nat \ {0}
  BY <1>a, StoreFacts
<1>d. StoreOK(store)' /\ departures' \subseteq Departures
  BY <1>a, CommitsType DEF FinalCommit, CountersOK
<1>e. \/ Goto(t, "flush") /\ UNCHANGED <<ctx, registry>>
      \/ Returns(t, "Failed")
  BY DEF FinalCommit
<1>f. TasksOK' /\ RegistryOK'
  <2>1. CASE Goto(t, "flush") /\ UNCHANGED <<ctx, registry>>
    BY <1>a, <2>1, GotoType DEF Pcs, registry, RegistryOK
  <2>2. CASE Returns(t, "Failed")
    BY <1>a, <2>2, ReturnsType DEF Statuses
  <2> QED BY <1>e, <2>1, <2>2
<1>1. StoreOK(store)'
  BY <1>d
<1>2. TasksOK'
  BY <1>f
<1>3. CountersOK'
  BY <1>a, <1>d DEF FinalCommit, CountersOK
<1>4. RegistryOK'
  BY <1>f
<1> QED BY <1>1, <1>2, <1>3, <1>4 DEF EngineType

(* The row of a step is put. *)
LEMMA StepPutType ==
  ASSUME EngineType, NEW t \in Tasks, StepPut(t)
  PROVE  EngineType'
<1>a. StoreOK(store) /\ TasksOK /\ CountersOK /\ RegistryOK
  BY DEF EngineType
<1>b. call[t] \in CallType /\ ctx[t] \in ContextType /\ CallOK(call[t], ctx[t])
  BY <1>a, TaskFacts
<1>c. /\ store.last_committed_tx \in Collection /\ store.last_committed_tx \in Nat
      /\ store.seq \in Nat \ {0}
  BY <1>a, StoreFacts
<1>d. next_tx \in Collection /\ next_tx' = next_tx + 1
  BY <1>a, Base DEF StepPut, Allocatable, CountersOK
<1>e. StepKey(t, ctx[t].step)[1] \notin InternalKinds
  BY KeyKinds DEF InternalKinds
<1>f. StoreOK(store)' /\ departures' \subseteq Departures
  BY <1>a, <1>d, <1>e, StagesType DEF StepPut, CountersOK
<1>1. StoreOK(store)'
  BY <1>f
<1>2. TasksOK'
  <2> DEFINE c == [call[t] EXCEPT !.tx = next_tx, !.pc = "commit_put"]
  <2>1. c \in CallType /\ CallOK(c, ctx[t])
    BY <1>a, <1>d, PutPcType
  <2>2. call' = [call EXCEPT ![t] = c] /\ ctx' = ctx
    BY <1>a DEF StepPut, TasksOK
  <2> HIDE DEF c
  <2> QED BY <1>a, <2>1, <2>2, CallUpdate
<1>3. CountersOK'
  BY <1>a, <1>d, <1>f, Base DEF StepPut, CountersOK
<1>4. RegistryOK'
  BY <1>a DEF StepPut, registry, RegistryOK
<1> QED BY <1>1, <1>2, <1>3, <1>4 DEF EngineType

(* The final state is put. *)
LEMMA FinalPutType ==
  ASSUME EngineType, NEW t \in Tasks, FinalPut(t)
  PROVE  EngineType'
<1>a. StoreOK(store) /\ TasksOK /\ CountersOK /\ RegistryOK
  BY DEF EngineType
<1>b. call[t] \in CallType /\ ctx[t] \in ContextType /\ CallOK(call[t], ctx[t])
  BY <1>a, TaskFacts
<1>c. /\ store.last_committed_tx \in Collection /\ store.last_committed_tx \in Nat
      /\ store.seq \in Nat \ {0}
  BY <1>a, StoreFacts
<1>d. next_tx \in Collection /\ next_tx' = next_tx + 1
  BY <1>a, Base DEF FinalPut, Allocatable, CountersOK
<1>e. FinalKey(t)[1] \notin InternalKinds
  BY KeyKinds DEF InternalKinds
<1>f. StoreOK(store)' /\ departures' \subseteq Departures
  BY <1>a, <1>d, <1>e, StagesType DEF FinalPut, CountersOK
<1>1. StoreOK(store)'
  BY <1>f
<1>2. TasksOK'
  <2> DEFINE c == [call[t] EXCEPT !.tx = next_tx, !.pc = "final_put"]
             k == [ctx[t] EXCEPT !.status = "Completed"]
  <2>1. c \in CallType /\ CallOK(c, ctx[t])
    BY <1>a, <1>d, PutPcType
  <2>2. k \in ContextType /\ k.consumed = ctx[t].consumed
    BY <1>b DEF ContextType, Statuses
  <2>3. call' = [call EXCEPT ![t] = c] /\ ctx' = [ctx EXCEPT ![t] = k]
    BY <1>a DEF FinalPut, TasksOK
  <2> HIDE DEF c, k
  <2>4. CallOK(c, k)
    BY <2>1, <2>2 DEF CallOK
  <2> QED BY <1>a, <2>1, <2>2, <2>3, <2>4, TaskUpdate
<1>3. CountersOK'
  BY <1>a, <1>d, <1>f, Base DEF FinalPut, CountersOK
<1>4. RegistryOK'
  BY <1>a DEF FinalPut, registry, RegistryOK
<1> QED BY <1>1, <1>2, <1>3, <1>4 DEF EngineType

(* The task goes on to the next node, or has none. *)
LEMMA AdvanceType ==
  ASSUME EngineType, NEW t \in Tasks, Advance(t)
  PROVE  EngineType'
<1>a. StoreOK(store) /\ TasksOK /\ CountersOK /\ RegistryOK
  BY DEF EngineType
<1>b. call[t] \in CallType /\ ctx[t] \in ContextType /\ CallOK(call[t], ctx[t])
  BY <1>a, TaskFacts
<1>c. /\ store.last_committed_tx \in Collection /\ store.last_committed_tx \in Nat
      /\ store.seq \in Nat \ {0}
  BY <1>a, StoreFacts
<1>1. StoreOK(store)'
  BY <1>a DEF Advance
<1>2. TasksOK'
  <2>1. CASE Goto(t, "failure") /\ UNCHANGED ctx
    BY <1>a, <2>1, GotoType DEF Pcs
  <2>2. ASSUME NEW next \in Targets(Node(t)),
               ctx' = [ctx EXCEPT ![t].node = next, ![t].step = @ + 1],
               call' = [call EXCEPT ![t] = [NoCall EXCEPT !.pc = "loop"]]
        PROVE  TasksOK'
    <3> DEFINE k == [ctx[t] EXCEPT !.node = next, !.step = ctx[t].step + 1]
               c == [NoCall EXCEPT !.pc = "loop"]
    <3>1. next \in DOMAIN NodeType
      BY Constants DEF Targets
    <3>2. ctx[t].step + 1 \in Nat
      BY <1>b DEF ContextType
    <3>3. k \in ContextType /\ k.consumed = ctx[t].consumed
      BY <1>b, <3>1, <3>2 DEF ContextType
    <3>4. c \in CallType /\ c.reserved = 0 /\ c.pc = "loop"
      BY NoCallType, <1>b DEF NoCall, CallType, Pcs
    <3>5. ctx' = [ctx EXCEPT ![t] = k] /\ call' = [call EXCEPT ![t] = c]
      BY <1>a, <2>2 DEF TasksOK
    <3> HIDE DEF k, c
    <3>6. CallOK(c, k)
      BY <1>b, <3>3, <3>4 DEF CallOK, ContextType
    <3> QED BY <1>a, <3>3, <3>4, <3>5, <3>6, TaskUpdate
  <2> QED BY <2>1, <2>2 DEF Advance
<1>3. CountersOK'
  BY <1>a DEF Advance, CountersOK
<1>4. RegistryOK'
  BY <1>a DEF Advance, RegistryOK
<1> QED BY <1>1, <1>2, <1>3, <1>4 DEF EngineType

(* The flush at an End node. *)
LEMMA FinalFlushType ==
  ASSUME EngineType, NEW t \in Tasks, FinalFlush(t)
  PROVE  EngineType'
<1>a. StoreOK(store) /\ TasksOK /\ CountersOK /\ RegistryOK
  BY DEF EngineType
<1>b. call[t] \in CallType /\ ctx[t] \in ContextType /\ CallOK(call[t], ctx[t])
  BY <1>a, TaskFacts
<1>c. /\ store.last_committed_tx \in Collection /\ store.last_committed_tx \in Nat
      /\ store.seq \in Nat \ {0}
  BY <1>a, StoreFacts
<1>d. departures' \subseteq Departures /\ store' = Flush(store)
  BY <1>a, StoresDepartures DEF FinalFlush, CountersOK
<1>1. StoreOK(store)'
  BY <1>a, <1>d, FlushOK
<1>2. TasksOK'
  BY <1>a, GotoType DEF FinalFlush, Pcs
<1>3. CountersOK'
  BY <1>a, <1>d DEF FinalFlush, CountersOK
<1>4. RegistryOK'
  BY <1>a DEF FinalFlush, registry, RegistryOK
<1> QED BY <1>1, <1>2, <1>3, <1>4 DEF EngineType

\* What scan_prefix returns is stored.
LEMMA ScanReadable ==
  ASSUME NEW s
  PROVE  Scan(s) \subseteq Readable(s)
BY DEF Scan, Newest, Readable

(* replay_from: the context comes from the row of a checkpoint. *)
LEMMA ReplayType ==
  ASSUME EngineType, NEW t \in Tasks, NEW step, Replay(t, step)
  PROVE  EngineType'
<1>a. StoreOK(store) /\ TasksOK /\ CountersOK /\ RegistryOK
  BY DEF EngineType
<1>b. PICK r \in CheckpointsOf(t) :
         /\ ctx' = [ctx EXCEPT ![t] = [node |-> r.val.node, step |-> step,
                                       consumed |-> r.val.consumed, status |-> "Replayed"]]
         /\ Stores(RollbackToTx(store, r.val.tx_id),
                   IF \A u \in Tasks : At(u, "idle") THEN {} ELSE {"erased"})
         /\ r.val.step = step
  BY DEF Replay
<1>c. r \in Readable(store) /\ r.key[1] = "checkpoint"
  BY ScanReadable DEF CheckpointsOf
<1>d. /\ r.val.tx_id \in Collection /\ r.val.consumed \in Nat
      /\ r.val.node \in DOMAIN NodeType /\ step \in Nat
  BY <1>a, <1>b, <1>c DEF StoreOK, StoreType, RowOK
<1>e. departures' \subseteq Departures /\ store' = RollbackToTx(store, r.val.tx_id)
  <2> DEFINE more == IF \A u \in Tasks : At(u, "idle") THEN {} ELSE {"erased"}
  <2>1. more \subseteq Departures
    BY DEF Departures
  <2>2. Stores(RollbackToTx(store, r.val.tx_id), more)
    BY <1>b
  <2> HIDE DEF more
  <2> QED BY <1>a, <2>1, <2>2, StoresDepartures DEF CountersOK
<1>1. StoreOK(store)'
  BY <1>a, <1>d, <1>e, RollbackOK
<1>2. TasksOK'
  <2> DEFINE k == [node |-> r.val.node, step |-> step, consumed |-> r.val.consumed,
                   status |-> "Replayed"]
  <2>1. k \in ContextType /\ k.consumed \in Nat
    BY <1>d DEF ContextType, Statuses
  <2>2. call[t] \in CallType /\ CallOK(call[t], ctx[t]) /\ call[t].pc = "idle"
    BY <1>a, TaskFacts DEF Replay, At
  <2>3. ctx' = [ctx EXCEPT ![t] = k]
    BY <1>b
  <2> HIDE DEF k
  <2>4. CallOK(call[t], k)
    BY <2>1, <2>2 DEF CallOK
  <2>5. call' = [call EXCEPT ![t] = call[t]]
    BY <1>a DEF Replay, TasksOK
  <2> QED BY <1>a, <2>1, <2>2, <2>3, <2>4, <2>5, TaskUpdate
<1>3. CountersOK'
  BY <1>a, <1>e DEF Replay, CountersOK
<1>4. RegistryOK'
  BY <1>a DEF Replay, registry, RegistryOK
<1> QED BY <1>1, <1>2, <1>3, <1>4 DEF EngineType

(* The registry is written. *)
LEMMA FlushOrphansType ==
  ASSUME EngineType, FlushOrphans
  PROVE  EngineType'
<1>a. StoreOK(store) /\ TasksOK /\ CountersOK /\ RegistryOK
  BY DEF EngineType
<1>1. StoreOK(store)'
  BY <1>a DEF FlushOrphans
<1>2. TasksOK'
  BY <1>a DEF FlushOrphans, TasksOK
<1>3. CountersOK'
  BY <1>a DEF FlushOrphans, CountersOK
<1>4. RegistryOK'
  BY <1>a DEF FlushOrphans, RegistryOK
<1> QED BY <1>1, <1>2, <1>3, <1>4 DEF EngineType

(* A flush by another commit. *)
LEMMA MemtableFullType ==
  ASSUME EngineType, MemtableFull
  PROVE  EngineType'
<1>a. StoreOK(store) /\ TasksOK /\ CountersOK /\ RegistryOK
  BY DEF EngineType
<1>b. departures' \subseteq Departures /\ store' = Flush(store)
  BY <1>a, StoresDepartures DEF MemtableFull, CountersOK
<1>1. StoreOK(store)'
  BY <1>a, <1>b, FlushOK
<1>2. TasksOK'
  BY <1>a DEF MemtableFull, TasksOK
<1>3. CountersOK'
  BY <1>a, <1>b DEF MemtableFull, CountersOK
<1>4. RegistryOK'
  BY <1>a DEF MemtableFull, registry, RegistryOK
<1> QED BY <1>1, <1>2, <1>3, <1>4 DEF EngineType

(* Another client puts. *)
LEMMA ClientPutType ==
  ASSUME EngineType, ClientPut
  PROVE  EngineType'
<1>a. StoreOK(store) /\ TasksOK /\ CountersOK /\ RegistryOK
  BY DEF EngineType
<1>b. next_tx \in Collection /\ next_tx' = next_tx + 1 /\ client_tx' = next_tx
  BY <1>a, Base DEF ClientPut, Allocatable, CountersOK
<1>c. ClientKey(count["client_write"])[1] \notin InternalKinds
  BY KeyKinds DEF InternalKinds
<1>d. StoreOK(store)' /\ departures' \subseteq Departures
  BY <1>a, <1>b, <1>c, StagesType DEF ClientPut, CountersOK
<1>1. StoreOK(store)'
  BY <1>d
<1>2. TasksOK'
  BY <1>a DEF ClientPut, TasksOK
<1>3. CountersOK'
  BY <1>a, <1>b, <1>d, Base DEF ClientPut, CountersOK
<1>4. RegistryOK'
  BY <1>a DEF ClientPut, registry, RegistryOK
<1> QED BY <1>1, <1>2, <1>3, <1>4 DEF EngineType

(* Its commit ends. *)
LEMMA ClientCommitType ==
  ASSUME EngineType, ClientCommit
  PROVE  EngineType'
<1>a. StoreOK(store) /\ TasksOK /\ CountersOK /\ RegistryOK
  BY DEF EngineType
<1>b. StoreOK(store)' /\ departures' \subseteq Departures
  BY <1>a, CommitsType DEF ClientCommit, CountersOK
<1>1. StoreOK(store)'
  BY <1>b
<1>2. TasksOK'
  BY <1>a DEF ClientCommit, TasksOK
<1>3. CountersOK'
  BY <1>a, <1>b, Base DEF ClientCommit, CountersOK
<1>4. RegistryOK'
  BY <1>a DEF ClientCommit, registry, RegistryOK
<1> QED BY <1>1, <1>2, <1>3, <1>4 DEF EngineType

(* A new context is a context. *)
LEMMA NewContextType ==
  NewContext \in ContextType
BY AgentAssumption DEF NewContext, ContextType, Statuses

(* After a restart no call is at work. *)
LEMMA FreshTasks ==
  ASSUME ctx' = [t \in Tasks |-> NewContext], call' = [t \in Tasks |-> NoCall]
  PROVE  TasksOK'
<1>1. NewContext \in ContextType /\ NoCall \in CallType /\ CallOK(NoCall, NewContext)
  BY NewContextType, NoCallType
<1> QED BY <1>1 DEF TasksOK

(* A restart loads what was durable. *)
LEMMA RestartType ==
  ASSUME EngineType, Restart
  PROVE  EngineType'
<1>a. StoreOK(store) /\ TasksOK /\ CountersOK /\ RegistryOK
  BY DEF EngineType
<1> DEFINE s == Reopen(store)
           more == Blind(s)
<1>b. Stores(s, more) /\ next_tx' = s.last_committed_tx + 1
  BY DEF Restart
<1>c. StoreOK(s) /\ s.last_committed_tx \in Collection
  BY <1>a, ReopenOK DEF StoreOK, StoreType
<1>d. more \subseteq Departures
  BY DEF Departures, Blind
<1> HIDE DEF s, more
<1>e. departures' \subseteq Departures /\ store' = s
  BY <1>a, <1>b, <1>d, StoresDepartures DEF CountersOK
<1>1. StoreOK(store)'
  BY <1>c, <1>e
<1>2. TasksOK'
  BY FreshTasks DEF Restart
<1>3. CountersOK'
  BY <1>b, <1>c, <1>e, Base DEF Restart, CountersOK
<1>4. RegistryOK'
  BY <1>a DEF Restart, RegistryOK
<1> QED BY <1>1, <1>2, <1>3, <1>4 DEF EngineType

(* The empty store has its type. *)
LEMMA EmptyStoreOK ==
  StoreOK(EmptyStore)
<1>1. /\ IsStore(EmptyStore) /\ EmptyStore.log = {} /\ EmptyStore.memtable = {}
      /\ EmptyStore.sstables = {} /\ EmptyStore.tx_buffer = {}
      /\ EmptyStore.last_committed_tx = 0 /\ EmptyStore.seq = 1
  BY DEF EmptyStore, IsStore
<1>2. Readable(EmptyStore) = {}
  BY <1>1 DEF Readable
<1> HIDE DEF EmptyStore
<1> QED BY <1>1, <1>2, Base DEF StoreOK, StoreType

(* The initial state has its type. *)
LEMMA InitType ==
  ASSUME Init
  PROVE  EngineType
<1>1. StoreOK(store)
  BY EmptyStoreOK DEF Init
<1>2. TasksOK
  <2>1. NewContext \in ContextType /\ NoCall \in CallType /\ CallOK(NoCall, NewContext)
    BY NewContextType, NoCallType
  <2> QED BY <2>1 DEF Init, TasksOK
<1>3. CountersOK
  BY Base DEF Init, CountersOK
<1>4. RegistryOK
  BY DEF Init, RegistryOK
<1> QED BY <1>1, <1>2, <1>3, <1>4 DEF EngineType

(* Every step keeps it. *)
LEMMA NextType ==
  ASSUME EngineType, [Next]_vars
  PROVE  EngineType'
<1>1. ASSUME NEW t \in Tasks, Turn(t) PROVE EngineType'
  BY <1>1, RecoverReadType, RecoverOrphanType, LimitReachedType, DecideType, StepBeginType,
     CheckpointReadType, CheckpointSaveType, ReserveType, ToolOkType, ToolErrorType,
     ToolTimeoutType, RetryRefusedType, LetterPutType, LetterCommitType, AuditPutType,
     AuditCommitType, StepPutType, StepCommitType, AdvanceType, FinalPutType,
     FinalCommitType, FinalFlushType DEF Turn
<1>2. CASE UNCHANGED vars
  BY <1>2 DEF vars, shared, registry, EngineType, TasksOK, CountersOK, RegistryOK
<1>3. CASE Next
  BY <1>1, <1>3, RunType, ReplayType, ClientPutType, ClientCommitType, FlushOrphansType,
     MemtableFullType, RestartType DEF Next
<1> QED BY <1>2, <1>3

(* EngineType holds in every state. *)
LEMMA EngineTypeInvariant == Spec => []EngineType
<1>1. Init => EngineType
  BY InitType
<1>2. EngineType /\ [Next]_vars => EngineType'
  BY NextType
<1> QED BY <1>1, <1>2, PTL DEF Spec

(* It implies TypeOK. *)
LEMMA EngineTypeOK ==
  ASSUME EngineType
  PROVE  TypeOK
<1>1. \A r \in store.log \cup store.memtable \cup (UNION store.sstables) \cup store.tx_buffer :
         r.tx \in TxIds
  <2>1. \A r \in Readable(store) \cup store.tx_buffer : RowOK(r)
    BY DEF EngineType, StoreOK, StoreType
  <2>2. store.log \cup store.memtable \cup (UNION store.sstables) \subseteq Readable(store)
    BY DEF EngineType, StoreOK, StoreType, Readable
  <2>3. \A n \in Collection \cup {INTERNAL_BASE} : n \in TxIds
    BY Base DEF TxIds
  <2> QED BY <2>1, <2>2, <2>3 DEF RowOK
<1>2. store.last_committed_tx < INTERNAL_BASE /\ next_tx < INTERNAL_BASE
  BY Base, StoreFacts DEF EngineType, CountersOK
<1>3. ASSUME NEW t \in Tasks
      PROVE  /\ ctx[t].node \in DOMAIN NodeType /\ ctx[t].step \in Nat /\ ctx[t].consumed \in Nat
             /\ ctx[t].status \in Statuses
             /\ call[t].pc \in Pcs /\ call[t].guard \in TxIds
  <2>1. call[t] \in CallType /\ ctx[t] \in ContextType
    BY TaskFacts DEF EngineType
  <2>2. \A n \in Collection \cup {NONE} : n \in TxIds
    BY Base DEF TxIds, NONE
  <2> QED BY <2>1, <2>2 DEF CallType, ContextType
<1>4. departures \subseteq {"erased", "ahead", "unlogged", "mixed", "raced", "blind", "stale"}
  BY DEF EngineType, CountersOK, Departures
<1> QED BY <1>1, <1>2, <1>3, <1>4 DEF TypeOK

(* The state is well typed in every reachable state. In particular no transaction of a   *)
(* client, of the dead letter queue or of the engine ever has an id of the internal      *)
(* range, through rollbacks, failed commits, recoveries of orphans and restarts; and the *)
(* budget a context reports as consumed never falls below 0, although every return       *)
(* refunds what was reserved and every checkpoint that is replayed sets it back.         *)
THEOREM TypeCorrect == Spec => []TypeOK
<1>1. EngineType => TypeOK
  BY EngineTypeOK
<1> QED BY <1>1, EngineTypeInvariant, PTL

-----------------------------------------------------------------------------

(* Every row of a client is at or below last_committed_tx: get and scan find it. *)
Visible(s) == \A r \in Readable(s) : Internal(r) \/ r.tx <= s.last_committed_tx

(* Nothing is in the memtable only. *)
Logged(s) == s.memtable \subseteq s.log

(* The keys of clients that are in the store, visible or not. *)
KeysStored(s) == {r.key : r \in {q \in Readable(s) : ~Internal(q)}}

(* A row is internal exactly if the checkpoint store wrote it. *)
LEMMA RowInternal ==
  ASSUME NEW r, RowOK(r)
  PROVE  /\ Internal(r) <=> r.tx = INTERNAL_BASE
         /\ Internal(r) <=> r.key[1] \in InternalKinds
         /\ ~Internal(r) => r.tx \in Collection
BY Base DEF RowOK, Internal

(* What is known of a row of a well-typed store. *)
LEMMA StoreRows ==
  ASSUME NEW s, StoreType(s), NEW r \in Readable(s)
  PROVE  /\ RowOK(r) /\ r.seq \in Nat
         /\ Internal(r) <=> r.tx = INTERNAL_BASE
         /\ Internal(r) <=> r.key[1] \in InternalKinds
         /\ ~Internal(r) => r.tx \in Collection
<1>1. RowOK(r) /\ r.seq \in Nat
  BY DEF StoreType
<1> QED BY <1>1, RowInternal

\* Of the versions of a key one is the newest.
LEMMA NewestExists ==
  ASSUME NEW s, StoreType(s), NEW S, S \subseteq Readable(s), NEW q \in S
  PROVE  \E r \in Newest(S) : r.key = q.key
<1> DEFINE M == {x \in S : x.key = q.key}
           seqs == {x.seq : x \in M}
<1>1. PICK n \in Nat : \A r \in Readable(s) : r.seq \in Nat /\ r.seq <= n
  BY DEF StoreType
<1>2. seqs \subseteq Nat /\ seqs # {} /\ \A k \in seqs : k <= n
  BY <1>1
<1>3. \E m \in seqs : \A k \in seqs : k <= m
  <2> HIDE DEF seqs
  <2> QED BY <1>2, GreatestExists
<1>4. PICK x \in M : \A y \in M : y.seq <= x.seq
  BY <1>3
<1>5. x \in Newest(S) /\ x.key = q.key
  BY <1>4 DEF Newest
<1> QED BY <1>5

(* In a store in which all is visible a scan finds every key. *)
LEMMA KeysOfStored ==
  ASSUME NEW s, StoreType(s), Visible(s)
  PROVE  KeysOf(s) = KeysStored(s)
<1> DEFINE V == {r \in s.memtable \cup UNION s.sstables :
                    Internal(r) \/ r.tx <= s.last_committed_tx}
<1>1. V = Readable(s)
  BY DEF Visible, Readable
<1>2. Scan(s) = Newest(Readable(s))
  <2>1. Scan(s) = Newest(V)
    BY DEF Scan
  <2> HIDE DEF V
  <2> QED BY <1>1, <2>1
<1>3. KeysOf(s) \subseteq KeysStored(s)
  BY <1>2 DEF KeysOf, Rows, KeysStored, Newest
<1>4. ASSUME NEW q \in Readable(s), ~Internal(q)
      PROVE  q.key \in KeysOf(s)
  <2>1. PICK r \in Newest(Readable(s)) : r.key = q.key
    BY NewestExists
  <2>2. r \in Readable(s)
    BY DEF Newest
  <2>3. ~Internal(r)
    BY <1>4, <2>1, <2>2, StoreRows
  <2> QED BY <1>2, <2>1, <2>3 DEF KeysOf, Rows
<1> QED BY <1>3, <1>4 DEF KeysStored

-----------------------------------------------------------------------------
\* What each call of the store does to what is visible, logged and stored.
LEMMA PutKeeps ==
  ASSUME NEW s, StoreType(s), NEW tx, NEW key, NEW val, NEW p, p = Put(s, tx, key, val)
  PROVE  /\ Visible(s) => Visible(p)
         /\ Logged(s) => Logged(p)
         /\ Readable(p) = Readable(s)
<1>1. /\ p.log = s.log /\ p.memtable = s.memtable /\ p.sstables = s.sstables
      /\ p.last_committed_tx = s.last_committed_tx
  BY PutStore DEF StoreType
<1> QED BY <1>1 DEF Visible, Logged, Readable

(* The rollback of one transaction changes nothing that can be read. *)
LEMMA DrainKeeps ==
  ASSUME NEW s, StoreType(s), NEW tx, NEW p, p = Rollback(s, tx)
  PROVE  /\ Visible(s) => Visible(p)
         /\ Logged(s) => Logged(p)
         /\ Readable(p) = Readable(s) /\ p.last_committed_tx = s.last_committed_tx
         /\ p.log = s.log /\ p.sstables = s.sstables
<1>1. /\ p.log = s.log /\ p.memtable = s.memtable /\ p.sstables = s.sstables
      /\ p.last_committed_tx = s.last_committed_tx
  BY DrainStore DEF StoreType
<1> QED BY <1>1 DEF Visible, Logged, Readable

(* A commit makes its rows readable, visible and logged. *)
LEMMA CommitKeeps ==
  ASSUME NEW s, StoreType(s), NEW tx, NEW p, p = Commit(s, tx)
  PROVE  /\ Visible(s) => Visible(p)
         /\ Logged(s) => Logged(p)
         /\ Readable(p) = Readable(s) \cup NewRows(s, tx)
<1> DEFINE new == NewRows(s, tx)
<1>1. /\ p.log = s.log \cup new /\ p.memtable = s.memtable \cup new
      /\ p.sstables = s.sstables
      /\ new = {} => p = s
      /\ new # {} => p.last_committed_tx = Advanced(s, tx)
  BY CommitStore DEF StoreType
<1>2. \A r \in new : RowOK(r) /\ r.tx = tx
  BY NewRowsType
<1>3. Readable(p) = Readable(s) \cup new
  BY <1>1 DEF Readable
<1>4. ASSUME Visible(s), new # {} PROVE Visible(p)
  <2>1. tx \in Collection \cup {INTERNAL_BASE}
    BY <1>2, <1>4 DEF RowOK
  <2>2. /\ p.last_committed_tx \in Collection /\ s.last_committed_tx <= p.last_committed_tx
        /\ tx \in Collection => tx <= p.last_committed_tx
    BY <1>1, <1>4, <2>1, AdvancedType
  <2>3. s.last_committed_tx \in Nat /\ p.last_committed_tx \in Nat
    BY <2>2, Base DEF StoreType
  <2>4. ASSUME NEW r \in Readable(s), ~Internal(r)
        PROVE  r.tx <= p.last_committed_tx
    <3>1. r.tx \in Nat /\ r.tx <= s.last_committed_tx
      BY <1>4, <2>4, StoreRows, Base DEF Visible
    <3> QED BY <2>2, <2>3, <3>1
  <2>5. ASSUME NEW r \in new, ~Internal(r)
        PROVE  r.tx <= p.last_committed_tx
    BY <1>2, <2>2, <2>5, RowInternal
  <2> HIDE DEF new
  <2> QED BY <1>3, <2>4, <2>5 DEF Visible
<1>5. Visible(s) => Visible(p)
  BY <1>1, <1>4
<1> HIDE DEF new
<1>6. Logged(s) => Logged(p)
  BY <1>1 DEF Logged
<1> QED BY <1>3, <1>5, <1>6 DEF new

(* After rollback_to_tx all that is left is visible: last_committed_tx is the target. *)
LEMMA RollbackVisible ==
  ASSUME NEW s, StoreType(s), NEW target \in Collection, NEW p, p = RollbackToTx(s, target)
  PROVE  Visible(p)
<1>1. /\ p.log = TruncatedLog(s, target) /\ p.log \subseteq s.log
      /\ \A r \in p.memtable : r \in p.log \/ (r \in UNION s.sstables /\ r.tx <= target)
      /\ \A r \in UNION p.sstables : r \in UNION s.sstables /\ r.tx <= target
      /\ p.last_committed_tx = target
  <2>1. IsStore(s)
    BY DEF StoreType
  <2> QED BY <2>1, RollbackStore
<1>2. ASSUME NEW r \in p.log, ~Internal(r)
      PROVE  r.tx <= target
  <2>1. r \in s.log /\ r \in Readable(s)
    BY <1>1 DEF StoreType, Readable
  <2>2. r.tx \in Nat /\ target \in Nat /\ r.seq \in Nat
    BY <1>2, <2>1, StoreRows, Base
  <2>3. ~(r.tx > target)
    <3> SUFFICES ASSUME r.tx > target PROVE FALSE
      OBVIOUS
    <3>1. r.seq < r.seq
      BY <1>1, <1>2, <2>1 DEF TruncatedLog
    <3> QED BY <2>2, <3>1
  <2> QED BY <2>2, <2>3
<1> QED BY <1>1, <1>2 DEF Visible, Readable

\* A rollback to a transaction that nothing visible is after keeps everything that
\* is not internal, on a store that reads its log.
LEMMA RollbackKeeps ==
  ASSUME encryption_at_rest,
         NEW s, StoreType(s), Visible(s), Logged(s),
         NEW target \in Collection, s.last_committed_tx <= target,
         NEW p, p = RollbackToTx(s, target)
  PROVE  /\ p.log = s.log
         /\ \A r \in Readable(s) : ~Internal(r) => r \in Readable(p)
<1>1. /\ p.log = TruncatedLog(s, target) /\ p.log \subseteq p.memtable
      /\ \A r \in UNION s.sstables : r.tx <= target => r \in Readable(p)
  <2>1. IsStore(s)
    BY DEF StoreType
  <2> QED BY <2>1, RollbackStore
<1>2. \A r \in Readable(s) : ~Internal(r) => r.tx \in Nat /\ r.tx <= target
  <2>1. s.last_committed_tx \in Nat /\ target \in Nat
    BY Base DEF StoreType
  <2>2. ASSUME NEW r \in Readable(s), ~Internal(r)
        PROVE  r.tx \in Nat /\ r.tx <= target
    <3>1. r.tx \in Nat /\ r.tx <= s.last_committed_tx
      BY <2>2, StoreRows, Base DEF Visible
    <3> QED BY <2>1, <3>1
  <2> QED BY <2>2
<1>3. s.log \subseteq Readable(s)
  BY DEF StoreType, Readable
<1>4. {r \in s.log : ~Internal(r) /\ r.tx > target} = {}
  <2>1. target \in Nat
    BY Base
  <2> QED BY <1>2, <1>3, <2>1
<1>5. p.log = s.log
  BY <1>1, <1>4 DEF TruncatedLog
<1> QED BY <1>1, <1>2, <1>5 DEF Readable, Logged

(* A flush loses no key, and leaves nothing unlogged. *)
LEMMA FlushKeeps ==
  ASSUME NEW s, StoreType(s), NEW p, p = Flush(s)
  PROVE  /\ Visible(s) => Visible(p)
         /\ Logged(p)
         /\ KeysStored(s) \subseteq KeysStored(p)
<1>1. /\ p.log = {} /\ p.memtable = {}
      /\ UNION p.sstables = (UNION s.sstables) \cup Newest(s.memtable)
      /\ p.last_committed_tx \in Collection
      /\ s.last_committed_tx <= p.last_committed_tx
  BY FlushStore
<1>2. Readable(p) \subseteq Readable(s)
  BY FlushType
<1>3. ASSUME Visible(s) PROVE Visible(p)
  <2>1. s.last_committed_tx \in Nat /\ p.last_committed_tx \in Nat
    BY <1>1, Base DEF StoreType
  <2>2. ASSUME NEW r \in Readable(s), ~Internal(r) PROVE r.tx <= p.last_committed_tx
    <3>1. r.tx \in Nat /\ r.tx <= s.last_committed_tx
      BY <1>3, <2>2, StoreRows, Base DEF Visible
    <3> QED BY <1>1, <2>1, <3>1
  <2> QED BY <1>2, <2>2 DEF Visible
<1>4. ASSUME NEW q \in Readable(s), ~Internal(q)
      PROVE  q.key \in KeysStored(p)
  <2>1. CASE q \in UNION s.sstables
    BY <1>1, <1>4, <2>1 DEF KeysStored, Readable
  <2>2. CASE q \in s.memtable
    <3>1. s.memtable \subseteq Readable(s)
      BY DEF Readable
    <3>2. PICK r \in Newest(s.memtable) : r.key = q.key
      BY <2>2, <3>1, NewestExists
    <3>3. r \in Readable(s)
      BY <3>1 DEF Newest
    <3>4. ~Internal(r)
      BY <1>4, <3>2, <3>3, StoreRows
    <3>5. r \in Readable(p)
      BY <1>1 DEF Readable
    <3> QED BY <3>2, <3>4, <3>5 DEF KeysStored
  <2> QED BY <2>1, <2>2 DEF Readable
<1>5. Logged(p)
  BY <1>1 DEF Logged
<1> QED BY <1>3, <1>4, <1>5 DEF KeysStored

(* Opening a store whose memtable was logged loses no key. *)
LEMMA ReopenKeeps ==
  ASSUME NEW s, StoreType(s), Logged(s), NEW p, p = Reopen(s)
  PROVE  KeysStored(s) \subseteq KeysStored(p)
<1> DEFINE q == Replayed(s)
<1>1. StoreType(q) /\ q.memtable = s.log /\ q.sstables = s.sstables
  BY ReplayedStore
<1>2. p = Flush(q)
  BY ReopenIs
<1> HIDE DEF q
<1>3. Readable(q) = Readable(s)
  BY <1>1 DEF Readable, Logged, StoreType
<1>4. KeysStored(q) \subseteq KeysStored(p)
  BY <1>1, <1>2, FlushKeeps
<1> QED BY <1>3, <1>4 DEF KeysStored

(* Unless a restart is blind, all is visible after it. *)
LEMMA HighestVisible ==
  ASSUME NEW p, StoreType(p), ~(p.last_committed_tx < HighestTx(p))
  PROVE  Visible(p)
<1> DEFINE S == {q \in p.memtable \cup p.log \cup UNION p.sstables : ~Internal(q)}
           txs == {0} \cup {r.tx : r \in S}
<1>1. p.memtable \cup p.log \cup UNION p.sstables = Readable(p)
  BY DEF Readable, StoreType
<1>2. \A r \in S : r.tx \in Collection
  BY <1>1, StoreRows
<1>3. txs \subseteq Nat /\ txs # {} /\ \A x \in txs : x <= MAX_COLLECTION_SEQUENCE
  BY <1>2, Base
<1>4. Max(txs) \in Nat /\ \A x \in txs : x <= Max(txs)
  <2>1. Max(txs) \in txs /\ \A x \in txs : x <= Max(txs)
    <3> HIDE DEF txs
    <3> QED BY <1>3, MaxOf, Base
  <2> QED BY <1>3, <2>1
<1>5. HighestTx(p) = Max(txs)
  BY DEF HighestTx
<1>6. p.last_committed_tx \in Nat
  BY Base DEF StoreType
<1>7. ASSUME NEW r \in Readable(p), ~Internal(r)
      PROVE  r.tx <= p.last_committed_tx
  <2>1. r.tx \in txs
    BY <1>1, <1>7
  <2> HIDE DEF txs
  <2>2. r.tx \in Nat /\ r.tx <= Max(txs)
    BY <1>3, <1>4, <2>1
  <2> QED BY <1>4, <1>5, <1>6, <2>2
<1> QED BY <1>7 DEF Visible

\* A commit that fails loses nothing that was committed.
LEMMA FailsKeeps ==
  ASSUME encryption_at_rest,
         NEW s, StoreType(s), NEW tx, NEW p, p = CommitFails(s, tx)
  PROVE  /\ Visible(p)
         /\ Visible(s) /\ Logged(s) =>
               p.log = s.log /\ \A r \in Readable(s) : ~Internal(r) => r \in Readable(p)
<1> DEFINE d == Rollback(s, tx)
<1>1. /\ (Visible(s) => Visible(d)) /\ (Logged(s) => Logged(d))
      /\ Readable(d) = Readable(s) /\ d.last_committed_tx = s.last_committed_tx
      /\ d.log = s.log
  BY DrainKeeps
<1>2. StoreType(d)
  BY DrainType
<1>3. p = RollbackToTx(d, s.last_committed_tx)
  BY DEF CommitFails
<1>4. s.last_committed_tx \in Collection /\ s.last_committed_tx <= s.last_committed_tx
  BY Base DEF StoreType
<1> HIDE DEF d
<1>5. Visible(p)
  BY <1>2, <1>3, <1>4, RollbackVisible
<1>6. ASSUME Visible(s), Logged(s)
      PROVE  p.log = d.log /\ \A r \in Readable(d) : ~Internal(r) => r \in Readable(p)
  BY <1>1, <1>2, <1>3, <1>4, <1>6, RollbackKeeps
<1> QED BY <1>1, <1>5, <1>6

(* What Stores records: whether the memtable is logged. *)
LEMMA StoresFacts ==
  ASSUME NEW s, NEW more, Stores(s, more)
  PROVE  /\ store' = s /\ departures \subseteq departures' /\ more \subseteq departures'
         /\ "unlogged" \notin departures' => Logged(s)
BY DEF Stores, Logged

(* What the store owes to its history. *)
KeepInv ==
    /\ "blind" \notin departures => Visible(store)
    /\ "unlogged" \notin departures => Logged(store)

\* What a step that is not a replay does to the store.
Keeps(s, p) ==
    /\ Visible(s) => Visible(p)
    /\ Visible(s) /\ Logged(s) => KeysStored(s) \subseteq KeysStored(p)

(* What a step other than a replay does to KeepInv and to the keys of the clients. *)
StepKeeps ==
    /\ departures \subseteq departures'
    /\ KeepInv /\ "unlogged" \notin departures' => Logged(store')
    /\ KeepInv /\ "blind" \notin departures' => Visible(store')
    /\ KeepInv /\ {"blind", "raced", "unlogged"} \cap departures' = {} =>
          KeysStored(store) \subseteq KeysStored(store')

(* A step that leaves the store alone keeps everything. *)
LEMMA QuietKeeps ==
  ASSUME UNCHANGED store, departures \subseteq departures'
  PROVE  StepKeeps
BY DEF StepKeeps, KeepInv

(* A step that changes the store by an operation that keeps, keeps. *)
LEMMA StoresKeeps ==
  ASSUME NEW s, NEW more, Stores(s, more), Keeps(store, s)
  PROVE  StepKeeps
<1>1. /\ store' = s /\ departures \subseteq departures'
      /\ "unlogged" \notin departures' => Logged(s)
  BY StoresFacts
<1> QED BY <1>1 DEF StepKeeps, KeepInv, Keeps

(* Put keeps. *)
LEMMA PutIsKept ==
  ASSUME NEW s, StoreType(s), NEW tx, NEW key, NEW val
  PROVE  Keeps(s, Put(s, tx, key, val))
BY PutKeeps DEF Keeps, KeysStored

(* The rollback of one transaction keeps. *)
LEMMA DrainIsKept ==
  ASSUME NEW s, StoreType(s), NEW tx
  PROVE  Keeps(s, Rollback(s, tx))
BY DrainKeeps DEF Keeps, KeysStored

(* Commit keeps. *)
LEMMA CommitIsKept ==
  ASSUME NEW s, StoreType(s), NEW tx
  PROVE  Keeps(s, Commit(s, tx))
BY CommitKeeps DEF Keeps, KeysStored

(* A failed commit keeps: the rollback after it goes back to last_committed_tx, which is *)
(* the newest that any transaction committed.                                            *)
LEMMA FailsIsKept ==
  ASSUME encryption_at_rest, NEW s, StoreType(s), NEW tx
  PROVE  Keeps(s, CommitFails(s, tx))
BY FailsKeeps DEF Keeps, KeysStored

(* Flush keeps. *)
LEMMA FlushIsKept ==
  ASSUME NEW s, StoreType(s)
  PROVE  Keeps(s, Flush(s))
BY FlushKeeps DEF Keeps

(* A commit of a task or a client, or its failure, keeps. *)
LEMMA CommitsKeeps ==
  ASSUME encryption_at_rest, EngineType, NEW tx, Commits(tx) \/ CommitError(tx)
  PROVE  StepKeeps
<1>1. StoreType(store)
  BY DEF EngineType, StoreOK
<1>2. CASE Commits(tx)
  BY <1>1, <1>2, CommitIsKept, StoresKeeps DEF Commits
<1>3. CASE CommitError(tx)
  BY <1>1, <1>3, FailsIsKept, StoresKeeps DEF CommitError
<1> QED BY <1>2, <1>3

\* The mark of the internal ids is written and flushed before the checkpoint.
LEMMA ReservedKeeps ==
  ASSUME NEW s, StoreOK(s), NEW p, p = Reserved(s)
  PROVE  StoreType(p) /\ Keeps(s, p) /\ (Logged(s) => Logged(p))
<1>1. CASE hwm_reserved
  <2>1. p = s
    BY <1>1 DEF Reserved
  <2> QED BY <2>1 DEF StoreOK, Keeps
<1>2. CASE ~hwm_reserved
  <2> DEFINE a == Put(s, INTERNAL_BASE, HwmKey, <<>>)
             c == Commit(a, INTERNAL_BASE)
  <2>0. StoreType(s)
    BY DEF StoreOK
  <2>1. p = Flush(c)
    BY <1>2 DEF Reserved
  <2>2. StoreType(a)
    <3> DEFINE e == [tx |-> INTERNAL_BASE, key |-> HwmKey, val |-> <<>>]
    <3>1. e.tx = INTERNAL_BASE /\ e.key[1] = "hwm"
      BY DEF HwmKey
    <3>2. RowOK(e)
      <4> HIDE DEF e
      <4> QED BY <3>1 DEF RowOK, InternalKinds
    <3> QED BY <2>0, <3>2, PutType
  <2>3. /\ Visible(s) => Visible(a)
        /\ Logged(s) => Logged(a)
        /\ Readable(a) = Readable(s)
    <3> HIDE DEF a
    <3> QED BY <2>0, PutKeeps DEF a
  <2> HIDE DEF a
  <2>4. StoreType(c)
    BY <2>2, CommitType
  <2>5. /\ Visible(a) => Visible(c)
        /\ Logged(a) => Logged(c)
        /\ Readable(a) \subseteq Readable(c)
    BY <2>2, CommitKeeps
  <2> HIDE DEF c
  <2>6. /\ Visible(c) => Visible(p)
        /\ Logged(p)
        /\ KeysStored(c) \subseteq KeysStored(p)
    BY <2>1, <2>4, FlushKeeps
  <2>7. StoreType(p)
    BY <2>1, <2>4, FlushType
  <2>8. KeysStored(s) \subseteq KeysStored(c)
    BY <2>3, <2>5 DEF KeysStored
  <2> QED BY <2>3, <2>5, <2>6, <2>7, <2>8 DEF Keeps
<1> QED BY <1>1, <1>2

(* The save of a checkpoint keeps, with the reservation of ids before it and the rollback *)
(* when its commit fails.                                                                 *)
LEMMA CheckpointSaveKeeps ==
  ASSUME encryption_at_rest, EngineType, NEW t \in Tasks, CheckpointSave(t)
  PROVE  StepKeeps
<1> DEFINE meta == [node |-> Node(t), step |-> ctx[t].step, tx_id |-> call[t].cp,
                     consumed |-> ctx[t].consumed, seq_no |-> call[t].seq_no]
           key == CheckpointKey(t, Node(t), ctx[t].step)
           b == Reserved(store)
           s == Put(b, INTERNAL_BASE, key, meta)
<1>1. StoreOK(store)
  BY DEF EngineType
<1>2. StoreType(b) /\ Keeps(store, b) /\ (Logged(store) => Logged(b))
  BY <1>1, ReservedKeeps
<1>3. StoreType(s)
  <2>1. RowOK([tx |-> INTERNAL_BASE, key |-> key, val |-> meta])
    BY CheckpointRowOK
  <2> HIDE DEF key, meta, b
  <2> QED BY <1>2, <2>1, PutType
<1>4. \/ Stores(Commit(s, INTERNAL_BASE), {})
      \/ Stores(CommitFails(s, INTERNAL_BASE), {})
  BY DEF CheckpointSave
<1>5. Keeps(b, s) /\ (Logged(b) => Logged(s))
  <2> HIDE DEF key, meta, b
  <2> QED BY <1>2, PutIsKept, PutKeeps
<1> HIDE DEF s, b
<1>6. Keeps(s, Commit(s, INTERNAL_BASE)) /\ Keeps(s, CommitFails(s, INTERNAL_BASE))
  BY <1>3, CommitIsKept, FailsIsKept
<1>7. /\ Keeps(store, Commit(s, INTERNAL_BASE))
      /\ Keeps(store, CommitFails(s, INTERNAL_BASE))
  BY <1>2, <1>5, <1>6 DEF Keeps
<1> QED BY <1>4, <1>7, StoresKeeps

\* A recovery rolls back to an orphan that last_tx_id, as it was read, had not
\* passed; unless a commit came between, nothing is after it.
LEMMA RecoverOrphanKeeps ==
  ASSUME encryption_at_rest, EngineType, NEW t \in Tasks, RecoverOrphan(t)
  PROVE  StepKeeps
<1> DEFINE cp == Head(call[t].todo)
           p == RollbackToTx(store, cp)
           more == IF store.last_committed_tx > call[t].last_tx THEN {"raced"} ELSE {}
<1>1. StoreType(store) /\ call[t] \in CallType /\ CallOK(call[t], ctx[t])
  BY TaskFacts DEF EngineType, StoreOK
<1>2. cp \in Collection
  BY <1>1 DEF RecoverOrphan, At, CallType, CallOK
<1>3. CASE UNCHANGED <<store, departures>>
  BY <1>3, QuietKeeps
<1>4. CASE Barrier(call[t].last_tx, cp) /\ Stores(p, more)
  <2>1. Stores(p, more)
    BY <1>4
  <2>2. call[t].last_tx <= cp /\ call[t].last_tx \in Nat
    BY <1>1, <1>4 DEF Barrier, CallType
  <2>3. cp \in Nat /\ store.last_committed_tx \in Nat
    BY <1>1, <1>2, Base DEF StoreType
  <2> HIDE DEF cp
  <2>4. Visible(p)
    BY <1>1, <1>2, RollbackVisible
  <2>5. CASE more = {}
    <3>1. store.last_committed_tx <= cp
      BY <1>1, <2>2, <2>3, <2>5
    <3>2. ASSUME Visible(store), Logged(store)
          PROVE  \A r \in Readable(store) : ~Internal(r) => r \in Readable(p)
      BY <1>1, <1>2, <3>1, <3>2, RollbackKeeps
    <3>3. Keeps(store, p)
      <4> HIDE DEF p
      <4> QED BY <2>4, <3>2 DEF Keeps, KeysStored
    <3> QED BY <2>1, <3>3, StoresKeeps
  <2>6. CASE more = {"raced"}
    <3> HIDE DEF p, more
    <3>1. /\ store' = p /\ departures \subseteq departures' /\ more \subseteq departures'
          /\ "unlogged" \notin departures' => Logged(p)
      BY <2>1, StoresFacts
    <3> QED BY <2>4, <2>6, <3>1 DEF StepKeeps
  <2> QED BY <2>5, <2>6
<1> QED BY <1>3, <1>4 DEF RecoverOrphan

(* A restart keeps, unless it is blind or something was unlogged. *)
LEMMA RestartKeeps ==
  ASSUME encryption_at_rest, EngineType, Restart
  PROVE  StepKeeps
<1> DEFINE s == Reopen(store)
           more == Blind(s)
<1>1. Stores(s, more)
  BY DEF Restart
<1>2. StoreType(store) /\ StoreType(s)
  BY ReopenType DEF EngineType, StoreOK
<1>3. Logged(store) => KeysStored(store) \subseteq KeysStored(s)
  BY <1>2, ReopenKeeps
<1>4. "blind" \notin more => Visible(s)
  <2> HIDE DEF s
  <2> QED BY <1>2, HighestVisible DEF Blind
<1> HIDE DEF s, more
<1>5. /\ store' = s /\ departures \subseteq departures' /\ more \subseteq departures'
      /\ "unlogged" \notin departures' => Logged(s)
  BY <1>1, StoresFacts
<1> QED BY <1>3, <1>4, <1>5 DEF StepKeeps, KeepInv

\* A replay keeps what the others rely on, but for the rows it removes.
LEMMA ReplayVisible ==
  ASSUME EngineType, NEW t \in Tasks, NEW step, Replay(t, step), KeepInv
  PROVE  departures \subseteq departures' /\ KeepInv'
<1>1. StoreType(store)
  BY DEF EngineType, StoreOK
<1>2. PICK r \in CheckpointsOf(t) :
         Stores(RollbackToTx(store, r.val.tx_id),
                IF \A u \in Tasks : At(u, "idle") THEN {} ELSE {"erased"})
  BY DEF Replay
<1>3. r \in Readable(store) /\ r.key[1] = "checkpoint"
  BY ScanReadable DEF CheckpointsOf
<1>4. r.val.tx_id \in Collection
  BY <1>1, <1>3 DEF StoreType, RowOK
<1>5. /\ store' = RollbackToTx(store, r.val.tx_id) /\ departures \subseteq departures'
      /\ "unlogged" \notin departures' => Logged(store')
  BY <1>2, StoresFacts
<1>6. Visible(store')
  BY <1>1, <1>4, <1>5, RollbackVisible
<1> QED BY <1>5, <1>6 DEF KeepInv

(* Every step keeps, or is a replay. *)
LEMMA NextKeeps ==
  ASSUME encryption_at_rest, EngineType, [Next]_vars
  PROVE  StepKeeps \/ \E t \in Tasks, step \in Steps : Replay(t, step)
<1>0. StoreType(store)
  BY DEF EngineType, StoreOK
<1>1. ASSUME NEW t \in Tasks, Turn(t) PROVE StepKeeps
  <2>1. CASE \/ RecoverRead(t) \/ LimitReached(t) \/ Decide(t) \/ StepBegin(t)
             \/ CheckpointRead(t) \/ Reserve(t) \/ ToolOk(t) \/ ToolError(t)
             \/ ToolTimeout(t) \/ RetryRefused(t) \/ Advance(t)
    BY <2>1, QuietKeeps DEF RecoverRead, LimitReached, Decide, StepBegin, CheckpointRead,
       Reserve, ToolOk, ToolError, ToolTimeout, RetryRefused, Advance, shared
  <2>2. CASE RecoverOrphan(t)
    BY <2>2, RecoverOrphanKeeps
  <2>3. CASE CheckpointSave(t)
    BY <2>3, CheckpointSaveKeeps
  <2>4. CASE LetterCommit(t) \/ AuditCommit(t) \/ StepCommit(t) \/ FinalCommit(t)
    BY <2>4, CommitsKeeps DEF LetterCommit, AuditCommit, StepCommit, FinalCommit
  <2>5. CASE LetterPut(t)
    BY <1>0, <2>5, PutIsKept, StoresKeeps DEF LetterPut
  <2>6. CASE StepPut(t)
    BY <1>0, <2>6, PutIsKept, StoresKeeps DEF StepPut
  <2>7. CASE FinalPut(t)
    BY <1>0, <2>7, PutIsKept, StoresKeeps DEF FinalPut
  <2>8. CASE AuditPut(t)
    BY <1>0, <2>8, PutIsKept, DrainIsKept, StoresKeeps DEF AuditPut
  <2>9. CASE FinalFlush(t)
    BY <1>0, <2>9, FlushIsKept, StoresKeeps DEF FinalFlush
  <2> QED BY <1>1, <2>1, <2>2, <2>3, <2>4, <2>5, <2>6, <2>7, <2>8, <2>9 DEF Turn
<1>2. CASE UNCHANGED vars
  BY <1>2, QuietKeeps DEF vars, shared
<1>3. ASSUME NEW t \in Tasks, Run(t) PROVE StepKeeps
  BY <1>3, QuietKeeps DEF Run
<1>4. CASE ClientPut
  BY <1>0, <1>4, PutIsKept, StoresKeeps DEF ClientPut
<1>5. CASE ClientCommit
  BY <1>5, CommitsKeeps DEF ClientCommit
<1>6. CASE FlushOrphans
  BY <1>6, QuietKeeps DEF FlushOrphans
<1>7. CASE MemtableFull
  BY <1>0, <1>7, FlushIsKept, StoresKeeps DEF MemtableFull
<1>8. CASE Restart
  BY <1>8, RestartKeeps
<1> QED BY <1>1, <1>2, <1>3, <1>4, <1>5, <1>6, <1>7, <1>8 DEF Next

(* KeepInv is inductive: a replay does not break it either. *)
LEMMA KeepInvStep ==
  ASSUME encryption_at_rest, EngineType, KeepInv, [Next]_vars
  PROVE  departures \subseteq departures' /\ KeepInv'
<1>1. CASE StepKeeps
  BY <1>1 DEF StepKeeps, KeepInv
<1>2. CASE \E t \in Tasks, step \in Steps : Replay(t, step)
  BY <1>2, ReplayVisible
<1> QED BY <1>1, <1>2, NextKeeps

(* It holds initially. *)
LEMMA InitKeep ==
  ASSUME Init
  PROVE  KeepInv
<1>1. Readable(EmptyStore) = {} /\ EmptyStore.memtable = {}
  BY DEF Readable, EmptyStore
<1>2. store = EmptyStore
  BY DEF Init
<1> HIDE DEF EmptyStore
<1> QED BY <1>1, <1>2 DEF KeepInv, Visible, Logged

(* A step keeps the keys that are readable, unless the property excepts it. *)
LEMMA CommittedKeptStep ==
  ASSUME encryption_at_rest, EngineType, KeepInv, [Next]_vars
  PROVE  \/ \E t \in Tasks, step \in Steps : Replay(t, step)
         \/ {"blind", "raced", "unlogged"} \cap departures' # {}
         \/ KeysOf(store) \subseteq KeysOf(store')
<1>1. SUFFICES ASSUME ~ \E t \in Tasks, step \in Steps : Replay(t, step),
                      {"blind", "raced", "unlogged"} \cap departures' = {}
               PROVE  KeysOf(store) \subseteq KeysOf(store')
  OBVIOUS
<1>2. StepKeeps
  BY <1>1, NextKeeps
<1>3. Visible(store) /\ Visible(store') /\ KeysStored(store) \subseteq KeysStored(store')
  BY <1>1, <1>2 DEF StepKeeps, KeepInv
<1>4. StoreType(store) /\ StoreType(store')
  <2>1. EngineType'
    BY NextType
  <2> QED BY <2>1 DEF EngineType, StoreOK
<1>5. KeysOf(store) = KeysStored(store) /\ KeysOf(store') = KeysStored(store')
  BY <1>3, <1>4, KeysOfStored
<1> QED BY <1>3, <1>5

(* What is committed stays readable, for every store with encryption at rest: no failed *)
(* commit of another task, no recovery of an orphaned checkpoint that the barrier let   *)
(* through, no flush and no restart removes an audit entry, the row of a step or of     *)
(* another client. Only replay_from does.                                               *)
THEOREM KeptTheorem ==
  ASSUME encryption_at_rest
  PROVE  Spec => CommittedKept
<1>1. Init => KeepInv
  BY InitKeep
<1>2. EngineType /\ KeepInv /\ [Next]_vars => KeepInv'
  BY KeepInvStep
<1>3. EngineType /\ KeepInv /\ [Next]_vars =>
         [ \/ \E t \in Tasks, step \in Steps : Replay(t, step)
           \/ {"blind", "raced", "unlogged"} \cap departures' # {}
           \/ KeysOf(store) \subseteq KeysOf(store') ]_store
  BY CommittedKeptStep
<1> QED BY <1>1, <1>2, <1>3, EngineTypeInvariant, PTL DEF Spec, CommittedKept

-----------------------------------------------------------------------------

(* Sequence numbers that are to come are above those of all rows. *)
SeqBelow(s) == \A r \in Readable(s) : r.seq < s.seq

(* A row in the log is not yet in an sstable. *)
Apart(s) == \A r \in s.log : r \notin UNION s.sstables

(* put_kv_if_absent: an audit key has one row, of one version. *)
OneEntry(s) == \A a, b \in Readable(s) : a.key[1] = "audit" /\ b.key = a.key => b = a

(* The key of the audit entry of the step with this key. *)
AuditOf(key) == <<"audit", key[2], key[3]>>

(* a is the audit entry of a success of that step, by a transaction before tx. *)
EntryOf(a, key, tx) == a.key = AuditOf(key) /\ ~a.val.error /\ a.tx < tx

(* The row of a step has an audit entry that is older by its transaction and by its *)
(* sequence number, and that reached the sstables no later than the row.            *)
Paired(s) ==
    \A r \in Readable(s) : r.key[1] = "step" =>
        \E a \in Readable(s) :
            /\ EntryOf(a, r.key, r.tx) /\ a.seq < r.seq
            /\ r \in UNION s.sstables => a \in UNION s.sstables

(* An audit entry that is staged is the first of its key. *)
StagedFresh(s) ==
    \A o \in s.tx_buffer : o.key[1] = "audit" =>
        /\ \A r \in Readable(s) : r.key # o.key
        /\ \A q \in s.tx_buffer : q.key = o.key => q = o

(* What makes a store keep its audit entries, without visibility. *)
AuditRows(s) ==
    Logged(s) /\ SeqBelow(s) /\ Apart(s) /\ OneEntry(s) /\ Paired(s) /\ StagedFresh(s)

(* The same, and all of it is visible. *)
AuditStore(s) == Visible(s) /\ AuditRows(s)

(* t has put and not yet committed. *)
Holds(t) == call[t].pc \in {"letter_put", "audit_put", "failure_put", "commit_put", "final_put"}

(* The transactions at work are pairwise different, and what they put is in the buffer. *)
HoldersApart ==
    /\ \A t \in Tasks : Holds(t) => StagedBy(store, call[t].tx) # {}
    /\ client_tx # 0 => StagedBy(store, client_tx) # {}
    /\ \A t, u \in Tasks : Holds(t) /\ Holds(u) /\ call[t].tx = call[u].tx => t = u
    /\ \A t \in Tasks : Holds(t) /\ client_tx # 0 => call[t].tx # client_tx

(* The row of a step that is staged belongs to the call that is about to commit it. *)
StepsOwned ==
    \A o \in store.tx_buffer : o.key[1] = "step" =>
        \E t \in Tasks : At(t, "commit_put") /\ call[t].tx = o.tx /\ o.key = StepKey(t, ctx[t].step)

(* The step t is at has an audit entry, by a transaction before tx. *)
Audited(t, tx) == \E a \in Readable(store) : EntryOf(a, StepKey(t, ctx[t].step), tx)

(* A call that is about to commit its step has committed the audit entry; one that is *)
(* about to commit the entry has it in the buffer.                                    *)
Auditing(t) ==
    /\ At(t, "audit_put") => 
          /\ call[t].tx < next_tx
          /\ \E o \in StagedBy(store, call[t].tx) :
                o.key = AuditKey(t, ctx[t].step) /\ ~o.val.error
    /\ At(t, "commit") => Audited(t, next_tx)
    /\ At(t, "commit_put") => Audited(t, call[t].tx)

(* None of what CommittedAudited excepts has happened. *)
Clean == {"erased", "mixed", "raced", "unlogged", "blind"} \cap departures = {}

(* What the calls at work owe to the store. *)
TasksAudited == HoldersApart /\ StepsOwned /\ \A t \in Tasks : Auditing(t)

(* The store and the calls at work. *)
AuditAll == AuditStore(store) /\ TasksAudited

(* The inductive invariant behind CommittedAudited. *)
AuditInv == Clean => AuditAll

(* The audit entries of s are in p too. *)
EntriesIn(s, p) == \A a \in Readable(s) : a.key[1] = "audit" => a \in Readable(p)

(* The audit key of a step. *)
LEMMA AuditOfStep ==
  ASSUME NEW t, NEW n
  PROVE  AuditOf(StepKey(t, n)) = AuditKey(t, n) /\ AuditOf(StepKey(t, n))[1] = "audit"
BY DEF AuditOf, StepKey, AuditKey

(* The rows of steps and of the audit log are those of clients. *)
LEMMA AuditNotInternal ==
  ASSUME NEW s, StoreType(s), NEW r \in Readable(s), r.key[1] \in {"audit", "step"}
  PROVE  ~Internal(r) /\ r.tx \in Nat /\ r.seq \in Nat
<1>1. r.key[1] \notin InternalKinds
  BY DEF InternalKinds
<1>2. ~Internal(r) /\ r.tx \in Collection /\ r.seq \in Nat
  BY <1>1, StoreRows
<1> QED BY <1>2, Base

\* An audit entry is put only where none is readable or staged.
LEMMA PutAudit ==
  ASSUME NEW s, StoreType(s), AuditStore(s), NEW tx, NEW key, NEW val,
         key[1] = "audit" => Absent(s, key), NEW p, p = Put(s, tx, key, val)
  PROVE  AuditStore(p)
<1> DEFINE e == [tx |-> tx, key |-> key, val |-> val]
<1>1. /\ p.log = s.log /\ p.memtable = s.memtable /\ p.sstables = s.sstables
      /\ p.tx_buffer = s.tx_buffer \cup {e} /\ p.seq = s.seq
      /\ p.last_committed_tx = s.last_committed_tx
  BY PutStore DEF StoreType
<1>2. Readable(p) = Readable(s)
  BY <1>1 DEF Readable
<1>3. Visible(p) /\ Logged(p) /\ SeqBelow(p) /\ Apart(p) /\ OneEntry(p) /\ Paired(p)
  BY <1>1, <1>2 DEF AuditStore, AuditRows, Visible, Logged, SeqBelow, Apart, OneEntry, Paired
<1>4. e.key = key
  OBVIOUS
<1>5. ASSUME key[1] = "audit"
      PROVE  (\A r \in Readable(s) : r.key # key) /\ (\A o \in s.tx_buffer : o.key # key)
  <2>1. Absent(s, key)
    BY <1>5
  <2>2. ASSUME NEW r \in Readable(s), r.key = key PROVE FALSE
    <3>1. ~Internal(r)
      BY <1>5, <2>2, AuditNotInternal
    <3>2. r.tx <= s.last_committed_tx
      BY <3>1 DEF AuditStore, Visible
    <3> QED BY <2>1, <2>2, <3>2 DEF Absent, Found, Readable
  <2> QED BY <2>1, <2>2 DEF Absent
<1> HIDE DEF e
<1>6. StagedFresh(p)
  <2> SUFFICES ASSUME NEW o \in p.tx_buffer, o.key[1] = "audit"
               PROVE  /\ \A r \in Readable(s) : r.key # o.key
                      /\ \A q \in p.tx_buffer : q.key = o.key => q = o
    BY <1>2 DEF StagedFresh
  <2>1. CASE o = e
    BY <1>1, <1>4, <1>5, <2>1
  <2>2. CASE o \in s.tx_buffer
    BY <1>1, <1>4, <1>5, <2>2 DEF AuditStore, AuditRows, StagedFresh
  <2> QED BY <1>1, <2>1, <2>2
<1> QED BY <1>3, <1>6 DEF AuditStore, AuditRows

(* The rollback of one transaction keeps the audit entries of the store. *)
LEMMA DrainAudit ==
  ASSUME NEW s, StoreType(s), AuditStore(s), NEW tx, NEW p, p = Rollback(s, tx)
  PROVE  AuditStore(p)
<1>1. /\ p.log = s.log /\ p.memtable = s.memtable /\ p.sstables = s.sstables
      /\ p.tx_buffer \subseteq s.tx_buffer /\ p.seq = s.seq
      /\ p.last_committed_tx = s.last_committed_tx
  BY DrainStore DEF StoreType
<1>2. Readable(p) = Readable(s)
  BY <1>1 DEF Readable
<1>3. Visible(p) /\ Logged(p) /\ SeqBelow(p) /\ Apart(p) /\ OneEntry(p) /\ Paired(p)
  BY <1>1, <1>2 DEF AuditStore, AuditRows, Visible, Logged, SeqBelow, Apart, OneEntry, Paired
<1>4. StagedFresh(p)
  BY <1>1, <1>2 DEF AuditStore, AuditRows, StagedFresh
<1> QED BY <1>3, <1>4 DEF AuditStore, AuditRows

\* The rows of a commit are the staged ones.
LEMMA NewRowsOf ==
  ASSUME NEW s, NEW tx
  PROVE  /\ \A r \in NewRows(s, tx) : r.seq = s.seq /\ r.tx = tx /\
                \E o \in StagedBy(s, tx) : r.key = o.key /\ r.val = o.val
         /\ \A o \in StagedBy(s, tx) : \E r \in NewRows(s, tx) : r.key = o.key /\ r.val = o.val
         /\ \A r, q \in NewRows(s, tx) : r.key = q.key /\ r.val = q.val => r = q
<1> DEFINE row(o) == [seq |-> s.seq, tx |-> tx, key |-> o.key, val |-> o.val]
<1>1. NewRows(s, tx) = {row(o) : o \in StagedBy(s, tx)}
  BY DEF NewRows
<1>2. \A o : row(o).seq = s.seq /\ row(o).tx = tx /\ row(o).key = o.key /\ row(o).val = o.val
  OBVIOUS
<1>3. \A o, n : o.key = n.key /\ o.val = n.val => row(o) = row(n)
  OBVIOUS
<1> HIDE DEF row
<1>4. ASSUME NEW r \in NewRows(s, tx), NEW q \in NewRows(s, tx), r.key = q.key, r.val = q.val
      PROVE  r = q
  <2>1. PICK o \in StagedBy(s, tx) : r = row(o)
    BY <1>1
  <2>2. PICK n \in StagedBy(s, tx) : q = row(n)
    BY <1>1
  <2>3. o.key = n.key /\ o.val = n.val
    BY <1>2, <1>4, <2>1, <2>2
  <2> QED BY <1>3, <2>1, <2>2, <2>3
<1> QED BY <1>1, <1>2, <1>4

(* A commit keeps them, if each step it commits has its entry. *)
LEMMA CommitAudit ==
  ASSUME NEW s, StoreType(s), AuditStore(s), NEW tx,
         \A o \in StagedBy(s, tx) : o.key[1] = "step" =>
             \E a \in Readable(s) : EntryOf(a, o.key, tx),
         NEW p, p = Commit(s, tx)
  PROVE  AuditStore(p)
<1> DEFINE new == NewRows(s, tx)
<1>1. /\ p.log = s.log \cup new /\ p.memtable = s.memtable \cup new
      /\ p.sstables = s.sstables /\ p.tx_buffer = s.tx_buffer \ StagedBy(s, tx)
      /\ new = {} => p = s
      /\ new # {} => p.seq = s.seq + 1
  BY CommitStore DEF StoreType
<1>2. /\ \A r \in new : r.seq = s.seq /\ r.tx = tx /\
             \E o \in StagedBy(s, tx) : r.key = o.key /\ r.val = o.val
      /\ \A r, q \in new : r.key = q.key /\ r.val = q.val => r = q
  BY NewRowsOf
<1>3. Visible(p) /\ Logged(p) /\ Readable(p) = Readable(s) \cup new
  BY CommitKeeps DEF AuditStore, AuditRows
<1>4. s.seq \in Nat /\ \A r \in Readable(s) : r.seq \in Nat /\ r.seq < s.seq
  BY StoreRows DEF StoreType, AuditStore, AuditRows, SeqBelow
<1> HIDE DEF new
<1>5. CASE new = {}
  BY <1>1, <1>5
<1>6. CASE new # {}
  <2>1. SeqBelow(p)
    BY <1>1, <1>2, <1>3, <1>4, <1>6 DEF SeqBelow
  <2>2. \A r \in new : r \notin Readable(s)
    BY <1>2, <1>4
  <2>3. Apart(p)
    BY <1>1, <2>2 DEF Apart, AuditStore, AuditRows, Readable
  <2>4. OneEntry(p)
    <3> SUFFICES ASSUME NEW a \in Readable(p), NEW b \in Readable(p), a.key[1] = "audit",
                        b.key = a.key
                 PROVE  b = a
      BY DEF OneEntry
    <3>1. CASE a \in Readable(s) /\ b \in Readable(s)
      BY <3>1 DEF AuditStore, AuditRows, OneEntry
    <3>2. ASSUME NEW r \in new, NEW q \in Readable(s), r.key = q.key, r.key[1] = "audit"
          PROVE  FALSE
      <4>1. PICK o \in StagedBy(s, tx) : r.key = o.key
        BY <1>2
      <4> QED BY <3>2, <4>1 DEF AuditStore, AuditRows, StagedFresh, StagedBy
    <3>3. CASE a \in new /\ b \in new
      <4>1. PICK o \in StagedBy(s, tx) : a.key = o.key /\ a.val = o.val
        BY <1>2, <3>3
      <4>2. PICK q \in StagedBy(s, tx) : b.key = q.key /\ b.val = q.val
        BY <1>2, <3>3
      <4>3. q = o
        BY <4>1, <4>2 DEF AuditStore, AuditRows, StagedFresh, StagedBy
      <4> QED BY <1>2, <3>3, <4>1, <4>2, <4>3
    <3> QED BY <1>3, <3>1, <3>2, <3>3
  <2>5. Paired(p)
    <3> SUFFICES ASSUME NEW r \in Readable(p), r.key[1] = "step"
                 PROVE  \E a \in Readable(p) :
                           /\ EntryOf(a, r.key, r.tx) /\ a.seq < r.seq
                           /\ r \in UNION p.sstables => a \in UNION p.sstables
      BY DEF Paired
    <3>1. CASE r \in Readable(s)
      BY <1>1, <1>3, <3>1 DEF AuditStore, AuditRows, Paired
    <3>2. CASE r \in new
      <4>1. PICK o \in StagedBy(s, tx) : r.key = o.key
        BY <1>2, <3>2
      <4>2. PICK a \in Readable(s) : EntryOf(a, r.key, tx)
        BY <4>1
      <4>3. r \notin UNION p.sstables
        BY <1>1, <2>2, <3>2 DEF Readable
      <4>4. a.seq < r.seq /\ r.tx = tx
        BY <1>2, <1>4, <3>2
      <4> QED BY <1>3, <4>2, <4>3, <4>4
    <3> QED BY <1>3, <3>1, <3>2
  <2>6. StagedFresh(p)
    <3> SUFFICES ASSUME NEW o \in p.tx_buffer, o.key[1] = "audit"
                 PROVE  /\ \A r \in Readable(p) : r.key # o.key
                        /\ \A q \in p.tx_buffer : q.key = o.key => q = o
      BY DEF StagedFresh
    <3>1. o \in s.tx_buffer /\ o \notin StagedBy(s, tx) /\ p.tx_buffer \subseteq s.tx_buffer
      BY <1>1
    <3>2. /\ \A r \in Readable(s) : r.key # o.key
          /\ \A q \in s.tx_buffer : q.key = o.key => q = o
      BY <3>1 DEF AuditStore, AuditRows, StagedFresh
    <3>3. \A r \in new : r.key # o.key
      BY <1>2, <3>1, <3>2 DEF StagedBy
    <3> QED BY <1>3, <3>1, <3>2, <3>3
  <2> QED BY <1>3, <2>1, <2>3, <2>4, <2>5, <2>6 DEF AuditStore, AuditRows
<1> QED BY <1>5, <1>6

\* A rollback that keeps the row of a step keeps its audit entry: the entry is
\* older by its transaction and by its place in the log.
LEMMA RollbackAudit ==
  ASSUME encryption_at_rest,
         NEW s, StoreType(s), AuditRows(s), NEW target \in Collection,
         NEW p, p = RollbackToTx(s, target), Logged(p)
  PROVE  AuditStore(p)
<1>1. /\ p.log = TruncatedLog(s, target) /\ p.log \subseteq s.log
      /\ p.log \subseteq p.memtable
      /\ \A r \in UNION p.sstables : r \in UNION s.sstables /\ r.tx <= target
      /\ \A r \in UNION s.sstables : r.tx <= target => r \in Readable(p)
      /\ p.tx_buffer = s.tx_buffer
      /\ p.last_committed_tx = target /\ p.seq = NextSeq(p.log, p.sstables)
  <2>1. IsStore(s)
    BY DEF StoreType
  <2> QED BY <2>1, RollbackStore
<1>2. StoreType(p) /\ Readable(p) \subseteq Readable(s)
  BY RollbackType
<1>3. Visible(p)
  BY RollbackVisible
<1>4. Readable(p) = p.log \cup UNION p.sstables
  BY <1>1 DEF Logged, Readable
<1>5. SeqBelow(p)
  <2>1. PICK n \in Nat : \A r \in Readable(p) : r.seq \in Nat /\ r.seq <= n
    BY <1>2 DEF StoreType
  <2> QED BY <1>1, <1>4, <2>1, NextSeqAbove DEF SeqBelow
<1>6. Apart(p)
  BY <1>1 DEF Apart, AuditRows
<1>7. OneEntry(p)
  BY <1>2 DEF OneEntry, AuditRows
<1>8. StagedFresh(p)
  BY <1>1, <1>2 DEF StagedFresh, AuditRows
<1>9. \A r \in UNION s.sstables : r.tx <= target => r \in UNION p.sstables
  BY <1>1, <1>4 DEF Apart, AuditRows
<1>10. Paired(p)
  <2> SUFFICES ASSUME NEW r \in Readable(p), r.key[1] = "step"
               PROVE  \E a \in Readable(p) :
                         /\ EntryOf(a, r.key, r.tx) /\ a.seq < r.seq
                         /\ r \in UNION p.sstables => a \in UNION p.sstables
    BY DEF Paired
  <2>1. PICK a \in Readable(s) :
           /\ EntryOf(a, r.key, r.tx) /\ a.seq < r.seq
           /\ r \in UNION s.sstables => a \in UNION s.sstables
    BY <1>2 DEF AuditRows, Paired
  <2>2. a.key[1] = "audit" /\ a.tx < r.tx
    BY <2>1 DEF EntryOf, AuditOf
  <2>3. /\ a.tx \in Nat /\ a.seq \in Nat /\ r.tx \in Nat /\ r.seq \in Nat /\ target \in Nat
        /\ ~Internal(r)
    BY <1>2, <2>2, AuditNotInternal, Base
  <2>4. r.tx <= target
    BY <1>1, <1>3, <2>3 DEF Visible
  <2>5. a.tx <= target
    BY <2>2, <2>3, <2>4
  <2>6. CASE a \in UNION s.sstables
    <3>1. a \in UNION p.sstables
      BY <1>9, <2>5, <2>6
    <3> QED BY <1>4, <2>1, <3>1
  <2>7. CASE a \in s.log /\ a \notin UNION s.sstables
    <3>1. r \notin UNION p.sstables /\ r \in p.log
      BY <1>1, <1>4, <2>1, <2>7
    <3>2. \A x \in s.log : ~Internal(x) /\ x.tx > target => r.seq < x.seq
      BY <1>1, <3>1 DEF TruncatedLog
    <3>3. \A x \in s.log : x.seq \in Nat
      BY StoreRows DEF StoreType, Readable
    <3>4. \A x \in s.log : ~Internal(x) /\ x.tx > target => a.seq < x.seq
      BY <2>1, <2>3, <3>2, <3>3
    <3>5. a \in p.log
      BY <1>1, <2>7, <3>4 DEF TruncatedLog
    <3> QED BY <1>4, <2>1, <3>1, <3>5
  <2>8. a \in s.log \/ a \in UNION s.sstables
    BY DEF AuditRows, Logged, Readable
  <2> QED BY <2>6, <2>7, <2>8
<1> QED BY <1>3, <1>5, <1>6, <1>7, <1>8, <1>10 DEF AuditStore, AuditRows

(* A flush keeps them: an entry has one version, so the newest row of its key is the *)
(* entry, and it moves to the sstables with the row of its step.                     *)
LEMMA FlushAudit ==
  ASSUME NEW s, StoreType(s), AuditRows(s), NEW p, p = Flush(s)
  PROVE  AuditRows(p) /\ EntriesIn(s, p)
<1>1. /\ p.log = {} /\ p.memtable = {}
      /\ UNION p.sstables = (UNION s.sstables) \cup Newest(s.memtable)
      /\ p.tx_buffer = s.tx_buffer /\ p.seq = s.seq
  BY FlushStore
<1>2. Readable(p) = UNION p.sstables /\ Readable(p) \subseteq Readable(s)
  BY <1>1 DEF Readable, Newest
<1>3. Logged(p) /\ Apart(p)
  BY <1>1 DEF Logged, Apart
<1>4. SeqBelow(p) /\ OneEntry(p) /\ StagedFresh(p)
  BY <1>1, <1>2 DEF AuditRows, SeqBelow, OneEntry, StagedFresh
<1>5. \A a \in Readable(s) : a.key[1] = "audit" => a \in UNION p.sstables
  <2> SUFFICES ASSUME NEW a \in s.memtable, a.key[1] = "audit"
               PROVE  a \in Newest(s.memtable)
    BY <1>1 DEF Readable
  <2>1. \A q \in s.memtable : q.key = a.key => q = a
    BY DEF AuditRows, OneEntry, Readable
  <2>2. a.seq \in Nat
    BY StoreRows DEF Readable
  <2>3. a.seq <= a.seq
    BY <2>2
  <2> QED BY <2>1, <2>3 DEF Newest
<1>6. EntriesIn(s, p)
  BY <1>2, <1>5 DEF EntriesIn
<1>7. Paired(p)
  <2> SUFFICES ASSUME NEW r \in Readable(p), r.key[1] = "step"
               PROVE  \E a \in Readable(p) :
                         /\ EntryOf(a, r.key, r.tx) /\ a.seq < r.seq
                         /\ a \in UNION p.sstables
    BY DEF Paired
  <2>1. PICK a \in Readable(s) : EntryOf(a, r.key, r.tx) /\ a.seq < r.seq
    BY <1>2 DEF AuditRows, Paired
  <2>2. a.key[1] = "audit"
    BY <2>1 DEF EntryOf, AuditOf
  <2> QED BY <1>2, <1>5, <2>1, <2>2
<1> QED BY <1>3, <1>4, <1>6, <1>7 DEF AuditRows

(* Opening the store keeps them. *)
LEMMA ReopenAudit ==
  ASSUME NEW s, StoreType(s), AuditRows(s), NEW p, p = Reopen(s)
  PROVE  AuditRows(p)
<1> DEFINE q == Replayed(s)
<1>1. /\ StoreType(q) /\ q.tx_buffer = {} /\ q.memtable = s.log /\ q.log = s.log
      /\ q.sstables = s.sstables /\ \A r \in Readable(q) : r.seq < q.seq
  BY ReplayedStore
<1>2. p = Flush(q)
  BY ReopenIs
<1> HIDE DEF q
<1>3. Readable(q) = Readable(s)
  BY <1>1 DEF Readable, Logged, StoreType, AuditRows
<1>4. AuditRows(q)
  BY <1>1, <1>3 DEF AuditRows, Logged, SeqBelow, Apart, OneEntry, Paired, StagedFresh
<1> QED BY <1>1, <1>2, <1>4, FlushAudit

\* A failed commit drains its transaction and loses nothing else.
LEMMA FailsAudit ==
  ASSUME encryption_at_rest,
         NEW s, StoreType(s), AuditStore(s), NEW tx,
         NEW p, p = CommitFails(s, tx), Logged(p)
  PROVE  AuditStore(p) /\ EntriesIn(s, p) /\ p.tx_buffer = s.tx_buffer \ StagedBy(s, tx)
<1> DEFINE d == Rollback(s, tx)
<1>1. StoreType(d) /\ AuditStore(d) /\ d.tx_buffer = s.tx_buffer \ StagedBy(s, tx)
  BY DrainType, DrainAudit, DrainStore DEF StoreType
<1>2. p = RollbackToTx(d, s.last_committed_tx) /\ s.last_committed_tx \in Collection
  BY DEF CommitFails, StoreType
<1> HIDE DEF d
<1>3. AuditStore(p)
  BY <1>1, <1>2, RollbackAudit DEF AuditStore
<1>4. p.tx_buffer = d.tx_buffer
  BY <1>1, <1>2, RollbackStore DEF StoreType
<1>5. \A r \in Readable(s) : ~Internal(r) => r \in Readable(p)
  BY FailsKeeps DEF AuditStore, AuditRows
<1>6. EntriesIn(s, p)
  BY <1>5, AuditNotInternal DEF EntriesIn
<1> QED BY <1>1, <1>3, <1>4, <1>6

(* EntriesIn is transitive. *)
LEMMA EntriesChain ==
  ASSUME NEW s, NEW p, NEW q, EntriesIn(s, p), EntriesIn(p, q)
  PROVE  EntriesIn(s, q)
BY DEF EntriesIn

\* A put and the commit of an internal transaction.
LEMMA InternalAudit ==
  ASSUME encryption_at_rest, NEW s, StoreOK(s), AuditStore(s), NEW key, NEW val,
         key[1] \in InternalKinds,
         RowOK([tx |-> INTERNAL_BASE, key |-> key, val |-> val]),
         NEW p, p = Put(s, INTERNAL_BASE, key, val)
  PROVE  /\ AuditStore(Commit(p, INTERNAL_BASE)) /\ EntriesIn(s, Commit(p, INTERNAL_BASE))
         /\ Commit(p, INTERNAL_BASE).tx_buffer = s.tx_buffer
         /\ Logged(CommitFails(p, INTERNAL_BASE)) =>
               /\ AuditStore(CommitFails(p, INTERNAL_BASE))
               /\ EntriesIn(s, CommitFails(p, INTERNAL_BASE))
               /\ CommitFails(p, INTERNAL_BASE).tx_buffer = s.tx_buffer
<1> DEFINE e == [tx |-> INTERNAL_BASE, key |-> key, val |-> val]
<1>1. StoreType(s) /\ StoreType(p)
  BY PutType DEF StoreOK
<1>2. p.tx_buffer = s.tx_buffer \cup {e} /\ Readable(p) = Readable(s)
  BY <1>1, PutStore, PutKeeps DEF StoreType
<1>3. key[1] # "audit" /\ key[1] # "step"
  BY DEF InternalKinds
<1>4. AuditStore(p)
  BY <1>1, <1>3, PutAudit
<1>5. StagedBy(p, INTERNAL_BASE) = {e} /\ e \notin s.tx_buffer
  <2>1. \A o \in s.tx_buffer : o.tx # INTERNAL_BASE
    BY Base DEF StoreOK
  <2> QED BY <1>2, <2>1 DEF StagedBy
<1>6. p.tx_buffer \ StagedBy(p, INTERNAL_BASE) = s.tx_buffer
  <2> HIDE DEF e
  <2> QED BY <1>2, <1>5
<1>7. e.key = key
  OBVIOUS
<1> HIDE DEF e
<1>8. \A o \in StagedBy(p, INTERNAL_BASE) : o.key[1] # "step"
  BY <1>3, <1>5, <1>7
<1>9. AuditStore(Commit(p, INTERNAL_BASE))
  BY <1>1, <1>4, <1>8, CommitAudit
<1>10. EntriesIn(s, Commit(p, INTERNAL_BASE))
  <2>1. Readable(p) \subseteq Readable(Commit(p, INTERNAL_BASE))
    BY <1>1, CommitKeeps
  <2> QED BY <1>2, <2>1 DEF EntriesIn
<1>11. Commit(p, INTERNAL_BASE).tx_buffer = s.tx_buffer
  <2>1. IsStore(p)
    BY <1>1 DEF StoreType
  <2>2. Commit(p, INTERNAL_BASE).tx_buffer = p.tx_buffer \ StagedBy(p, INTERNAL_BASE)
    BY <2>1, CommitStore
  <2> QED BY <1>6, <2>2
<1>12. ASSUME Logged(CommitFails(p, INTERNAL_BASE))
       PROVE  /\ AuditStore(CommitFails(p, INTERNAL_BASE))
              /\ EntriesIn(p, CommitFails(p, INTERNAL_BASE))
              /\ CommitFails(p, INTERNAL_BASE).tx_buffer = p.tx_buffer \ StagedBy(p, INTERNAL_BASE)
  BY <1>1, <1>4, <1>12, FailsAudit
<1>13. EntriesIn(s, p)
  BY <1>2 DEF EntriesIn
<1> QED BY <1>6, <1>9, <1>10, <1>11, <1>12, <1>13, EntriesChain

(* The reservation of ids by the checkpoint store keeps the audit entries. *)
LEMMA ReservedAudit ==
  ASSUME encryption_at_rest, NEW s, StoreOK(s), AuditStore(s), NEW p, p = Reserved(s)
  PROVE  AuditStore(p) /\ EntriesIn(s, p) /\ p.tx_buffer = s.tx_buffer
<1>1. CASE hwm_reserved
  <2>1. p = s
    BY <1>1 DEF Reserved
  <2> QED BY <2>1 DEF EntriesIn
<1>2. CASE ~hwm_reserved
  <2> DEFINE c == Commit(Put(s, INTERNAL_BASE, HwmKey, <<>>), INTERNAL_BASE)
  <2>1. p = Flush(c)
    BY <1>2 DEF Reserved
  <2>2. RowOK([tx |-> INTERNAL_BASE, key |-> HwmKey, val |-> <<>>]) /\ HwmKey[1] \in InternalKinds
    <3> DEFINE e == [tx |-> INTERNAL_BASE, key |-> HwmKey, val |-> <<>>]
    <3>1. e.tx = INTERNAL_BASE /\ e.key[1] = "hwm" /\ HwmKey[1] = "hwm"
      BY DEF HwmKey
    <3> HIDE DEF e
    <3>2. RowOK(e)
      BY <3>1 DEF RowOK, InternalKinds
    <3> QED BY <3>1, <3>2 DEF e, InternalKinds
  <2>3. StoreOK(c)
    BY <2>2, InternalPut
  <2>4. AuditStore(c) /\ EntriesIn(s, c) /\ c.tx_buffer = s.tx_buffer
    BY <2>2, InternalAudit
  <2> HIDE DEF c
  <2>5. AuditRows(p) /\ EntriesIn(c, p)
    BY <2>1, <2>3, <2>4, FlushAudit DEF StoreOK, AuditStore
  <2>6. Visible(p) /\ p.tx_buffer = c.tx_buffer
    BY <2>1, <2>3, <2>4, FlushKeeps, FlushStore DEF StoreOK, AuditStore
  <2> QED BY <2>4, <2>5, <2>6, EntriesChain DEF AuditStore
<1> QED BY <1>1, <1>2

-----------------------------------------------------------------------------

(* The counters of the engine are numbers. *)
LEMMA EngineFacts ==
  ASSUME EngineType
  PROVE  /\ next_tx \in Nat /\ next_tx <= next_tx /\ StoreType(store) /\ StoreOK(store)
         /\ \A u \in Tasks : call[u].tx \in Nat /\ call[u].tx \in Collection
<1>1. next_tx \in Nat /\ StoreType(store) /\ StoreOK(store)
  BY Base DEF EngineType, CountersOK, StoreOK
<1>2. ASSUME NEW u \in Tasks PROVE call[u].tx \in Collection
  <2>1. call[u] \in CallType
    BY TaskFacts DEF EngineType
  <2> QED BY <2>1 DEF CallType
<1> QED BY <1>1, <1>2, Base

\* A task that does not move keeps what it is auditing.
LEMMA OtherAudited ==
  ASSUME NEW u \in Tasks, Auditing(u), call'[u] = call[u], ctx'[u] = ctx[u],
         next_tx \in Nat, next_tx' \in Nat, next_tx <= next_tx',
         StoreType(store), call[u].tx \in Nat,
         EntriesIn(store, store'),
         At(u, "audit_put") => StagedBy(store, call[u].tx) \subseteq store'.tx_buffer
  PROVE  Auditing(u)'
<1>1. ASSUME NEW tx \in Nat, NEW x \in Nat, tx <= x, Audited(u, tx)
      PROVE  \E a \in Readable(store') : EntryOf(a, StepKey(u, ctx'[u].step), x)
  <2>1. PICK a \in Readable(store) : EntryOf(a, StepKey(u, ctx[u].step), tx)
    BY <1>1 DEF Audited
  <2>2. a.key[1] = "audit" /\ a.tx < tx
    BY <2>1 DEF EntryOf, AuditOf
  <2>3. a \in Readable(store') /\ a.tx \in Nat
    BY <2>2, AuditNotInternal DEF EntriesIn
  <2>4. a.tx < x
    BY <1>1, <2>2, <2>3
  <2> QED BY <2>1, <2>3, <2>4 DEF EntryOf
<1>2. ASSUME At(u, "audit_put")
      PROVE  /\ call[u].tx < next_tx'
             /\ \E o \in StagedBy(store', call[u].tx) :
                   o.key = AuditKey(u, ctx[u].step) /\ ~o.val.error
  <2>1. call[u].tx < next_tx'
    BY <1>2 DEF Auditing
  <2>2. PICK o \in StagedBy(store, call[u].tx) :
           o.key = AuditKey(u, ctx[u].step) /\ ~o.val.error
    BY <1>2 DEF Auditing
  <2>3. o \in StagedBy(store', call[u].tx)
    BY <1>2, <2>2 DEF StagedBy
  <2> QED BY <2>1, <2>2, <2>3
<1>3. At(u, "commit") => Audited(u, next_tx)'
  BY <1>1 DEF Auditing, Audited
<1>4. At(u, "commit_put") => Audited(u, call[u].tx)'
  <2>1. call[u].tx <= call[u].tx
    OBVIOUS
  <2> QED BY <1>1, <2>1 DEF Auditing, Audited
<1> QED BY <1>2, <1>3, <1>4 DEF Auditing, At, Audited

\* A task stops to hold a transaction, or never did; its transaction, or
\* nothing, leaves the buffer.
LEMMA TaskDrains ==
  ASSUME EngineType, next_tx' \in Nat, next_tx <= next_tx',
         TasksAudited, NEW t \in Tasks, client_tx' = client_tx,
         \A u \in Tasks : u # t => call'[u] = call[u] /\ ctx'[u] = ctx[u],
         NEW x, store'.tx_buffer = store.tx_buffer \ StagedBy(store, x),
         \/ Holds(t) /\ x = call[t].tx
         \/ ~At(t, "commit_put") /\ StagedBy(store, x) = {},
         EntriesIn(store, store'), ~Holds(t)', Auditing(t)'
  PROVE  TasksAudited'
<1>1. next_tx \in Nat /\ StoreType(store) /\ \A u \in Tasks : call[u].tx \in Nat
  BY EngineFacts
<1>2. \A u \in Tasks : u # t /\ Holds(u) => StagedBy(store', call[u].tx) = StagedBy(store, call[u].tx)
  BY DEF TasksAudited, HoldersApart, StagedBy
<1>3. client_tx # 0 => StagedBy(store', client_tx) = StagedBy(store, client_tx)
  BY DEF TasksAudited, HoldersApart, StagedBy
<1>4. \A u \in Tasks : u # t => (Holds(u)' <=> Holds(u))
  BY DEF Holds
<1>5. HoldersApart'
  <2>1. \A u \in Tasks : Holds(u)' => u # t
    OBVIOUS
  <2>2. \A u \in Tasks : Holds(u)' => StagedBy(store', call'[u].tx) # {}
    BY <1>2, <1>4, <2>1 DEF TasksAudited, HoldersApart
  <2>3. client_tx' # 0 => StagedBy(store', client_tx') # {}
    BY <1>3 DEF TasksAudited, HoldersApart
  <2>4. \A v, u \in Tasks : Holds(v)' /\ Holds(u)' /\ call'[v].tx = call'[u].tx => v = u
    BY <1>4, <2>1 DEF TasksAudited, HoldersApart
  <2>5. \A u \in Tasks : Holds(u)' /\ client_tx' # 0 => call'[u].tx # client_tx'
    BY <1>4, <2>1 DEF TasksAudited, HoldersApart
  <2> QED BY <2>2, <2>3, <2>4, <2>5 DEF HoldersApart
<1>6. StepsOwned'
  <2> SUFFICES ASSUME NEW o \in store'.tx_buffer, o.key[1] = "step"
               PROVE  \E u \in Tasks : /\ At(u, "commit_put")' /\ call'[u].tx = o.tx
                                       /\ o.key = StepKey(u, ctx'[u].step)
    BY DEF StepsOwned, At
  <2>1. PICK u \in Tasks : /\ At(u, "commit_put") /\ call[u].tx = o.tx
                           /\ o.key = StepKey(u, ctx[u].step)
    BY DEF TasksAudited, StepsOwned
  <2>2. u # t
    BY <2>1 DEF StagedBy
  <2> QED BY <2>1, <2>2 DEF At
<1>7. ASSUME NEW u \in Tasks PROVE Auditing(u)'
  <2>1. CASE u = t
    BY <2>1
  <2>2. CASE u # t
    <3>1. At(u, "audit_put") => Holds(u)
      BY DEF At, Holds
    <3>2. At(u, "audit_put") => StagedBy(store, call[u].tx) \subseteq store'.tx_buffer
      BY <1>2, <2>2, <3>1 DEF StagedBy
    <3> QED BY <1>1, <2>2, <3>2, OtherAudited DEF TasksAudited
  <2> QED BY <2>1, <2>2
<1> QED BY <1>5, <1>6, <1>7 DEF TasksAudited

\* A task puts a row under an id that nothing else is staged under.
LEMMA TaskPuts ==
  ASSUME EngineType, next_tx' \in Nat, next_tx <= next_tx',
         TasksAudited, NEW t \in Tasks, client_tx' = client_tx, ~Holds(t),
         \A u \in Tasks : u # t => call'[u] = call[u] /\ ctx'[u] = ctx[u],
         NEW e, store'.tx_buffer = store.tx_buffer \cup {e}, StagedBy(store, e.tx) = {},
         call'[t].tx = e.tx,
         e.key[1] = "step" => At(t, "commit_put")' /\ e.key = StepKey(t, ctx'[t].step),
         EntriesIn(store, store'), Auditing(t)'
  PROVE  TasksAudited'
<1>1. next_tx \in Nat /\ StoreType(store) /\ \A u \in Tasks : call[u].tx \in Nat
  BY EngineFacts
<1>2. \A y : StagedBy(store, y) \subseteq StagedBy(store', y)
  BY DEF StagedBy
<1>3. StagedBy(store', e.tx) # {}
  BY DEF StagedBy
<1>4. \A u \in Tasks : u # t => (Holds(u)' <=> Holds(u))
  BY DEF Holds
<1>5. \A u \in Tasks : u # t /\ Holds(u) => call[u].tx # e.tx
  BY DEF TasksAudited, HoldersApart
<1>6. client_tx # 0 => client_tx # e.tx
  BY DEF TasksAudited, HoldersApart
<1>7. HoldersApart'
  <2>1. \A u \in Tasks : Holds(u)' => StagedBy(store', call'[u].tx) # {}
    BY <1>2, <1>3, <1>4 DEF TasksAudited, HoldersApart
  <2>2. client_tx' # 0 => StagedBy(store', client_tx') # {}
    BY <1>2 DEF TasksAudited, HoldersApart
  <2>3. \A v, u \in Tasks : Holds(v)' /\ Holds(u)' /\ call'[v].tx = call'[u].tx => v = u
    <3> SUFFICES ASSUME NEW v \in Tasks, NEW u \in Tasks, Holds(v)', Holds(u)',
                        call'[v].tx = call'[u].tx, v # u
                 PROVE  FALSE
      OBVIOUS
    <3>1. CASE v = t
      BY <1>4, <1>5, <3>1
    <3>2. CASE u = t
      BY <1>4, <1>5, <3>2
    <3>3. CASE v # t /\ u # t
      BY <1>4, <3>3 DEF TasksAudited, HoldersApart
    <3> QED BY <3>1, <3>2, <3>3
  <2>4. \A u \in Tasks : Holds(u)' /\ client_tx' # 0 => call'[u].tx # client_tx'
    BY <1>4, <1>6 DEF TasksAudited, HoldersApart
  <2> QED BY <2>1, <2>2, <2>3, <2>4 DEF HoldersApart
<1>8. StepsOwned'
  <2> SUFFICES ASSUME NEW o \in store'.tx_buffer, o.key[1] = "step"
               PROVE  \E u \in Tasks : /\ At(u, "commit_put")' /\ call'[u].tx = o.tx
                                       /\ o.key = StepKey(u, ctx'[u].step)
    BY DEF StepsOwned, At
  <2>1. CASE o = e
    BY <2>1
  <2>2. CASE o \in store.tx_buffer
    <3>1. PICK u \in Tasks : /\ At(u, "commit_put") /\ call[u].tx = o.tx
                             /\ o.key = StepKey(u, ctx[u].step)
      BY <2>2 DEF TasksAudited, StepsOwned
    <3>2. u # t
      BY <3>1 DEF At, Holds
    <3> QED BY <3>1, <3>2 DEF At
  <2> QED BY <2>1, <2>2
<1>9. ASSUME NEW u \in Tasks PROVE Auditing(u)'
  <2>1. CASE u = t
    BY <2>1
  <2>2. CASE u # t
    <3>1. StagedBy(store, call[u].tx) \subseteq store'.tx_buffer
      BY DEF StagedBy
    <3> QED BY <1>1, <2>2, <3>1, OtherAudited DEF TasksAudited
  <2> QED BY <2>1, <2>2
<1> QED BY <1>7, <1>8, <1>9 DEF TasksAudited

\* No task moves; the client's transaction, or nothing, leaves the buffer.
LEMMA ClientDrains ==
  ASSUME EngineType, next_tx' = next_tx,
         TasksAudited, call' = call, ctx' = ctx,
         NEW x, store'.tx_buffer = store.tx_buffer \ StagedBy(store, x),
         \/ client_tx # 0 /\ x = client_tx /\ client_tx' = 0
         \/ StagedBy(store, x) = {} /\ client_tx' = client_tx,
         EntriesIn(store, store')
  PROVE  TasksAudited'
<1>1. /\ next_tx \in Nat /\ next_tx <= next_tx' /\ StoreType(store)
      /\ \A u \in Tasks : call[u].tx \in Nat
  BY EngineFacts
<1>2. \A u \in Tasks : Holds(u) => StagedBy(store', call[u].tx) = StagedBy(store, call[u].tx)
  BY DEF TasksAudited, HoldersApart, StagedBy
<1>3. client_tx' # 0 => StagedBy(store', client_tx') = StagedBy(store, client_tx) /\ client_tx' = client_tx
  BY DEF StagedBy
<1>4. \A u \in Tasks : Holds(u)' <=> Holds(u)
  BY DEF Holds
<1>5. HoldersApart'
  BY <1>2, <1>3, <1>4 DEF TasksAudited, HoldersApart
<1>6. StepsOwned'
  BY DEF TasksAudited, StepsOwned, At
<1>7. ASSUME NEW u \in Tasks PROVE Auditing(u)'
  <2>1. At(u, "audit_put") => StagedBy(store, call[u].tx) \subseteq store'.tx_buffer
    BY <1>2 DEF StagedBy, At, Holds
  <2> QED BY <1>1, <2>1, OtherAudited DEF TasksAudited
<1> QED BY <1>5, <1>6, <1>7 DEF TasksAudited

(* Another client puts by a transaction that nobody else uses. *)
LEMMA ClientPuts ==
  ASSUME EngineType, next_tx' \in Nat, next_tx <= next_tx',
         TasksAudited, call' = call, ctx' = ctx, client_tx = 0,
         NEW e, store'.tx_buffer = store.tx_buffer \cup {e}, StagedBy(store, e.tx) = {},
         client_tx' = e.tx, e.key[1] # "step", EntriesIn(store, store')
  PROVE  TasksAudited'
<1>1. next_tx \in Nat /\ StoreType(store) /\ \A u \in Tasks : call[u].tx \in Nat
  BY EngineFacts
<1>2. (\A y : StagedBy(store, y) \subseteq StagedBy(store', y)) /\ StagedBy(store', e.tx) # {}
  BY DEF StagedBy
<1>3. \A u \in Tasks : Holds(u)' <=> Holds(u)
  BY DEF Holds
<1>4. \A u \in Tasks : Holds(u) => call[u].tx # e.tx
  BY DEF TasksAudited, HoldersApart
<1>5. HoldersApart'
  BY <1>2, <1>3, <1>4 DEF TasksAudited, HoldersApart
<1>6. StepsOwned'
  BY DEF TasksAudited, StepsOwned, At
<1>7. ASSUME NEW u \in Tasks PROVE Auditing(u)'
  <2>1. StagedBy(store, call[u].tx) \subseteq store'.tx_buffer
    BY DEF StagedBy
  <2> QED BY <1>1, <2>1, OtherAudited DEF TasksAudited
<1> QED BY <1>5, <1>6, <1>7 DEF TasksAudited

-----------------------------------------------------------------------------
\* Only the task t moves, to where it neither holds a transaction nor is between
\* its audit entry and its step.
OnlyMoves(t) == \A u \in Tasks : u # t => call'[u] = call[u] /\ ctx'[u] = ctx[u]

(* t owes the store nothing. *)
Free(t) == ~Holds(t) /\ ~At(t, "commit")

(* A task that owes nothing keeps Auditing. *)
LEMMA FreeAuditing ==
  ASSUME NEW t, Free(t)
  PROVE  Auditing(t)
BY DEF Free, Holds, At, Auditing

(* The same in the next state. *)
LEMMA FreeAuditingNext ==
  ASSUME NEW t, Free(t)'
  PROVE  Auditing(t)' /\ ~Holds(t)'
BY DEF Free, Holds, At, Auditing

(* A jump changes the place only. *)
LEMMA GotoMoves ==
  ASSUME TasksOK, NEW t \in Tasks, NEW pc, Goto(t, pc), ctx' = ctx
  PROVE  OnlyMoves(t) /\ call'[t].pc = pc /\ call'[t].tx = call[t].tx /\ ctx'[t] = ctx[t]
<1>1. call[t] \in CallType /\ DOMAIN call = Tasks
  BY DEF TasksOK
<1> QED BY <1>1 DEF OnlyMoves, Goto, CallType

(* A call that returns owes nothing. *)
LEMMA ReturnsMoves ==
  ASSUME TasksOK, NEW t \in Tasks, NEW status, Returns(t, status)
  PROVE  OnlyMoves(t) /\ Free(t)'
<1>1. DOMAIN call = Tasks /\ DOMAIN ctx = Tasks
  BY DEF TasksOK
<1>2. OnlyMoves(t) /\ call'[t] = NoCall
  BY <1>1 DEF Returns, OnlyMoves
<1>3. NoCall.pc = "idle"
  BY DEF NoCall
<1> QED BY <1>2, <1>3 DEF Free, Holds, At

(* Between two steps nothing internal is staged. *)
LEMMA NothingInternal ==
  ASSUME NEW s, StoreOK(s)
  PROVE  StagedBy(s, INTERNAL_BASE) = {}
BY Base DEF StoreOK, StagedBy

\* A task moves, and the buffer is as it was.
LEMMA FreeMoves ==
  ASSUME EngineType, TasksAudited, NEW t \in Tasks, OnlyMoves(t), Free(t)', ~At(t, "commit_put"),
         next_tx' \in Nat, next_tx <= next_tx', client_tx' = client_tx,
         store'.tx_buffer = store.tx_buffer, EntriesIn(store, store')
  PROVE  TasksAudited'
<1>1. StagedBy(store, INTERNAL_BASE) = {}
  BY EngineFacts, NothingInternal
<1>2. store'.tx_buffer = store.tx_buffer \ StagedBy(store, INTERNAL_BASE)
  BY <1>1
<1>3. Auditing(t)' /\ ~Holds(t)'
  BY FreeAuditingNext
<1>4. \A u \in Tasks : u # t => call'[u] = call[u] /\ ctx'[u] = ctx[u]
  BY DEF OnlyMoves
<1> QED BY <1>1, <1>2, <1>3, <1>4, TaskDrains

(* A step of a task that does not reach the store keeps the invariant. *)
LEMMA QuietAudit ==
  ASSUME EngineType, AuditAll, NEW t \in Tasks, OnlyMoves(t), Free(t)', ~At(t, "commit_put"),
         UNCHANGED <<store, next_tx, client_tx>>
  PROVE  AuditAll'
<1>1. EntriesIn(store, store')
  BY DEF EntriesIn
<1>2. next_tx' \in Nat /\ next_tx <= next_tx'
  BY EngineFacts
<1>3. TasksAudited'
  BY <1>1, <1>2, FreeMoves DEF AuditAll
<1>4. AuditStore(store')
  BY DEF AuditAll
<1> QED BY <1>3, <1>4 DEF AuditAll

(* The places at which a task owes nothing. *)
LEMMA FreePc ==
  ASSUME NEW t, call'[t].pc \notin {"letter_put", "audit_put", "failure_put", "commit_put",
                                    "final_put", "commit"}
  PROVE  Free(t)'
BY DEF Free, Holds, At

\* The steps of a task that do not reach the store.
LEMMA QuietSteps ==
  ASSUME EngineType, NEW t \in Tasks,
         \/ Run(t) \/ RecoverRead(t) \/ LimitReached(t) \/ Decide(t) \/ StepBegin(t)
         \/ CheckpointRead(t) \/ Reserve(t) \/ ToolOk(t) \/ ToolError(t)
         \/ ToolTimeout(t) \/ RetryRefused(t) \/ Advance(t)
  PROVE  /\ OnlyMoves(t) /\ Free(t)' /\ ~At(t, "commit_put")
         /\ UNCHANGED <<store, next_tx, client_tx>>
<1>0. TasksOK /\ call[t] \in CallType /\ DOMAIN call = Tasks /\ DOMAIN ctx = Tasks
  BY DEF EngineType, TasksOK
<1>1. CASE Run(t)
  <2>1. call'[t].pc = "recover" /\ OnlyMoves(t)
    BY <1>0, <1>1 DEF Run, Goto, OnlyMoves, CallType
  <2> QED BY <1>1, <2>1, FreePc DEF Run, At
<1>2. CASE RecoverRead(t)
  <2>1. call'[t].pc \in {"loop", "recovering"} /\ OnlyMoves(t)
    BY <1>0, <1>2 DEF RecoverRead, OnlyMoves, CallType
  <2> QED BY <1>2, <2>1, FreePc DEF RecoverRead, At, shared
<1>3. CASE LimitReached(t)
  <2>1. call'[t].pc = "failure" /\ OnlyMoves(t)
    BY <1>0, <1>3, GotoMoves DEF LimitReached
  <2> QED BY <1>3, <2>1, FreePc DEF LimitReached, At, shared
<1>4. CASE Decide(t)
  <2>1. call'[t].pc \in {"loop", "failure"} /\ OnlyMoves(t)
    BY <1>0, <1>4 DEF Decide, Goto, OnlyMoves, CallType, At
  <2> QED BY <1>4, <2>1, FreePc DEF Decide, At, shared
<1>5. CASE StepBegin(t)
  <2>1. call'[t].pc = "checkpoint" /\ OnlyMoves(t)
    BY <1>0, <1>5 DEF StepBegin, OnlyMoves, CallType
  <2> QED BY <1>5, <2>1, FreePc DEF StepBegin, At, shared
<1>6. CASE CheckpointRead(t)
  <2>1. call'[t].pc = "save" /\ OnlyMoves(t)
    BY <1>0, <1>6 DEF CheckpointRead, OnlyMoves, CallType
  <2> QED BY <1>6, <2>1, FreePc DEF CheckpointRead, At, shared
<1>7. CASE Reserve(t)
  <2>1. call'[t].pc \in {"audit", "failure", "execute", "letter"} /\ OnlyMoves(t)
    BY <1>0, <1>7 DEF Reserve, OnlyMoves, CallType
  <2> QED BY <1>7, <2>1, FreePc DEF Reserve, At, shared
<1>8. CASE ToolOk(t)
  <2>1. PICK tokens \in Tokens :
           /\ ctx' = [ctx EXCEPT ![t].consumed = Reconciled(@, call[t].reserved, tokens)]
           /\ call' = [call EXCEPT ![t] = Settled(t, tokens)]
    BY <1>8 DEF ToolOk
  <2>2. call'[t].pc = "audit" /\ OnlyMoves(t)
    BY <1>0, <2>1 DEF Settled, OnlyMoves, CallType
  <2> QED BY <1>8, <2>2, FreePc DEF ToolOk, At, shared
<1>9. CASE ToolError(t)
  <2>1. call'[t].pc \in {"execute", "letter"} /\ OnlyMoves(t)
    BY <1>0, <1>9 DEF ToolError, OnlyMoves, CallType, At
  <2> QED BY <1>9, <2>1, FreePc DEF ToolError, At, shared
<1>10. CASE ToolTimeout(t)
  <2>1. call'[t].pc = "letter" /\ OnlyMoves(t)
    BY <1>0, <1>10 DEF ToolTimeout, OnlyMoves, CallType, At
  <2> QED BY <1>10, <2>1, FreePc DEF ToolTimeout, At
<1>11. CASE RetryRefused(t)
  <2>1. call'[t].pc = "letter" /\ OnlyMoves(t)
    BY <1>0, <1>11 DEF RetryRefused, OnlyMoves, CallType, At
  <2> QED BY <1>11, <2>1, FreePc DEF RetryRefused, At, shared
<1>12. CASE Advance(t)
  <2>1. call'[t].pc \in {"loop", "failure"} /\ OnlyMoves(t)
    BY <1>0, <1>12 DEF Advance, Goto, OnlyMoves, CallType, NoCall
  <2> QED BY <1>12, <2>1, FreePc DEF Advance, At
<1> QED BY <1>1, <1>2, <1>3, <1>4, <1>5, <1>6, <1>7, <1>8, <1>9, <1>10, <1>11, <1>12

\* The rows of steps that are staged have their audit entries.
LEMMA StagedPaired ==
  ASSUME TasksAudited, NEW o \in store.tx_buffer, o.key[1] = "step"
  PROVE  \E a \in Readable(store) : EntryOf(a, o.key, o.tx)
<1>1. PICK u \in Tasks : /\ At(u, "commit_put") /\ call[u].tx = o.tx
                         /\ o.key = StepKey(u, ctx[u].step)
  BY DEF TasksAudited, StepsOwned
<1> QED BY <1>1 DEF TasksAudited, Auditing, Audited

(* A commit, or its failure, keeps the store's part and the audit entries, and takes its *)
(* writes from the buffer.                                                               *)
LEMMA CommitsAudit ==
  ASSUME encryption_at_rest, EngineType, AuditAll, NEW tx, Commits(tx) \/ CommitError(tx), Clean'
  PROVE  /\ AuditStore(store') /\ EntriesIn(store, store')
         /\ store'.tx_buffer = store.tx_buffer \ StagedBy(store, tx)
         /\ Commits(tx) => \A o \in StagedBy(store, tx) :
               \E r \in Readable(store') : r.key = o.key /\ r.val = o.val /\ r.tx = tx
<1>1. StoreType(store) /\ IsStore(store) /\ AuditStore(store)
  BY EngineFacts DEF StoreType, AuditAll
<1>2. CASE Commits(tx)
  <2>1. store' = Commit(store, tx)
    BY <1>2, StoresFacts DEF Commits
  <2>2. \A o \in StagedBy(store, tx) : o.key[1] = "step" =>
           \E a \in Readable(store) : EntryOf(a, o.key, tx)
    BY StagedPaired DEF AuditAll, StagedBy
  <2>3. AuditStore(store')
    BY <1>1, <2>1, <2>2, CommitAudit
  <2>4. Readable(store') = Readable(store) \cup NewRows(store, tx)
    BY <1>1, <2>1, CommitKeeps
  <2>5. store'.tx_buffer = store.tx_buffer \ StagedBy(store, tx)
    BY <1>1, <2>1, CommitStore
  <2>6. \A o \in StagedBy(store, tx) :
           \E r \in NewRows(store, tx) : r.key = o.key /\ r.val = o.val /\ r.tx = tx
    BY NewRowsOf
  <2> QED BY <2>3, <2>4, <2>5, <2>6 DEF EntriesIn
<1>3. CASE CommitError(tx)
  <2>1. store' = CommitFails(store, tx) /\ Logged(store')
    BY <1>3, StoresFacts DEF CommitError, Clean
  <2>2. AuditStore(store') /\ EntriesIn(store, store')
        /\ store'.tx_buffer = store.tx_buffer \ StagedBy(store, tx)
    BY <1>1, <2>1, FailsAudit
  <2>3. ASSUME Commits(tx)
        PROVE  \A o \in StagedBy(store, tx) :
                  \E r \in Readable(store') : r.key = o.key /\ r.val = o.val /\ r.tx = tx
    <3>1. store' = Commit(store, tx)
      BY <2>3, StoresFacts DEF Commits
    <3>2. NewRows(store, tx) \subseteq Readable(store')
      BY <1>1, <3>1, CommitKeeps
    <3> QED BY <3>2, NewRowsOf
  <2> QED BY <2>2, <2>3
<1> QED BY <1>2, <1>3

\* A commit, or its failure, by the task that holds the transaction.
LEMMA HolderCommits ==
  ASSUME encryption_at_rest, EngineType, AuditAll, NEW t \in Tasks, Holds(t),
         Commits(call[t].tx) \/ CommitError(call[t].tx), Clean',
         UNCHANGED <<next_tx, client_tx>>, OnlyMoves(t), ~Holds(t)', Auditing(t)'
  PROVE  AuditAll'
<1>1. /\ AuditStore(store') /\ EntriesIn(store, store')
      /\ store'.tx_buffer = store.tx_buffer \ StagedBy(store, call[t].tx)
  BY CommitsAudit
<1>2. next_tx' \in Nat /\ next_tx <= next_tx'
  BY EngineFacts
<1>3. \A u \in Tasks : u # t => call'[u] = call[u] /\ ctx'[u] = ctx[u]
  BY DEF OnlyMoves
<1>4. TasksAudited'
  BY <1>1, <1>2, <1>3, TaskDrains DEF AuditAll
<1> QED BY <1>1, <1>4 DEF AuditAll

(* A dead letter is committed, or is not. *)
LEMMA LetterCommitAudit ==
  ASSUME encryption_at_rest, EngineType, AuditAll, NEW t \in Tasks, LetterCommit(t), Clean'
  PROVE  AuditAll'
<1>1. TasksOK /\ CallOK(call[t], ctx[t]) /\ At(t, "letter_put")
  BY DEF EngineType, TasksOK, LetterCommit
<1>2. call[t].next \in {"failure", "execute"}
  BY <1>1 DEF CallOK, At
<1>3. OnlyMoves(t) /\ call'[t].pc = call[t].next
  BY <1>1, GotoMoves DEF LetterCommit
<1>4. Free(t)' /\ Auditing(t)' /\ ~Holds(t)'
  BY <1>2, <1>3, FreePc, FreeAuditingNext
<1>5. Holds(t)
  BY <1>1 DEF Holds, At
<1> QED BY <1>3, <1>4, <1>5, HolderCommits DEF LetterCommit

(* A step or a final state is committed, or is not. *)
LEMMA StepCommitAudit ==
  ASSUME encryption_at_rest, EngineType, AuditAll, NEW t \in Tasks,
         StepCommit(t) \/ FinalCommit(t), Clean'
  PROVE  AuditAll'
<1>1. TasksOK
  BY DEF EngineType
<1>2. OnlyMoves(t) /\ Free(t)'
  <2>1. CASE Goto(t, "advance") /\ UNCHANGED ctx
    BY <1>1, <2>1, GotoMoves, FreePc
  <2>2. CASE Goto(t, "flush") /\ UNCHANGED ctx
    BY <1>1, <2>2, GotoMoves, FreePc
  <2>3. CASE Returns(t, "Failed")
    BY <1>1, <2>3, ReturnsMoves
  <2> QED BY <2>1, <2>2, <2>3 DEF StepCommit, FinalCommit
<1>3. Auditing(t)' /\ ~Holds(t)'
  BY <1>2, FreeAuditingNext
<1>4. Holds(t)
  BY DEF Holds, At, StepCommit, FinalCommit
<1>5. /\ Commits(call[t].tx) \/ CommitError(call[t].tx)
      /\ UNCHANGED <<next_tx, client_tx>>
  BY DEF StepCommit, FinalCommit
<1> QED BY <1>2, <1>3, <1>4, <1>5, HolderCommits

\* After the commit of an audit entry the entry is readable.
LEMMA AuditCommitAudit ==
  ASSUME encryption_at_rest, EngineType, AuditAll, NEW t \in Tasks, AuditCommit(t), Clean'
  PROVE  AuditAll'
<1>1. TasksOK
  BY DEF EngineType
<1>2. Holds(t)
  BY DEF Holds, At, AuditCommit
<1>3. /\ Commits(call[t].tx) \/ CommitError(call[t].tx)
      /\ UNCHANGED <<next_tx, client_tx>>
  BY DEF AuditCommit
<1>4. CASE Returns(t, "Failed")
  <2>1. OnlyMoves(t) /\ Auditing(t)' /\ ~Holds(t)'
    BY <1>1, <1>4, ReturnsMoves, FreeAuditingNext
  <2> QED BY <1>2, <1>3, <2>1, HolderCommits
<1>5. CASE At(t, "audit_put") /\ Commits(call[t].tx) /\ Goto(t, "commit") /\ UNCHANGED ctx
  <2>1. OnlyMoves(t) /\ call'[t].pc = "commit" /\ ctx'[t] = ctx[t]
    BY <1>1, <1>5, GotoMoves
  <2>2. PICK o \in StagedBy(store, call[t].tx) :
           o.key = AuditKey(t, ctx[t].step) /\ ~o.val.error
    BY <1>5 DEF AuditAll, TasksAudited, Auditing
  <2>3. call[t].tx < next_tx
    BY <1>5 DEF AuditAll, TasksAudited, Auditing
  <2>4. PICK r \in Readable(store') : r.key = o.key /\ r.val = o.val /\ r.tx = call[t].tx
    BY <1>5, CommitsAudit
  <2>5. EntryOf(r, StepKey(t, ctx'[t].step), next_tx')
    BY <1>3, <2>1, <2>2, <2>3, <2>4, AuditOfStep DEF EntryOf
  <2>6. ~Holds(t)' /\ Auditing(t)'
    BY <2>1, <2>5 DEF Holds, Auditing, Audited, At
  <2> QED BY <1>2, <1>3, <2>1, <2>6, HolderCommits
<1> QED BY <1>4, <1>5 DEF AuditCommit

\* A put under an id that is free.
LEMMA PutsAudit ==
  ASSUME EngineType, AuditAll, NEW tx, NEW key, NEW val,
         key[1] = "audit" => Absent(store, key),
         Stores(Put(store, tx, key, val), Mixed(tx)), Clean'
  PROVE  /\ AuditStore(store') /\ EntriesIn(store, store') /\ StagedBy(store, tx) = {}
         /\ store'.tx_buffer = store.tx_buffer \cup {[tx |-> tx, key |-> key, val |-> val]}
         /\ Readable(store') = Readable(store)
<1>1. StoreType(store) /\ IsStore(store) /\ AuditStore(store)
  BY EngineFacts DEF StoreType, AuditAll
<1>2. store' = Put(store, tx, key, val) /\ Mixed(tx) \subseteq departures'
  BY StoresFacts
<1>3. AuditStore(store')
  BY <1>1, <1>2, PutAudit
<1>4. Readable(store') = Readable(store)
  BY <1>1, <1>2, PutKeeps
<1>5. store'.tx_buffer = store.tx_buffer \cup {[tx |-> tx, key |-> key, val |-> val]}
  BY <1>1, <1>2, PutStore
<1>6. StagedBy(store, tx) = {}
  BY <1>2 DEF Mixed, Clean
<1> QED BY <1>3, <1>4, <1>5, <1>6 DEF EntriesIn

(* A task puts. *)
LEMMA HolderPuts ==
  ASSUME EngineType, AuditAll, NEW t \in Tasks, ~Holds(t), OnlyMoves(t), client_tx' = client_tx,
         next_tx' \in Nat, next_tx <= next_tx',
         NEW tx, NEW key, NEW val, key[1] = "audit" => Absent(store, key),
         Stores(Put(store, tx, key, val), Mixed(tx)), Clean', call'[t].tx = tx,
         key[1] = "step" => At(t, "commit_put")' /\ key = StepKey(t, ctx'[t].step),
         Auditing(t)'
  PROVE  AuditAll'
<1> DEFINE e == [tx |-> tx, key |-> key, val |-> val]
<1>1. /\ AuditStore(store') /\ EntriesIn(store, store') /\ StagedBy(store, tx) = {}
      /\ store'.tx_buffer = store.tx_buffer \cup {e}
  BY PutsAudit
<1>2. e.tx = tx /\ e.key = key
  OBVIOUS
<1>3. \A u \in Tasks : u # t => call'[u] = call[u] /\ ctx'[u] = ctx[u]
  BY DEF OnlyMoves
<1> HIDE DEF e
<1>4. TasksAudited'
  BY <1>1, <1>2, <1>3, TaskPuts DEF AuditAll
<1> QED BY <1>1, <1>4 DEF AuditAll

(* A dead letter is put. *)
LEMMA LetterPutAudit ==
  ASSUME EngineType, AuditAll, NEW t \in Tasks, LetterPut(t), Clean'
  PROVE  AuditAll'
<1> DEFINE tx == IF dlq_next_tx = 0 THEN store.last_committed_tx + 1 ELSE dlq_next_tx
           key == LetterKey(t, Node(t), ctx[t].step)
<1>0. TasksOK /\ call[t] \in CallType /\ DOMAIN call = Tasks
  BY DEF EngineType, TasksOK
<1>1. /\ Stores(Put(store, tx, key, <<>>), Mixed(tx))
      /\ call' = [call EXCEPT ![t].pc = "letter_put", ![t].tx = tx] /\ call[t].pc = "letter"
      /\ UNCHANGED <<next_tx, client_tx, ctx>>
  BY DEF LetterPut, At
<1>2. key[1] = "letter"
  BY KeyKinds
<1> HIDE DEF tx, key
<1>3. call'[t].pc = "letter_put" /\ call'[t].tx = tx /\ OnlyMoves(t)
  BY <1>0, <1>1 DEF OnlyMoves, CallType
<1>4. Auditing(t)' /\ ~Holds(t)
  BY <1>1, <1>3 DEF Auditing, At, Holds
<1>5. next_tx' \in Nat /\ next_tx <= next_tx'
  BY <1>1, EngineFacts
<1> QED BY <1>1, <1>2, <1>3, <1>4, <1>5, HolderPuts

(* The counter of the collections grows. *)
LEMMA NextTxGrows ==
  ASSUME EngineType, next_tx' = next_tx + 1
  PROVE  next_tx \in Nat /\ next_tx' \in Nat /\ next_tx <= next_tx' /\ next_tx < next_tx'
<1>1. next_tx \in Nat
  BY EngineFacts
<1> QED BY <1>1

(* A final state is put. *)
LEMMA FinalPutAudit ==
  ASSUME EngineType, AuditAll, NEW t \in Tasks, FinalPut(t), Clean'
  PROVE  AuditAll'
<1>0. TasksOK /\ call[t] \in CallType /\ DOMAIN call = Tasks /\ DOMAIN ctx = Tasks
  BY DEF EngineType, TasksOK
<1>1. /\ Stores(Put(store, next_tx, FinalKey(t), <<>>), Mixed(next_tx))
      /\ call' = [call EXCEPT ![t].tx = next_tx, ![t].pc = "final_put"] /\ call[t].pc = "loop"
      /\ ctx' = [ctx EXCEPT ![t].status = "Completed"]
      /\ client_tx' = client_tx /\ next_tx' = next_tx + 1
  BY DEF FinalPut, At
<1>2. FinalKey(t)[1] = "final"
  BY KeyKinds
<1>3. call'[t].pc = "final_put" /\ call'[t].tx = next_tx /\ OnlyMoves(t)
  BY <1>0, <1>1 DEF OnlyMoves, CallType
<1>4. Auditing(t)' /\ ~Holds(t)
  BY <1>1, <1>3 DEF Auditing, At, Holds
<1>5. next_tx' \in Nat /\ next_tx <= next_tx'
  BY <1>1, NextTxGrows
<1> QED BY <1>1, <1>2, <1>3, <1>4, <1>5, HolderPuts

\* The step is put under an id above that of its audit entry.
LEMMA StepPutAudit ==
  ASSUME EngineType, AuditAll, NEW t \in Tasks, StepPut(t), Clean'
  PROVE  AuditAll'
<1> DEFINE key == StepKey(t, ctx[t].step)
<1>0. TasksOK /\ call[t] \in CallType /\ DOMAIN call = Tasks
  BY DEF EngineType, TasksOK
<1>1. /\ Stores(Put(store, next_tx, key, <<>>), Mixed(next_tx))
      /\ call' = [call EXCEPT ![t].tx = next_tx, ![t].pc = "commit_put"] /\ call[t].pc = "commit"
      /\ ctx' = ctx /\ client_tx' = client_tx /\ next_tx' = next_tx + 1
  BY DEF StepPut, At
<1>2. key[1] = "step"
  BY KeyKinds
<1>3. call'[t].pc = "commit_put" /\ call'[t].tx = next_tx /\ OnlyMoves(t)
  BY <1>0, <1>1 DEF OnlyMoves, CallType
<1>4. PICK a \in Readable(store) : EntryOf(a, key, next_tx)
  BY <1>1 DEF AuditAll, TasksAudited, Auditing, Audited, At
<1> HIDE DEF key
<1>5. Readable(store') = Readable(store)
  BY <1>1, <1>2, PutsAudit
<1>6. Auditing(t)' /\ ~Holds(t)
  BY <1>1, <1>3, <1>4, <1>5 DEF Auditing, Audited, At, Holds, key
<1>7. next_tx' \in Nat /\ next_tx <= next_tx'
  BY <1>1, NextTxGrows
<1>8. At(t, "commit_put")' /\ key = StepKey(t, ctx'[t].step)
  BY <1>1, <1>3 DEF At, key
<1> QED BY <1>1, <1>2, <1>3, <1>6, <1>7, <1>8, HolderPuts

(* An audit entry is put if there is none; otherwise run returns. *)
LEMMA AuditPutAudit ==
  ASSUME EngineType, AuditAll, NEW t \in Tasks, AuditPut(t), Clean'
  PROVE  AuditAll'
<1> DEFINE key == AuditKey(t, ctx[t].step)
           failed == At(t, "failure")
           row == [tokens |-> IF failed THEN 0 ELSE call[t].tokens, error |-> failed]
           pc == IF failed THEN "failure_put" ELSE "audit_put"
           e == [tx |-> next_tx, key |-> key, val |-> row]
<1>0. TasksOK /\ call[t] \in CallType /\ DOMAIN call = Tasks
  BY DEF EngineType, TasksOK
<1>1. /\ next_tx' = next_tx + 1 /\ client_tx' = client_tx
      /\ call[t].pc \in {"audit", "failure"}
  BY DEF AuditPut, At
<1>2. \/ /\ Absent(store, key)
         /\ Stores(Put(store, next_tx, key, row), Mixed(next_tx))
         /\ call' = [call EXCEPT ![t].tx = next_tx, ![t].pc = pc]
         /\ ctx' = ctx
      \/ /\ Stores(Rollback(store, next_tx), Mixed(next_tx))
         /\ Returns(t, "Failed")
  BY DEF AuditPut
<1>3. next_tx \in Nat /\ next_tx' \in Nat /\ next_tx <= next_tx' /\ next_tx < next_tx'
  BY <1>1, NextTxGrows
<1>4. key[1] = "audit"
  BY KeyKinds
<1>5. ~Holds(t) /\ ~At(t, "commit_put")
  BY <1>1 DEF Holds, At
<1>6. pc = "audit_put" => ~row.error
  BY DEF At
<1>7. pc \in {"audit_put", "failure_put"}
  OBVIOUS
<1>e. e.tx = next_tx /\ e.key = key /\ e.val = row
  OBVIOUS
<1>8. CASE /\ Absent(store, key)
           /\ Stores(Put(store, next_tx, key, row), Mixed(next_tx))
           /\ call' = [call EXCEPT ![t].tx = next_tx, ![t].pc = pc]
           /\ ctx' = ctx
  <2>1. store'.tx_buffer = store.tx_buffer \cup {e}
    BY <1>8, PutsAudit
  <2> HIDE DEF row, pc, failed, e, key
  <2>2. call'[t].pc = pc /\ call'[t].tx = next_tx /\ OnlyMoves(t)
    BY <1>0, <1>8 DEF OnlyMoves, CallType
  <2>3. Auditing(t)'
    <3>1. e \in StagedBy(store', next_tx)
      BY <1>e, <2>1 DEF StagedBy
    <3>2. At(t, "audit_put")' => ~e.val.error
      BY <1>6, <1>e, <2>2 DEF At
    <3>3. e.key = AuditKey(t, ctx'[t].step)
      BY <1>8, <1>e DEF key
    <3> QED BY <1>3, <1>7, <2>2, <3>1, <3>2, <3>3 DEF Auditing, At
  <2> QED BY <1>1, <1>3, <1>4, <1>5, <1>8, <2>2, <2>3, HolderPuts
<1>9. CASE Stores(Rollback(store, next_tx), Mixed(next_tx)) /\ Returns(t, "Failed")
  <2>1. store' = Rollback(store, next_tx) /\ Mixed(next_tx) \subseteq departures'
    BY <1>9, StoresFacts
  <2>2. StagedBy(store, next_tx) = {}
    BY <2>1 DEF Mixed, Clean
  <2>3. StoreType(store) /\ IsStore(store) /\ AuditStore(store)
    BY EngineFacts DEF StoreType, AuditAll
  <2>4. AuditStore(store')
    BY <2>1, <2>3, DrainAudit
  <2>5. EntriesIn(store, store')
    BY <2>1, <2>3, DrainKeeps DEF EntriesIn
  <2>6. store'.tx_buffer = store.tx_buffer
    <3>1. store'.tx_buffer = store.tx_buffer \ StagedBy(store, next_tx)
      BY <2>1, <2>3, DrainStore
    <3> QED BY <2>2, <3>1
  <2>7. OnlyMoves(t) /\ Free(t)'
    BY <1>0, <1>9, ReturnsMoves
  <2>8. TasksAudited'
    BY <1>1, <1>3, <1>5, <2>5, <2>6, <2>7, FreeMoves DEF AuditAll
  <2> QED BY <2>4, <2>8 DEF AuditAll
<1> QED BY <1>2, <1>8, <1>9

-----------------------------------------------------------------------------

(* A flush keeps the store's part and every audit entry. *)
LEMMA FlushStep ==
  ASSUME EngineType, AuditAll, store' = Flush(store)
  PROVE  /\ AuditStore(store') /\ EntriesIn(store, store')
         /\ store'.tx_buffer = store.tx_buffer
<1>1. StoreType(store) /\ AuditStore(store)
  BY EngineFacts DEF AuditAll
<1>2. AuditRows(store') /\ EntriesIn(store, store')
  BY <1>1, FlushAudit DEF AuditStore
<1>3. Visible(store')
  BY <1>1, FlushKeeps DEF AuditStore
<1>4. store'.tx_buffer = store.tx_buffer
  BY <1>1, FlushStore
<1> QED BY <1>2, <1>3, <1>4 DEF AuditStore

(* The flush at an End node. *)
LEMMA FinalFlushAudit ==
  ASSUME EngineType, AuditAll, NEW t \in Tasks, FinalFlush(t)
  PROVE  AuditAll'
<1>0. TasksOK
  BY DEF EngineType
<1>1. store' = Flush(store)
  BY StoresFacts DEF FinalFlush
<1>2. /\ AuditStore(store') /\ EntriesIn(store, store')
      /\ store'.tx_buffer = store.tx_buffer
  BY <1>1, FlushStep
<1>3. OnlyMoves(t) /\ call'[t].pc = "checkpoint"
  BY <1>0, GotoMoves DEF FinalFlush
<1>4. Free(t)' /\ ~At(t, "commit_put")
  BY <1>3, FreePc DEF FinalFlush, At
<1>5. next_tx' \in Nat /\ next_tx <= next_tx' /\ client_tx' = client_tx
  BY EngineFacts DEF FinalFlush
<1>6. TasksAudited'
  BY <1>2, <1>3, <1>4, <1>5, FreeMoves DEF AuditAll
<1> QED BY <1>2, <1>6 DEF AuditAll

(* A checkpoint is saved, or is not. *)
LEMMA CheckpointSaveAudit ==
  ASSUME encryption_at_rest, EngineType, AuditAll, NEW t \in Tasks, CheckpointSave(t), Clean'
  PROVE  AuditAll'
<1> DEFINE meta == [node |-> Node(t), step |-> ctx[t].step, tx_id |-> call[t].cp,
                     consumed |-> ctx[t].consumed, seq_no |-> call[t].seq_no]
           key == CheckpointKey(t, Node(t), ctx[t].step)
           b == Reserved(store)
           s == Put(b, INTERNAL_BASE, key, meta)
<1>0. TasksOK /\ call[t] \in CallType /\ DOMAIN call = Tasks
  BY DEF EngineType, TasksOK
<1>1. StoreOK(store) /\ AuditStore(store)
  BY DEF EngineType, AuditAll
<1>2. StoreOK(b) /\ AuditStore(b) /\ EntriesIn(store, b) /\ b.tx_buffer = store.tx_buffer
  BY <1>1, ReservedOK, ReservedAudit
<1>3. RowOK([tx |-> INTERNAL_BASE, key |-> key, val |-> meta])
  BY CheckpointRowOK
<1>4. key[1] \in InternalKinds
  BY KeyKinds DEF InternalKinds
<1>5. /\ \/ Stores(Commit(s, INTERNAL_BASE), {})
         \/ Stores(CommitFails(s, INTERNAL_BASE), {})
      /\ UNCHANGED <<next_tx, client_tx>> /\ call[t].pc = "save"
  BY DEF CheckpointSave, At
<1>6. \/ Returns(t, "Completed") \/ Returns(t, "Failed")
      \/ /\ call' = [call EXCEPT ![t].pc = "reserve", ![t].cp = 0, ![t].seq_no = 0]
         /\ ctx' = ctx
  BY DEF CheckpointSave
<1> HIDE DEF key, meta, b
<1>7. /\ AuditStore(Commit(s, INTERNAL_BASE)) /\ EntriesIn(b, Commit(s, INTERNAL_BASE))
      /\ Commit(s, INTERNAL_BASE).tx_buffer = b.tx_buffer
      /\ Logged(CommitFails(s, INTERNAL_BASE)) =>
            /\ AuditStore(CommitFails(s, INTERNAL_BASE))
            /\ EntriesIn(b, CommitFails(s, INTERNAL_BASE))
            /\ CommitFails(s, INTERNAL_BASE).tx_buffer = b.tx_buffer
  BY <1>2, <1>3, <1>4, InternalAudit
<1> HIDE DEF s
<1>8. /\ AuditStore(store') /\ EntriesIn(b, store') /\ store'.tx_buffer = b.tx_buffer
  <2>1. CASE Stores(Commit(s, INTERNAL_BASE), {})
    BY <1>7, <2>1, StoresFacts
  <2>2. CASE Stores(CommitFails(s, INTERNAL_BASE), {})
    <3>1. store' = CommitFails(s, INTERNAL_BASE) /\ Logged(store')
      BY <2>2, StoresFacts DEF Clean
    <3> QED BY <1>7, <3>1
  <2> QED BY <1>5, <2>1, <2>2
<1>9. EntriesIn(store, store') /\ store'.tx_buffer = store.tx_buffer
  BY <1>2, <1>8, EntriesChain
<1>10. OnlyMoves(t) /\ Free(t)'
  <2>1. CASE Returns(t, "Completed") \/ Returns(t, "Failed")
    BY <1>0, <2>1, ReturnsMoves
  <2>2. CASE /\ call' = [call EXCEPT ![t].pc = "reserve", ![t].cp = 0, ![t].seq_no = 0]
             /\ ctx' = ctx
    <3>1. call'[t].pc = "reserve" /\ OnlyMoves(t)
      BY <1>0, <2>2 DEF OnlyMoves, CallType
    <3> QED BY <3>1, FreePc
  <2> QED BY <1>6, <2>1, <2>2
<1>11. ~At(t, "commit_put")
  BY <1>5 DEF At
<1>12. next_tx' \in Nat /\ next_tx <= next_tx'
  BY <1>5, EngineFacts
<1>13. TasksAudited'
  BY <1>5, <1>9, <1>10, <1>11, <1>12, FreeMoves DEF AuditAll
<1> QED BY <1>8, <1>13 DEF AuditAll

(* An orphan is rolled back to: nothing was committed after it, so that nothing is *)
(* removed.                                                                        *)
LEMMA RecoverOrphanAudit ==
  ASSUME encryption_at_rest, EngineType, AuditAll, NEW t \in Tasks, RecoverOrphan(t), Clean'
  PROVE  AuditAll'
<1> DEFINE cp == Head(call[t].todo)
           rest == Tail(call[t].todo)
           p == RollbackToTx(store, cp)
           more == IF store.last_committed_tx > call[t].last_tx THEN {"raced"} ELSE {}
<1>0. /\ TasksOK /\ call[t] \in CallType /\ CallOK(call[t], ctx[t]) /\ DOMAIN call = Tasks
      /\ StoreType(store) /\ AuditStore(store)
  BY EngineFacts DEF EngineType, TasksOK, AuditAll
<1>1. /\ UNCHANGED <<next_tx, client_tx, ctx>> /\ call[t].pc = "recovering"
      /\ call' = [call EXCEPT ![t].todo = rest,
                              ![t].pc = IF rest = <<>> THEN "loop" ELSE "recovering"]
  BY DEF RecoverOrphan, At
<1>2. cp \in Collection
  BY <1>0, <1>1 DEF CallType, CallOK
<1>3. \/ Barrier(call[t].last_tx, cp) /\ Stores(p, more)
      \/ UNCHANGED <<store, departures>>
  BY DEF RecoverOrphan
<1>4. call'[t].pc \in {"loop", "recovering"} /\ OnlyMoves(t)
  <2> HIDE DEF rest
  <2> QED BY <1>0, <1>1 DEF OnlyMoves, CallType
<1>5. Free(t)' /\ ~At(t, "commit_put")
  BY <1>1, <1>4, FreePc DEF At
<1>6. next_tx' \in Nat /\ next_tx <= next_tx'
  BY <1>1, EngineFacts
<1>7. CASE UNCHANGED <<store, departures>>
  <2>1. UNCHANGED <<store, next_tx, client_tx>>
    BY <1>1, <1>7
  <2> QED BY <1>4, <1>5, <2>1, QuietAudit
<1>8. CASE Barrier(call[t].last_tx, cp) /\ Stores(p, more)
  <2>1. store' = p /\ Logged(p) /\ more \subseteq departures'
    <3>1. Stores(p, more)
      BY <1>8
    <3> HIDE DEF p, more
    <3> QED BY <3>1, StoresFacts DEF Clean
  <2>2. ~(store.last_committed_tx > call[t].last_tx)
    BY <2>1 DEF Clean
  <2>3. store.last_committed_tx \in Nat /\ cp \in Nat /\ call[t].last_tx \in Nat
    BY <1>0, <1>2, Base DEF StoreType, CallType
  <2>4. call[t].last_tx <= cp
    BY <1>8 DEF Barrier
  <2> HIDE DEF cp, more
  <2>5. store.last_committed_tx <= cp
    BY <2>2, <2>3, <2>4
  <2>6. AuditStore(p)
    BY <1>0, <1>2, <2>1, RollbackAudit DEF AuditStore
  <2>7. \A r \in Readable(store) : ~Internal(r) => r \in Readable(p)
    BY <1>0, <1>2, <2>5, RollbackKeeps DEF AuditStore, AuditRows
  <2>8. EntriesIn(store, p)
    BY <1>0, <2>7, AuditNotInternal DEF EntriesIn
  <2>9. p.tx_buffer = store.tx_buffer
    BY <1>0, RollbackStore DEF StoreType
  <2> HIDE DEF p
  <2>10. TasksAudited'
    BY <1>1, <1>4, <1>5, <1>6, <2>1, <2>8, <2>9, FreeMoves DEF AuditAll
  <2> QED BY <2>1, <2>6, <2>10 DEF AuditAll
<1> QED BY <1>3, <1>7, <1>8

-----------------------------------------------------------------------------
\* A replay while every task is idle; the staged rows are of other clients.
LEMMA ReplayAudit ==
  ASSUME encryption_at_rest, EngineType, AuditAll, NEW t \in Tasks, NEW step, Replay(t, step),
         Clean'
  PROVE  AuditAll'
<1>0. StoreType(store) /\ AuditRows(store)
  BY EngineFacts DEF AuditAll, AuditStore
<1>1. PICK r \in CheckpointsOf(t) :
         Stores(RollbackToTx(store, r.val.tx_id),
                IF \A u \in Tasks : At(u, "idle") THEN {} ELSE {"erased"})
  BY DEF Replay
<1>2. r \in Readable(store) /\ r.key[1] = "checkpoint"
  BY ScanReadable DEF CheckpointsOf
<1>3. r.val.tx_id \in Collection
  BY <1>0, <1>2 DEF StoreType, RowOK
<1>4. /\ store' = RollbackToTx(store, r.val.tx_id)
      /\ "unlogged" \notin departures' => Logged(store')
      /\ (IF \A u \in Tasks : At(u, "idle") THEN {} ELSE {"erased"}) \subseteq departures'
  BY <1>1, StoresFacts
<1>5. \A u \in Tasks : At(u, "idle")
  BY <1>4 DEF Clean
<1>6. AuditStore(store')
  BY <1>0, <1>3, <1>4, RollbackAudit DEF Clean
<1>7. store'.tx_buffer = store.tx_buffer
  BY <1>0, <1>4, RollbackStore DEF StoreType
<1>8. call' = call /\ client_tx' = client_tx
  BY DEF Replay
<1>9. \A u \in Tasks : Free(u)' /\ ~Holds(u)
  BY <1>5, <1>8 DEF Free, Holds, At
<1>10. HoldersApart'
  BY <1>7, <1>8, <1>9 DEF AuditAll, TasksAudited, HoldersApart, Free, StagedBy
<1>11. StepsOwned'
  BY <1>5, <1>7 DEF AuditAll, TasksAudited, StepsOwned, At
<1>12. \A u \in Tasks : Auditing(u)'
  BY <1>9, FreeAuditingNext
<1> QED BY <1>6, <1>10, <1>11, <1>12 DEF AuditAll, TasksAudited

(* A restart loses what was staged, and all the calls at work with it. *)
LEMMA RestartAudit ==
  ASSUME EngineType, AuditAll, Restart, Clean'
  PROVE  AuditAll'
<1> DEFINE s == Reopen(store)
           more == Blind(s)
<1>1. Stores(s, more)
  BY DEF Restart
<1>2. StoreType(store) /\ StoreType(s) /\ s.tx_buffer = {}
  BY EngineFacts, ReopenType
<1>3. AuditRows(s)
  BY <1>2, ReopenAudit DEF AuditAll, AuditStore
<1>4. "blind" \notin more => Visible(s)
  <2> HIDE DEF s
  <2> QED BY <1>2, HighestVisible DEF Blind
<1> HIDE DEF s, more
<1>5. store' = s /\ more \subseteq departures'
  BY <1>1, StoresFacts
<1>6. AuditStore(store')
  BY <1>3, <1>4, <1>5 DEF Clean, AuditStore
<1>7. \A u \in Tasks : call'[u].pc = "idle"
  BY DEF Restart, NoCall
<1>8. \A u \in Tasks : Free(u)'
  BY <1>7, FreePc
<1>9. client_tx' = 0 /\ store'.tx_buffer = {}
  BY <1>2, <1>5 DEF Restart
<1>10. HoldersApart' /\ StepsOwned'
  BY <1>8, <1>9 DEF HoldersApart, StepsOwned, Free
<1>11. \A u \in Tasks : Auditing(u)'
  BY <1>8, FreeAuditingNext
<1> QED BY <1>6, <1>10, <1>11 DEF AuditAll, TasksAudited

(* Another client commits, or fails to. *)
LEMMA ClientCommitAudit ==
  ASSUME encryption_at_rest, EngineType, AuditAll, ClientCommit, Clean'
  PROVE  AuditAll'
<1>1. /\ AuditStore(store') /\ EntriesIn(store, store')
      /\ store'.tx_buffer = store.tx_buffer \ StagedBy(store, client_tx)
  BY CommitsAudit DEF ClientCommit
<1>2. TasksAudited'
  BY <1>1, ClientDrains DEF AuditAll, ClientCommit
<1> QED BY <1>1, <1>2 DEF AuditAll

(* Another client puts. *)
LEMMA ClientPutAudit ==
  ASSUME EngineType, AuditAll, ClientPut, Clean'
  PROVE  AuditAll'
<1> DEFINE key == ClientKey(count["client_write"])
           e == [tx |-> next_tx, key |-> key, val |-> <<>>]
<1>1. key[1] = "client"
  BY KeyKinds
<1>2. /\ Stores(Put(store, next_tx, key, <<>>), Mixed(next_tx))
      /\ next_tx' = next_tx + 1 /\ client_tx = 0 /\ client_tx' = next_tx
      /\ call' = call /\ ctx' = ctx
  BY DEF ClientPut
<1> HIDE DEF key
<1>3. /\ AuditStore(store') /\ EntriesIn(store, store') /\ StagedBy(store, next_tx) = {}
      /\ store'.tx_buffer = store.tx_buffer \cup {e}
  BY <1>1, <1>2, PutsAudit
<1>4. e.tx = next_tx /\ e.key = key
  OBVIOUS
<1>5. next_tx' \in Nat /\ next_tx <= next_tx'
  BY <1>2, NextTxGrows
<1> HIDE DEF e
<1>6. TasksAudited'
  BY <1>1, <1>2, <1>3, <1>4, <1>5, ClientPuts DEF AuditAll
<1> QED BY <1>3, <1>6 DEF AuditAll

(* A flush by another commit. *)
LEMMA MemtableFullAudit ==
  ASSUME EngineType, AuditAll, MemtableFull
  PROVE  AuditAll'
<1>1. store' = Flush(store)
  BY StoresFacts DEF MemtableFull
<1>2. /\ AuditStore(store') /\ EntriesIn(store, store')
      /\ store'.tx_buffer = store.tx_buffer
  BY <1>1, FlushStep
<1>3. StagedBy(store, INTERNAL_BASE) = {}
  BY EngineFacts, NothingInternal
<1>4. store'.tx_buffer = store.tx_buffer \ StagedBy(store, INTERNAL_BASE)
  BY <1>2, <1>3
<1>5. TasksAudited'
  BY <1>2, <1>3, <1>4, ClientDrains DEF AuditAll, MemtableFull
<1> QED BY <1>2, <1>5 DEF AuditAll

\* A step that leaves the tasks, the store and the client alone.
LEMMA StutterAudit ==
  ASSUME EngineType, AuditAll, UNCHANGED <<store, call, ctx, client_tx, next_tx>>
  PROVE  AuditAll'
<1>1. AuditStore(store') /\ EntriesIn(store, store')
  BY DEF AuditAll, EntriesIn
<1>2. StagedBy(store, INTERNAL_BASE) = {}
  BY EngineFacts, NothingInternal
<1>3. store'.tx_buffer = store.tx_buffer \ StagedBy(store, INTERNAL_BASE)
  BY <1>2
<1>4. TasksAudited'
  BY <1>1, <1>2, <1>3, ClientDrains DEF AuditAll
<1> QED BY <1>1, <1>4 DEF AuditAll

(* Every step keeps the store's and the calls' part, if no departure comes with it. *)
LEMMA NextAudit ==
  ASSUME encryption_at_rest, EngineType, AuditAll, [Next]_vars, Clean'
  PROVE  AuditAll'
<1>1. ASSUME NEW t \in Tasks, Turn(t) \/ Run(t) PROVE AuditAll'
  <2>1. CASE \/ Run(t) \/ RecoverRead(t) \/ LimitReached(t) \/ Decide(t) \/ StepBegin(t)
             \/ CheckpointRead(t) \/ Reserve(t) \/ ToolOk(t) \/ ToolError(t)
             \/ ToolTimeout(t) \/ RetryRefused(t) \/ Advance(t)
    <3>1. /\ OnlyMoves(t) /\ Free(t)' /\ ~At(t, "commit_put")
          /\ UNCHANGED <<store, next_tx, client_tx>>
      BY <2>1, QuietSteps
    <3> QED BY <3>1, QuietAudit
  <2>2. CASE RecoverOrphan(t)
    BY <2>2, RecoverOrphanAudit
  <2>3. CASE CheckpointSave(t)
    BY <2>3, CheckpointSaveAudit
  <2>4. CASE LetterPut(t) \/ LetterCommit(t)
    BY <2>4, LetterPutAudit, LetterCommitAudit
  <2>5. CASE AuditPut(t) \/ AuditCommit(t)
    BY <2>5, AuditPutAudit, AuditCommitAudit
  <2>6. CASE StepPut(t) \/ StepCommit(t)
    BY <2>6, StepPutAudit, StepCommitAudit
  <2>7. CASE FinalPut(t) \/ FinalCommit(t) \/ FinalFlush(t)
    BY <2>7, FinalPutAudit, StepCommitAudit, FinalFlushAudit
  <2> QED BY <1>1, <2>1, <2>2, <2>3, <2>4, <2>5, <2>6, <2>7 DEF Turn
<1>2. ASSUME NEW t \in Tasks, NEW step \in Steps, Replay(t, step) PROVE AuditAll'
  BY <1>2, ReplayAudit
<1>3. CASE ClientPut \/ ClientCommit
  BY <1>3, ClientPutAudit, ClientCommitAudit
<1>4. CASE FlushOrphans
  BY <1>4, StutterAudit DEF FlushOrphans
<1>5. CASE MemtableFull
  BY <1>5, MemtableFullAudit
<1>6. CASE Restart
  BY <1>6, RestartAudit
<1>7. CASE UNCHANGED vars
  BY <1>7, StutterAudit DEF vars, shared
<1> QED BY <1>1, <1>2, <1>3, <1>4, <1>5, <1>6, <1>7 DEF Next

(* AuditInv holds initially. *)
LEMMA InitAudit ==
  ASSUME Init
  PROVE  AuditInv
<1>1. /\ EmptyStore.log = {} /\ EmptyStore.memtable = {} /\ EmptyStore.sstables = {}
      /\ EmptyStore.tx_buffer = {} /\ Readable(EmptyStore) = {}
  BY DEF EmptyStore, Readable
<1>2. store = EmptyStore /\ client_tx = 0 /\ \A t \in Tasks : call[t].pc = "idle"
  BY DEF Init, NoCall
<1> HIDE DEF EmptyStore
<1>3. AuditStore(store)
  BY <1>1, <1>2 DEF AuditStore, AuditRows, Visible, Logged, SeqBelow, Apart, OneEntry, Paired,
     StagedFresh
<1>4. HoldersApart /\ StepsOwned
  BY <1>1, <1>2 DEF HoldersApart, StepsOwned, Holds
<1>5. \A t \in Tasks : Auditing(t)
  BY <1>2 DEF Auditing, At
<1> QED BY <1>3, <1>4, <1>5 DEF AuditInv, AuditAll, TasksAudited

(* AuditInv is inductive. *)
LEMMA AuditInvStep ==
  ASSUME encryption_at_rest, EngineType, KeepInv, AuditInv, [Next]_vars
  PROVE  AuditInv'
<1>1. SUFFICES ASSUME Clean' PROVE AuditAll'
  BY DEF AuditInv
<1>2. departures \subseteq departures'
  BY KeepInvStep
<1>3. Clean
  BY <1>1, <1>2 DEF Clean
<1> QED BY <1>1, <1>3, NextAudit DEF AuditInv

(* It implies CommittedAudited. *)
LEMMA AuditInvAudited ==
  ASSUME EngineType, AuditInv
  PROVE  CommittedAudited
<1> SUFFICES ASSUME Clean, NEW t \in Tasks, NEW step \in Steps,
                    NEW r \in Rows(store), r.key = StepKey(t, step)
             PROVE  \E q \in Rows(store) : q.key = AuditKey(t, step) /\ ~q.val.error
  BY DEF CommittedAudited, Clean
<1>1. StoreType(store) /\ AuditStore(store)
  BY EngineFacts DEF AuditInv, AuditAll
<1>2. r \in Readable(store) /\ r.key[1] = "step"
  BY ScanReadable, KeyKinds DEF Rows
<1>3. PICK a \in Readable(store) : EntryOf(a, r.key, r.tx)
  BY <1>1, <1>2 DEF AuditStore, AuditRows, Paired
<1>4. a.key = AuditKey(t, step) /\ ~a.val.error /\ a.key[1] = "audit"
  BY <1>3, AuditOfStep DEF EntryOf
<1>5. a.key \in KeysOf(store)
  <2>1. ~Internal(a)
    BY <1>1, <1>4, AuditNotInternal
  <2> QED BY <1>1, <2>1, KeysOfStored DEF KeysStored, AuditStore
<1>6. PICK q \in Rows(store) : q.key = a.key
  BY <1>5 DEF KeysOf
<1>7. q \in Readable(store)
  BY ScanReadable DEF Rows
<1>8. q = a
  BY <1>1, <1>4, <1>6, <1>7 DEF AuditStore, AuditRows, OneEntry
<1> QED BY <1>4, <1>6, <1>8

(* A step that is readable as committed has a readable audit entry of a success, for     *)
(* every store with encryption at rest and any number of tasks, steps, replays, failed   *)
(* commits and restarts: commit_step follows audit_log, and no rollback of this task, of *)
(* another or of a recovery separates the two rows.                                      *)
THEOREM AuditedTheorem ==
  ASSUME encryption_at_rest
  PROVE  Spec => []CommittedAudited
<1>1. Init => KeepInv /\ AuditInv
  BY InitKeep, InitAudit
<1>2. EngineType /\ KeepInv /\ AuditInv /\ [Next]_vars => KeepInv' /\ AuditInv'
  BY KeepInvStep, AuditInvStep
<1>3. EngineType /\ AuditInv => CommittedAudited
  BY AuditInvAudited
<1> QED BY <1>1, <1>2, <1>3, EngineTypeInvariant, PTL DEF Spec

-----------------------------------------------------------------------------

\* Sums over the steps of a task.  A sum is a recursive function of Nat; that it exists, and
\* what is true of it for every number of steps, is proved with a least counterexample.

\* g is the sum of f up to n steps.
Sums(f, n, g) ==
    g \in [0 .. n -> Nat] /\ g[0] = 0 /\ \A i \in 1 .. n : g[i] = g[i - 1] + f[i - 1]

(* There is such a sum for every number of steps. *)
LEMMA SumsExist ==
  ASSUME NEW f \in [Nat -> Nat], NEW n \in Nat
  PROVE  \E g : Sums(f, n, g)
<1> DEFINE bad == {m \in Nat : ~ \E g : Sums(f, m, g)}
<1> SUFFICES ASSUME bad # {} PROVE FALSE
  OBVIOUS
<1>1. PICK m \in bad : \A k \in bad : m <= k
  <2>1. bad \subseteq Nat
    OBVIOUS
  <2> HIDE DEF bad
  <2> QED BY <2>1, LeastExists
<1>2. CASE m = 0
  <2> DEFINE g == [i \in 0 .. 0 |-> 0]
  <2>1. g \in [0 .. 0 -> Nat] /\ g[0] = 0
    OBVIOUS
  <2>2. Sums(f, 0, g)
    <3> HIDE DEF g
    <3> QED BY <2>1 DEF Sums
  <2> QED BY <1>2, <2>2
<1>3. CASE m # 0
  <2>1. m - 1 \in Nat /\ m \in Nat
    BY <1>3
  <2>2. m - 1 \notin bad
    BY <1>1, <2>1
  <2>3. PICK g : Sums(f, m - 1, g)
    BY <2>1, <2>2
  <2> DEFINE h == [i \in 0 .. m |-> IF i = m THEN g[m - 1] + f[m - 1] ELSE g[i]]
  <2>4. ASSUME NEW i \in 0 .. m PROVE h[i] \in Nat
    <3>1. g \in [0 .. m - 1 -> Nat]
      BY <2>3 DEF Sums
    <3>2. g[m - 1] \in Nat /\ f[m - 1] \in Nat
      BY <2>1, <3>1
    <3>3. CASE i = m
      <4>1. h[i] = g[m - 1] + f[m - 1]
        BY <3>3
      <4> QED BY <3>2, <4>1
    <3>4. CASE i # m
      <4>1. i \in 0 .. m - 1 /\ h[i] = g[i]
        BY <2>1, <3>4
      <4> QED BY <3>1, <4>1
    <3> QED BY <3>3, <3>4
  <2>5. h \in [0 .. m -> Nat]
    BY <2>4
  <2>6. h[0] = 0
    BY <1>3, <2>1, <2>3 DEF Sums
  <2>7. ASSUME NEW i \in 1 .. m PROVE h[i] = h[i - 1] + f[i - 1]
    <3>1. CASE i = m
      <4>1. h[m - 1] = g[m - 1]
        BY <2>1
      <4> QED BY <2>1, <3>1, <4>1
    <3>2. CASE i # m
      <4>1. i \in 1 .. m - 1 /\ i - 1 \in 0 .. m - 1
        BY <2>1, <3>2
      <4>2. \A j \in 0 .. m : j # m => h[j] = g[j]
        OBVIOUS
      <4> HIDE DEF h
      <4>3. i \in 0 .. m /\ i - 1 \in 0 .. m /\ i - 1 # m
        BY <2>1, <4>1
      <4>4. h[i] = g[i] /\ h[i - 1] = g[i - 1]
        BY <3>2, <4>2, <4>3
      <4> QED BY <2>3, <4>1, <4>4 DEF Sums
    <3> QED BY <3>1, <3>2
  <2>8. Sums(f, m, h)
    <3> HIDE DEF h
    <3> QED BY <2>5, <2>6, <2>7 DEF Sums
  <2> QED BY <2>8
<1> QED BY <1>2, <1>3

(* Two sums agree, and a smaller function has the smaller sum. *)
LEMMA SumsLess ==
  ASSUME NEW f \in [Nat -> Nat], NEW e \in [Nat -> Nat], NEW n \in Nat, NEW m \in Nat,
         NEW k \in Nat, k <= n, k <= m, \A i \in 0 .. k - 1 : f[i] <= e[i],
         NEW g, Sums(f, n, g), NEW h, Sums(e, m, h)
  PROVE  g[k] \in Nat /\ h[k] \in Nat /\ g[k] <= h[k]
<1> DEFINE bad == {j \in 0 .. k : ~(g[j] <= h[j])}
<1>1. \A j \in 0 .. k : g[j] \in Nat /\ h[j] \in Nat
  <2>1. g \in [0 .. n -> Nat] /\ h \in [0 .. m -> Nat]
    BY DEF Sums
  <2>2. \A j \in 0 .. k : j \in 0 .. n /\ j \in 0 .. m
    OBVIOUS
  <2> QED BY <2>1, <2>2
<1> SUFFICES ASSUME bad # {} PROVE FALSE
  BY <1>1
<1>2. PICK j \in bad : \A i \in bad : j <= i
  <2>1. bad \subseteq Nat
    OBVIOUS
  <2> HIDE DEF bad
  <2> QED BY <2>1, LeastExists
<1>3. j # 0
  BY <1>2 DEF Sums
<1>4. j \in 1 .. k /\ j - 1 \in 0 .. k /\ j - 1 \in 0 .. k - 1 /\ j - 1 \notin bad
  BY <1>2, <1>3
<1>5. g[j - 1] <= h[j - 1] /\ f[j - 1] <= e[j - 1]
  BY <1>4
<1>6. g[j] = g[j - 1] + f[j - 1] /\ h[j] = h[j - 1] + e[j - 1]
  BY <1>4 DEF Sums
<1>7. j - 1 \in Nat /\ f[j - 1] \in Nat /\ e[j - 1] \in Nat
  BY <1>4
<1>8. g[j] <= h[j]
  BY <1>1, <1>4, <1>5, <1>6, <1>7
<1> QED BY <1>2, <1>8

(* Total is the sum. *)
LEMMA TotalIs ==
  ASSUME NEW f \in [Nat -> Nat], NEW n \in Nat, NEW g, Sums(f, n, g)
  PROVE  Total(f, n) = g[n]
<1> DEFINE part(m) == CHOOSE h : Sums(f, m, h)
           sum == [i \in Nat |-> part(i)[i]]
           Rec(s) == s = [i \in Nat |-> IF i = 0 THEN 0 ELSE s[i - 1] + f[i - 1]]
<1>1. \A m \in Nat : Sums(f, m, part(m))
  BY SumsExist
<1>2. \A m \in Nat, k \in Nat : k <= m => part(m)[k] = part(k)[k]
  <2> SUFFICES ASSUME NEW m \in Nat, NEW k \in Nat, k <= m
               PROVE  part(m)[k] = part(k)[k]
    OBVIOUS
  <2> DEFINE a == part(m)
             b == part(k)
  <2>1. Sums(f, m, a) /\ Sums(f, k, b)
    BY <1>1
  <2> HIDE DEF a, b
  <2>2. k <= k /\ \A i \in 0 .. k - 1 : f[i] <= f[i]
    OBVIOUS
  <2>3. a[k] \in Nat /\ b[k] \in Nat /\ a[k] <= b[k]
    BY <2>1, <2>2, SumsLess
  <2>4. b[k] <= a[k]
    BY <2>1, <2>2, SumsLess
  <2> QED BY <2>3, <2>4 DEF a, b
<1>3. Rec(sum)
  <2>1. ASSUME NEW i \in Nat PROVE sum[i] = IF i = 0 THEN 0 ELSE sum[i - 1] + f[i - 1]
    <3> DEFINE a == part(i)
    <3>1. Sums(f, i, a) /\ sum[i] = a[i]
      BY <1>1
    <3>2. ASSUME i # 0 PROVE i - 1 \in Nat /\ sum[i - 1] = a[i - 1]
      <4>1. i - 1 \in Nat /\ i - 1 <= i
        BY <3>2
      <4>2. part(i)[i - 1] = part(i - 1)[i - 1]
        BY <1>2, <4>1
      <4> QED BY <4>1, <4>2
    <3> HIDE DEF a, sum, part
    <3>3. CASE i = 0
      BY <3>1, <3>3 DEF Sums
    <3>4. CASE i # 0
      <4>1. i \in 1 .. i
        BY <3>4
      <4> QED BY <3>1, <3>2, <3>4, <4>1 DEF Sums
    <3> QED BY <3>3, <3>4
  <2>2. sum = [i \in Nat |-> sum[i]]
    OBVIOUS
  <2> HIDE DEF sum
  <2> QED BY <2>1, <2>2
<1> DEFINE S == CHOOSE s : Rec(s)
<1>4. Rec(S)
  <2> HIDE DEF sum
  <2> QED BY <1>3
<1>5. Total(f, n) = S[n]
  BY DEF Total
<1> HIDE DEF S
<1>6. \A i \in Nat : S[i] = IF i = 0 THEN 0 ELSE S[i - 1] + f[i - 1]
  BY <1>4
<1> DEFINE bad == {j \in 0 .. n : S[j] # g[j]}
<1>7. bad = {}
  <2> SUFFICES ASSUME bad # {} PROVE FALSE
    OBVIOUS
  <2>1. PICK j \in bad : \A i \in bad : j <= i
    <3>1. bad \subseteq Nat
      OBVIOUS
    <3> HIDE DEF bad
    <3> QED BY <3>1, LeastExists
  <2>2. CASE j = 0
    BY <1>6, <2>1, <2>2 DEF Sums
  <2>3. CASE j # 0
    <3>1. j \in 1 .. n /\ j - 1 \in 0 .. n /\ j - 1 \notin bad
      BY <2>1, <2>3
    <3>2. S[j - 1] = g[j - 1] /\ S[j] = S[j - 1] + f[j - 1]
      BY <1>6, <2>3, <3>1
    <3>3. g[j] = g[j - 1] + f[j - 1]
      BY <3>1 DEF Sums
    <3> QED BY <2>1, <3>2, <3>3
  <2> QED BY <2>2, <2>3
<1> QED BY <1>5, <1>7

(* The sum is a number, and one more step adds what that step took. *)
LEMMA TotalNext ==
  ASSUME NEW f \in [Nat -> Nat], NEW n \in Nat
  PROVE  /\ Total(f, n) \in Nat /\ Total(f, 0) = 0
         /\ Total(f, n + 1) = Total(f, n) + f[n]
<1>1. PICK g : Sums(f, n + 1, g)
  BY SumsExist
<1>2. PICK h : Sums(f, n, h)
  BY SumsExist
<1>3. PICK z : Sums(f, 0, z)
  BY SumsExist
<1>4. Total(f, n + 1) = g[n + 1] /\ Total(f, n) = h[n] /\ Total(f, 0) = z[0]
  BY <1>1, <1>2, <1>3, TotalIs
<1>5. n + 1 \in Nat /\ n <= n + 1 /\ n <= n /\ \A i \in 0 .. n - 1 : f[i] <= f[i]
  OBVIOUS
<1>6. g[n] \in Nat /\ h[n] \in Nat /\ g[n] <= h[n]
  BY <1>1, <1>2, <1>5, SumsLess
<1>7. h[n] <= g[n]
  BY <1>1, <1>2, <1>5, SumsLess
<1>8. g[n + 1] = g[n] + f[n]
  <2>1. n + 1 \in 1 .. n + 1 /\ (n + 1) - 1 = n
    OBVIOUS
  <2> QED BY <1>1, <2>1 DEF Sums
<1>9. z[0] = 0
  BY <1>3 DEF Sums
<1> QED BY <1>4, <1>6, <1>7, <1>8, <1>9

(* Where a function is nowhere above another, neither is its sum. *)
LEMMA TotalLess ==
  ASSUME NEW f \in [Nat -> Nat], NEW e \in [Nat -> Nat], NEW n \in Nat,
         \A i \in 0 .. n - 1 : f[i] <= e[i]
  PROVE  Total(f, n) <= Total(e, n)
<1>1. PICK g : Sums(f, n, g)
  BY SumsExist
<1>2. PICK h : Sums(e, n, h)
  BY SumsExist
<1>3. n <= n
  OBVIOUS
<1>4. g[n] <= h[n]
  BY <1>1, <1>2, <1>3, SumsLess
<1> QED BY <1>1, <1>2, <1>4, TotalIs

-----------------------------------------------------------------------------

(* The rows of a store and the writes that are staged in it. *)
Held(s) == Readable(s) \cup s.tx_buffer

\* x tokens cover the audit entries of t with ids up to c: no entry is of a step after k, and
\* some bound on the entries of each step adds up to at most x.
Covers(s, t, c, k, x) ==
    \E f \in [Nat -> Nat] :
        /\ \A r \in Held(s), i \in Nat :
              r.key = AuditKey(t, i) /\ r.tx <= c =>
                  i <= k /\ r.val.tokens \in Nat /\ r.val.tokens <= f[i]
        /\ Total(f, k + 1) <= x

(* What p holds of some kinds of key, s holds with the same id and value. *)
Below(p, s, kinds) ==
    \A r \in Held(p) : r.key[1] \in kinds =>
        \E q \in Held(s) : q.key = r.key /\ q.val = r.val /\ q.tx = r.tx

\* p came from s by operations that add no audit entry, or at most commit what is staged.
EntriesShrink(p, s) ==
    /\ Below(p, s, {"audit"})
    /\ Visible(s) => Visible(p)
    /\ \A o \in p.tx_buffer : o.key[1] = "audit" => o \in s.tx_buffer

(* The same, and no checkpoint was added, to the store or to the memtable. *)
NoneSaved(p, s) ==
    /\ Below(p, s, {"checkpoint"})
    /\ \A r \in p.memtable \cup p.tx_buffer : r.key[1] = "checkpoint" =>
          \E q \in s.memtable \cup s.tx_buffer : q.key = r.key

Shrinks(p, s) == EntriesShrink(p, s) /\ NoneSaved(p, s)

(* What is covered stays covered when there are fewer entries or more tokens. *)
LEMMA CoversLess ==
  ASSUME NEW s, NEW p, NEW t, NEW c, NEW d, NEW k \in Nat, NEW x \in Int, NEW y \in Int, x <= y,
         Covers(s, t, c, k, x),
         \A r \in Held(p), i \in Nat :
            r.key = AuditKey(t, i) /\ r.tx <= d =>
                \E q \in Held(s) : q.key = r.key /\ q.val = r.val /\ q.tx <= c
  PROVE  Covers(p, t, d, k, y)
<1>1. PICK f \in [Nat -> Nat] :
         /\ \A r \in Held(s), i \in Nat :
               r.key = AuditKey(t, i) /\ r.tx <= c =>
                   i <= k /\ r.val.tokens \in Nat /\ r.val.tokens <= f[i]
         /\ Total(f, k + 1) <= x
  BY DEF Covers
<1>2. ASSUME NEW r \in Held(p), NEW i \in Nat, r.key = AuditKey(t, i), r.tx <= d
      PROVE  i <= k /\ r.val.tokens \in Nat /\ r.val.tokens <= f[i]
  <2>1. PICK q \in Held(s) : q.key = r.key /\ q.val = r.val /\ q.tx <= c
    BY <1>2
  <2> QED BY <1>1, <1>2, <2>1
<1>3. Total(f, k + 1) <= y
  <2>1. Total(f, k + 1) \in Nat
    BY TotalNext
  <2> QED BY <1>1, <2>1
<1> QED BY <1>2, <1>3 DEF Covers

(* A step that has not begun has no entry. *)
LEMMA CoversNext ==
  ASSUME NEW s, NEW t, NEW c, NEW k \in Nat, NEW x \in Int, Covers(s, t, c, k, x)
  PROVE  Covers(s, t, c, k + 1, x)
<1>1. PICK f \in [Nat -> Nat] :
         /\ \A r \in Held(s), i \in Nat :
               r.key = AuditKey(t, i) /\ r.tx <= c =>
                   i <= k /\ r.val.tokens \in Nat /\ r.val.tokens <= f[i]
         /\ Total(f, k + 1) <= x
  BY DEF Covers
<1> DEFINE g == [f EXCEPT ![k + 1] = 0]
<1>2. g \in [Nat -> Nat] /\ g[k + 1] = 0 /\ \A i \in Nat : i # k + 1 => g[i] = f[i]
  OBVIOUS
<1> HIDE DEF g
<1>3. \A i \in 0 .. (k + 1) - 1 : g[i] <= f[i]
  BY <1>2
<1>4. Total(g, k + 1) <= Total(f, k + 1)
  BY <1>2, <1>3, TotalLess
<1>5. /\ Total(g, (k + 1) + 1) = Total(g, k + 1) + g[k + 1]
      /\ Total(g, k + 1) \in Nat /\ Total(f, k + 1) \in Nat
  <2> DEFINE n == k + 1
  <2>1. n \in Nat
    OBVIOUS
  <2> HIDE DEF n
  <2>2. Total(g, n + 1) = Total(g, n) + g[n] /\ Total(g, n) \in Nat
    BY <1>2, <2>1, TotalNext
  <2>3. Total(f, n) \in Nat
    BY <2>1, TotalNext
  <2> QED BY <2>2, <2>3 DEF n
<1>6. Total(g, (k + 1) + 1) <= x
  BY <1>1, <1>2, <1>4, <1>5
<1>7. ASSUME NEW r \in Held(s), NEW i \in Nat, r.key = AuditKey(t, i), r.tx <= c
      PROVE  i <= k + 1 /\ r.val.tokens \in Nat /\ r.val.tokens <= g[i]
  <2>1. i <= k /\ r.val.tokens \in Nat /\ r.val.tokens <= f[i]
    BY <1>1, <1>7
  <2> QED BY <1>2, <2>1
<1> QED BY <1>2, <1>6, <1>7 DEF Covers

(* An entry of the current step, when there was none, costs what it says. *)
LEMMA CoversPut ==
  ASSUME NEW s, NEW p, NEW t, NEW c, NEW k \in Nat, NEW x \in Int, Covers(s, t, c, k, x),
         NEW e, e.key = AuditKey(t, k), e.val.tokens \in Nat,
         Held(p) \subseteq Held(s) \cup {e},
         \A r \in Held(s) : r.key # AuditKey(t, k)
  PROVE  Covers(p, t, c, k, x + e.val.tokens)
<1> DEFINE n == e.val.tokens
<1>1. PICK f \in [Nat -> Nat] :
         /\ \A r \in Held(s), i \in Nat :
               r.key = AuditKey(t, i) /\ r.tx <= c =>
                   i <= k /\ r.val.tokens \in Nat /\ r.val.tokens <= f[i]
         /\ Total(f, k + 1) <= x
  BY DEF Covers
<1> DEFINE g == [f EXCEPT ![k] = n]
<1>2. g \in [Nat -> Nat] /\ g[k] = n /\ \A i \in Nat : i # k => g[i] = f[i]
  OBVIOUS
<1> HIDE DEF g
<1>3. \A i \in 0 .. k - 1 : g[i] <= f[i]
  BY <1>2
<1>4. Total(g, k) <= Total(f, k)
  BY <1>2, <1>3, TotalLess
<1>5. /\ Total(g, k + 1) = Total(g, k) + g[k] /\ Total(f, k + 1) = Total(f, k) + f[k]
      /\ Total(g, k) \in Nat /\ Total(f, k) \in Nat /\ f[k] \in Nat
  BY <1>2, TotalNext
<1>6. Total(g, k + 1) <= x + n
  BY <1>1, <1>2, <1>4, <1>5
<1>7. ASSUME NEW r \in Held(p), NEW i \in Nat, r.key = AuditKey(t, i), r.tx <= c
      PROVE  i <= k /\ r.val.tokens \in Nat /\ r.val.tokens <= g[i]
  <2>1. CASE r = e
    <3>1. i = k
      BY <1>7, <2>1 DEF AuditKey
    <3> QED BY <1>2, <2>1, <3>1
  <2>2. CASE r \in Held(s)
    <3>1. i # k /\ i <= k /\ r.val.tokens \in Nat /\ r.val.tokens <= f[i]
      BY <1>1, <1>7, <2>2
    <3> QED BY <1>2, <3>1
  <2> QED BY <2>1, <2>2
<1> QED BY <1>2, <1>6, <1>7 DEF Covers

-----------------------------------------------------------------------------

\* What each call of the store does to the rows and the writes it holds.

(* Two operations in a row. *)
LEMMA ShrinksChain ==
  ASSUME NEW s, NEW p, NEW q, Shrinks(p, s), Shrinks(q, p)
  PROVE  Shrinks(q, s)
BY DEF Shrinks, EntriesShrink, NoneSaved, Below

(* No operation. *)
LEMMA SameShrinks ==
  ASSUME NEW s, NEW p, p = s
  PROVE  Shrinks(p, s)
BY DEF Shrinks, EntriesShrink, NoneSaved, Below

(* An operation that only removes. *)
LEMMA SubsetShrinks ==
  ASSUME NEW s, NEW p, Readable(p) \subseteq Readable(s), p.tx_buffer \subseteq s.tx_buffer,
         \A r \in p.memtable : r.key[1] = "checkpoint" => r \in s.memtable,
         Visible(s) => Visible(p)
  PROVE  Shrinks(p, s)
<1>1. Held(p) \subseteq Held(s)
  BY DEF Held
<1> QED BY <1>1 DEF Shrinks, EntriesShrink, NoneSaved, Below

(* A put of something else. *)
LEMMA PutShrinks ==
  ASSUME NEW s, StoreType(s), NEW tx, NEW key, key[1] \notin {"audit", "checkpoint"}, NEW val
  PROVE  Shrinks(Put(s, tx, key, val), s)
<1> DEFINE p == Put(s, tx, key, val)
           e == [tx |-> tx, key |-> key, val |-> val]
<1>1. Readable(p) = Readable(s) /\ (Visible(s) => Visible(p))
  BY PutKeeps
<1>2. p.tx_buffer = s.tx_buffer \cup {e} /\ p.memtable = s.memtable
  BY PutStore DEF StoreType
<1>3. e.key = key
  OBVIOUS
<1> HIDE DEF p, e
<1>4. Shrinks(p, s)
  BY <1>1, <1>2, <1>3 DEF Shrinks, EntriesShrink, NoneSaved, Below, Held
<1> QED BY <1>4 DEF p

(* The rollback of one transaction. *)
LEMMA DrainShrinks ==
  ASSUME NEW s, StoreType(s), NEW tx
  PROVE  Shrinks(Rollback(s, tx), s)
<1> DEFINE p == Rollback(s, tx)
<1>1. Readable(p) = Readable(s) /\ (Visible(s) => Visible(p))
  BY DrainKeeps
<1>2. p.tx_buffer \subseteq s.tx_buffer /\ p.memtable = s.memtable
  BY DrainStore DEF StoreType
<1> HIDE DEF p
<1>3. Shrinks(p, s)
  BY <1>1, <1>2, SubsetShrinks
<1> QED BY <1>3 DEF p

(* A commit: what was staged is stored. *)
LEMMA CommitShrinks ==
  ASSUME NEW s, StoreType(s), NEW tx
  PROVE  Shrinks(Commit(s, tx), s)
<1> DEFINE p == Commit(s, tx)
<1>1. Readable(p) = Readable(s) \cup NewRows(s, tx) /\ (Visible(s) => Visible(p))
  BY CommitKeeps
<1>2. p.tx_buffer \subseteq s.tx_buffer /\ p.memtable = s.memtable \cup NewRows(s, tx)
  BY CommitStore DEF StoreType
<1>3. ASSUME NEW r \in NewRows(s, tx)
      PROVE  \E q \in s.tx_buffer : q.key = r.key /\ q.val = r.val /\ q.tx = r.tx
  BY DEF NewRows, StagedBy
<1> HIDE DEF p
<1>4. Shrinks(p, s)
  BY <1>1, <1>2, <1>3 DEF Shrinks, EntriesShrink, NoneSaved, Below, Held
<1> QED BY <1>4 DEF p

(* rollback_to_tx. *)
LEMMA RollbackShrinks ==
  ASSUME NEW s, StoreType(s), NEW target \in Collection
  PROVE  /\ Shrinks(RollbackToTx(s, target), s)
         /\ RollbackToTx(s, target).tx_buffer = s.tx_buffer
<1> DEFINE p == RollbackToTx(s, target)
<1>1. Visible(p)
  BY RollbackVisible
<1>2. /\ p.log \subseteq s.log
      /\ \A r \in p.memtable : r \in p.log \/ (r \in UNION s.sstables /\ r.tx <= target)
      /\ \A r \in UNION p.sstables : r \in UNION s.sstables /\ r.tx <= target
      /\ p.tx_buffer = s.tx_buffer
  <2>1. IsStore(s)
    BY DEF StoreType
  <2> QED BY <2>1, RollbackStore
<1> HIDE DEF p
<1>3. Readable(p) \subseteq Readable(s)
  BY <1>2 DEF Readable, StoreType
<1>4. ASSUME NEW r \in p.memtable, r.key[1] = "checkpoint"
      PROVE  r \in s.memtable
  <2>1. r \in Readable(s)
    BY <1>3 DEF Readable
  <2>2. r.tx = INTERNAL_BASE
    BY <1>4, <2>1, StoreRows DEF InternalKinds
  <2>3. ~(r.tx <= target)
    BY <2>2, Base
  <2> QED BY <1>2, <2>3 DEF StoreType
<1>5. Shrinks(p, s)
  BY <1>1, <1>2, <1>3, <1>4, SubsetShrinks
<1> QED BY <1>2, <1>5 DEF p

(* A commit that fails. *)
LEMMA FailsShrinks ==
  ASSUME NEW s, StoreType(s), NEW tx
  PROVE  /\ Shrinks(CommitFails(s, tx), s)
         /\ CommitFails(s, tx).tx_buffer = s.tx_buffer \ StagedBy(s, tx)
<1> DEFINE d == Rollback(s, tx)
           lct == s.last_committed_tx
<1>1. Shrinks(d, s) /\ StoreType(d)
  BY DrainShrinks, DrainType
<1>2. d.tx_buffer = s.tx_buffer \ StagedBy(s, tx)
  BY DrainStore DEF StoreType
<1>3. lct \in Collection
  BY DEF StoreType
<1>4. CommitFails(s, tx) = RollbackToTx(d, lct)
  BY DEF CommitFails
<1> HIDE DEF d, lct
<1>5. /\ Shrinks(RollbackToTx(d, lct), d)
      /\ RollbackToTx(d, lct).tx_buffer = d.tx_buffer
  BY <1>1, <1>3, RollbackShrinks
<1> QED BY <1>1, <1>2, <1>4, <1>5, ShrinksChain

(* A flush. *)
LEMMA FlushShrinks ==
  ASSUME NEW s, StoreType(s)
  PROVE  Shrinks(Flush(s), s)
<1> DEFINE p == Flush(s)
<1>1. Readable(p) \subseteq Readable(s) /\ (Visible(s) => Visible(p))
  BY FlushType, FlushKeeps
<1>2. p.tx_buffer = s.tx_buffer /\ p.memtable = {}
  BY FlushStore
<1> HIDE DEF p
<1>3. Shrinks(p, s)
  BY <1>1, <1>2, SubsetShrinks
<1> QED BY <1>3 DEF p

(* The reservation of ids by the checkpoint store. *)
LEMMA ReservedShrinks ==
  ASSUME NEW s, StoreOK(s)
  PROVE  Shrinks(Reserved(s), s)
<1>1. CASE hwm_reserved
  <2>1. Reserved(s) = s
    BY <1>1 DEF Reserved
  <2> QED BY <2>1, SameShrinks
<1>2. CASE ~hwm_reserved
  <2> DEFINE e == [tx |-> INTERNAL_BASE, key |-> HwmKey, val |-> <<>>]
             a == Put(s, INTERNAL_BASE, HwmKey, <<>>)
             c == Commit(a, INTERNAL_BASE)
  <2>1. e.tx = INTERNAL_BASE /\ e.key[1] = "hwm" /\ HwmKey[1] = "hwm"
    BY DEF HwmKey
  <2>2. RowOK(e)
    <3> HIDE DEF e
    <3> QED BY <2>1 DEF RowOK, InternalKinds
  <2>3. StoreType(s) /\ StoreType(a)
    BY <2>2, InternalPut DEF StoreOK
  <2>4. Shrinks(a, s)
    BY <2>1, <2>3, PutShrinks
  <2>5. Reserved(s) = Flush(c)
    BY <1>2 DEF Reserved
  <2> HIDE DEF a
  <2>6. Shrinks(c, a) /\ StoreType(c)
    BY <2>3, CommitShrinks, CommitType
  <2> HIDE DEF c
  <2>7. Shrinks(Flush(c), c)
    BY <2>6, FlushShrinks
  <2>8. Shrinks(c, s)
    BY <2>4, <2>6, ShrinksChain
  <2> QED BY <2>5, <2>7, <2>8, ShrinksChain
<1> QED BY <1>1, <1>2

-----------------------------------------------------------------------------

(* What of the budget is consumed and neither reserved nor about to be audited. *)
Spare(c, k) == k.consumed - c.reserved - (IF c.pc = "audit" THEN c.tokens ELSE 0)

(* A context that was made by a restart and has not been replayed. *)
Waiting(c, k, restarts) == c.pc = "idle" /\ k.status = "Idle" /\ restarts > 0

\* The budget of a task covers all its audit entries, committed or not.
TaskCovered(s, t, c, k, restarts) ==
    Waiting(c, k, restarts) \/ Covers(s, t, INTERNAL_BASE, k.step, Spare(c, k))

\* The budget in a checkpoint covers the audit entries that a replay from it keeps.
CheckpointsCovered(s) ==
    \A r \in Held(s), t \in Tasks :
        r.key[1] = "checkpoint" /\ r.key[2] = t =>
            Covers(s, t, r.val.tx_id, r.val.step, r.val.consumed)

\* The checkpoints of a task are older than every transaction to come.  A restart may give
\* ids out again; but then the checkpoints are in sstables, the task has to replay, and the
\* rollback removes them.
CheckpointsOlder(s, t, c, k, restarts, n) ==
    IF Waiting(c, k, restarts)
    THEN \A r \in s.memtable \cup s.tx_buffer : ~(r.key[1] = "checkpoint" /\ r.key[2] = t)
    ELSE \A r \in Held(s) : r.key[1] = "checkpoint" /\ r.key[2] = t => r.val.tx_id < n

(* An audit entry is staged by its task only, which is about to commit it. *)
StagedOwned(s, c) ==
    \A o \in s.tx_buffer, t \in Tasks, i \in Nat :
        o.key = AuditKey(t, i) => c[t].pc \in {"audit_put", "failure_put"} /\ o.tx = c[t].tx

(* Every task is covered; a checkpoint about to be saved will be as well. *)
TasksCovered ==
    \A t \in Tasks :
        /\ TaskCovered(store, t, call[t], ctx[t], count["restart"])
        /\ call[t].pc = "save" => call[t].cp < next_tx
        /\ CheckpointsOlder(store, t, call[t], ctx[t], count["restart"], next_tx)

(* The invariant, and what it excepts. *)
BudgetAll ==
    /\ store.last_committed_tx < next_tx /\ Visible(store)
    /\ count \in [Bounded -> Nat]
    /\ StagedOwned(store, call)
    /\ CheckpointsCovered(store)
    /\ TasksCovered

Sound == {"ahead", "blind"} \cap departures = {}

BudgetInv == Sound => BudgetAll

-----------------------------------------------------------------------------

(* What is known of every step that is not a restart. *)
Steady ==
    /\ EngineType /\ EngineType' /\ BudgetAll /\ Sound'
    /\ count' \in [Bounded -> Nat] /\ count'["restart"] = count["restart"]
    /\ store'.last_committed_tx < next_tx'

\* A task moves on: it loses no token, and leaves no entry staged.
Moves(t) ==
    /\ ~Waiting(call[t], ctx[t], count["restart"])
    /\ ~Waiting(call'[t], ctx'[t], count'["restart"])
    /\ ctx'[t].step \in {ctx[t].step, ctx[t].step + 1}
    /\ Spare(call[t], ctx[t]) <= Spare(call'[t], ctx'[t])
    /\ call'[t].pc = "save" => call'[t].cp < next_tx'

Drained(t) ==
    call[t].pc \notin {"audit_put", "failure_put"} \/ StagedBy(store', call[t].tx) = {}

(* The types of what a store holds. *)
LEMMA HeldType ==
  ASSUME NEW s, StoreType(s), NEW r \in Held(s)
  PROVE  /\ RowOK(r) /\ r.tx \in Nat /\ r.tx <= INTERNAL_BASE
         /\ r.key[1] = "checkpoint" =>
               /\ r.val.tx_id \in Collection /\ r.val.tx_id \in Nat
               /\ r.val.step \in Nat /\ r.val.consumed \in Nat
<1>1. RowOK(r)
  BY DEF StoreType, Held
<1> QED BY <1>1, Base DEF RowOK

(* What is spare is an integer. *)
LEMMA SpareType ==
  ASSUME NEW c \in CallType, NEW k \in ContextType
  PROVE  Spare(c, k) \in Int /\ Spare(c, k) <= k.consumed /\ Spare(c, k) <= k.consumed - c.reserved
BY Constants DEF Spare, CallType, ContextType

(* What is covered stays covered by an operation that adds nothing. *)
LEMMA CoversShrinks ==
  ASSUME NEW s, NEW p, StoreType(s), EntriesShrink(p, s), NEW t, NEW c \in Nat, NEW k \in Nat,
         NEW x \in Int, NEW y \in Int, x <= y, Covers(s, t, c, k, x)
  PROVE  Covers(p, t, c, k, y)
<1>1. ASSUME NEW r \in Held(p), NEW i \in Nat, r.key = AuditKey(t, i), r.tx <= c
      PROVE  \E q \in Held(s) : q.key = r.key /\ q.val = r.val /\ q.tx <= c
  <2>1. r.key[1] = "audit"
    BY <1>1, KeyKinds
  <2> QED BY <1>1, <2>1 DEF EntriesShrink, Below
<1> QED BY <1>1, CoversLess

(* The checkpoints stay covered by such an operation. *)
LEMMA CheckpointsShrink ==
  ASSUME NEW s, NEW p, StoreType(s), Shrinks(p, s), CheckpointsCovered(s)
  PROVE  CheckpointsCovered(p)
<1> SUFFICES ASSUME NEW r \in Held(p), NEW t \in Tasks, r.key[1] = "checkpoint", r.key[2] = t
             PROVE  Covers(p, t, r.val.tx_id, r.val.step, r.val.consumed)
  BY DEF CheckpointsCovered
<1>1. PICK q \in Held(s) : q.key = r.key /\ q.val = r.val
  BY DEF Shrinks, NoneSaved, Below
<1>2. Covers(s, t, q.val.tx_id, q.val.step, q.val.consumed)
  BY <1>1 DEF CheckpointsCovered
<1>3. q.val.tx_id \in Nat /\ q.val.step \in Nat /\ q.val.consumed \in Nat
  BY <1>1, HeldType
<1>4. Covers(p, t, q.val.tx_id, q.val.step, q.val.consumed)
  BY <1>2, <1>3, CoversShrinks DEF Shrinks
<1> QED BY <1>1, <1>4

(* The checkpoints of a task that does not move, or that moves on, stay older than the *)
(* transactions to come.                                                               *)
LEMMA OlderShrinks ==
  ASSUME Steady, NoneSaved(store', store), next_tx <= next_tx', NEW u \in Tasks,
         (call'[u] = call[u] /\ ctx'[u] = ctx[u]) \/ Moves(u)
  PROVE  CheckpointsOlder(store', u, call'[u], ctx'[u], count'["restart"], next_tx')
<1> DEFINE w == Waiting(call[u], ctx[u], count["restart"])
           v == Waiting(call'[u], ctx'[u], count'["restart"])
<1>1. CheckpointsOlder(store, u, call[u], ctx[u], count["restart"], next_tx)
  BY DEF Steady, BudgetAll, TasksCovered
<1>2. next_tx \in Nat /\ next_tx' \in Nat /\ StoreType(store)
  BY Base DEF Steady, EngineType, CountersOK, StoreOK
<1>3. (w /\ v) \/ (~w /\ ~v)
  BY DEF Moves, Steady
<1> HIDE DEF w, v
<1>4. CASE w /\ v
  <2>1. \A r \in store.memtable \cup store.tx_buffer : ~(r.key[1] = "checkpoint" /\ r.key[2] = u)
    BY <1>1, <1>4 DEF CheckpointsOlder, w
  <2>2. \A r \in store'.memtable \cup store'.tx_buffer :
           ~(r.key[1] = "checkpoint" /\ r.key[2] = u)
    BY <2>1 DEF NoneSaved
  <2> QED BY <1>4, <2>2 DEF CheckpointsOlder, v
<1>5. CASE ~w /\ ~v
  <2>1. ASSUME NEW r \in Held(store'), r.key[1] = "checkpoint", r.key[2] = u
        PROVE  r.val.tx_id < next_tx'
    <3>1. PICK q \in Held(store) : q.key = r.key /\ q.val = r.val
      BY <2>1 DEF NoneSaved, Below
    <3>2. q.val.tx_id < next_tx
      BY <1>1, <1>5, <2>1, <3>1 DEF CheckpointsOlder, w
    <3>3. q.val.tx_id \in Nat
      BY <1>2, <2>1, <3>1, HeldType
    <3> QED BY <1>2, <3>1, <3>2, <3>3
  <2> QED BY <1>5, <2>1 DEF CheckpointsOlder, v
<1> QED BY <1>3, <1>4, <1>5

(* A task that does not move, or that moves on, stays covered. *)
LEMMA TaskShrinks ==
  ASSUME Steady, EntriesShrink(store', store), next_tx <= next_tx', NEW u \in Tasks,
         (call'[u] = call[u] /\ ctx'[u] = ctx[u]) \/ Moves(u)
  PROVE  /\ TaskCovered(store', u, call'[u], ctx'[u], count'["restart"])
         /\ call'[u].pc = "save" => call'[u].cp < next_tx'
<1> DEFINE x == Spare(call[u], ctx[u])
           y == Spare(call'[u], ctx'[u])
           k == ctx[u].step
           n == count["restart"]
           m == count'["restart"]
<1>1. /\ call[u] \in CallType /\ ctx[u] \in ContextType
      /\ call'[u] \in CallType /\ ctx'[u] \in ContextType
  BY DEF Steady, EngineType, TasksOK
<1>2. x \in Int /\ y \in Int /\ k \in Nat
  BY <1>1, SpareType DEF ContextType
<1>3. StoreType(store) /\ INTERNAL_BASE \in Nat
  BY Base DEF Steady, EngineType, StoreOK
<1>4. n = m
  BY DEF Steady
<1>5. /\ Waiting(call[u], ctx[u], n) \/ Covers(store, u, INTERNAL_BASE, k, x)
      /\ call[u].pc = "save" => call[u].cp < next_tx
  BY DEF Steady, BudgetAll, TasksCovered, TaskCovered
<1> HIDE DEF x, y, k, n, m
<1>6. CASE call'[u] = call[u] /\ ctx'[u] = ctx[u]
  <2>1. x = y
    BY <1>6 DEF x, y
  <2>2. Waiting(call[u], ctx[u], n) => Waiting(call'[u], ctx'[u], m)
    BY <1>4, <1>6 DEF Waiting
  <2>3. Covers(store, u, INTERNAL_BASE, k, x) => Covers(store', u, INTERNAL_BASE, k, y)
    BY <1>2, <1>3, <2>1, CoversShrinks
  <2>4. call'[u].pc = "save" => call'[u].cp < next_tx'
    <3>1. call[u].cp \in Nat
      BY <1>1, Base DEF CallType
    <3>2. next_tx \in Nat /\ next_tx' \in Nat
      BY Base DEF Steady, EngineType, CountersOK
    <3> QED BY <1>5, <1>6, <3>1, <3>2
  <2> QED BY <1>5, <1>6, <2>2, <2>3, <2>4 DEF TaskCovered, k, m, y
<1>7. CASE Moves(u)
  <2>1. Covers(store, u, INTERNAL_BASE, k, x) /\ x <= y /\ ctx'[u].step \in {k, k + 1}
    BY <1>5, <1>7 DEF Moves, n, x, y, k
  <2>2. Covers(store', u, INTERNAL_BASE, k, y)
    BY <1>2, <1>3, <2>1, CoversShrinks
  <2>3. Covers(store', u, INTERNAL_BASE, k + 1, y)
    BY <1>2, <2>2, CoversNext
  <2>4. Covers(store', u, INTERNAL_BASE, ctx'[u].step, y)
    BY <2>1, <2>2, <2>3
  <2> QED BY <1>7, <2>4 DEF TaskCovered, Moves, y
<1> QED BY <1>6, <1>7

(* What is staged stays owned. *)
LEMMA StagedShrinks ==
  ASSUME Steady, EntriesShrink(store', store),
         \A u \in Tasks : call'[u] = call[u] \/ Drained(u)
  PROVE  StagedOwned(store', call')
<1> SUFFICES ASSUME NEW o \in store'.tx_buffer, NEW u \in Tasks, NEW i \in Nat,
                    o.key = AuditKey(u, i)
             PROVE  call'[u].pc \in {"audit_put", "failure_put"} /\ o.tx = call'[u].tx
  BY DEF StagedOwned
<1>1. o \in store.tx_buffer
  BY KeyKinds DEF EntriesShrink
<1>2. call[u].pc \in {"audit_put", "failure_put"} /\ o.tx = call[u].tx
  BY <1>1 DEF Steady, BudgetAll, StagedOwned
<1>3. ~Drained(u)
  BY <1>2 DEF Drained, StagedBy
<1> QED BY <1>2, <1>3

(* A step by which tasks move and nothing is added to the audit log. *)
LEMMA TasksMove ==
  ASSUME Steady, EntriesShrink(store', store), CheckpointsCovered(store'),
         next_tx <= next_tx',
         \A u \in Tasks :
            /\ \/ call'[u] = call[u] /\ ctx'[u] = ctx[u]
               \/ Moves(u) /\ Drained(u)
            /\ CheckpointsOlder(store', u, call'[u], ctx'[u], count'["restart"], next_tx')
  PROVE  BudgetAll'
<1>1. Visible(store')
  BY DEF Steady, BudgetAll, EntriesShrink
<1>2. StagedOwned(store', call')
  BY StagedShrinks
<1>3. \A u \in Tasks : /\ TaskCovered(store', u, call'[u], ctx'[u], count'["restart"])
                       /\ call'[u].pc = "save" => call'[u].cp < next_tx'
  BY TaskShrinks
<1> QED BY <1>1, <1>2, <1>3 DEF Steady, BudgetAll, TasksCovered

(* The same when the checkpoints are not added to either. *)
LEMMA BudgetMoves ==
  ASSUME Steady, Shrinks(store', store), next_tx <= next_tx',
         \A u \in Tasks : \/ call'[u] = call[u] /\ ctx'[u] = ctx[u]
                          \/ Moves(u) /\ Drained(u)
  PROVE  BudgetAll'
<1>1. StoreType(store) /\ next_tx \in Nat /\ next_tx' \in Nat
  BY Base DEF Steady, EngineType, StoreOK, CountersOK
<1>2. CheckpointsCovered(store')
  BY <1>1, CheckpointsShrink DEF Steady, BudgetAll
<1>3. \A u \in Tasks :
         CheckpointsOlder(store', u, call'[u], ctx'[u], count'["restart"], next_tx')
  BY OlderShrinks DEF Shrinks
<1> QED BY <1>2, <1>3, TasksMove DEF Shrinks

-----------------------------------------------------------------------------

(* A step of one task. *)
LEMMA TaskMoves ==
  ASSUME Steady, NEW t \in Tasks, OnlyMoves(t), Moves(t), Drained(t),
         Shrinks(store', store), next_tx <= next_tx'
  PROVE  BudgetAll'
BY BudgetMoves DEF OnlyMoves

(* The types of a task's call and context. *)
LEMMA SteadyTypes ==
  ASSUME Steady, NEW t \in Tasks
  PROVE  /\ TasksOK /\ DOMAIN call = Tasks /\ DOMAIN ctx = Tasks
         /\ call[t] \in CallType /\ ctx[t] \in ContextType /\ CallOK(call[t], ctx[t])
         /\ next_tx \in Nat /\ next_tx <= next_tx
BY Base DEF Steady, EngineType, TasksOK, CountersOK

(* A step that changes neither the budget nor the reservation. *)
LEMMA MovesSame ==
  ASSUME Steady, NEW t \in Tasks, ~Waiting(call[t], ctx[t], count["restart"]),
         call'[t].reserved = call[t].reserved, call'[t].pc \notin {"audit", "save", "idle"},
         ctx'[t].step \in {ctx[t].step, ctx[t].step + 1}, ctx'[t].consumed = ctx[t].consumed
  PROVE  Moves(t)
<1>1. call[t] \in CallType /\ ctx[t] \in ContextType
  BY SteadyTypes
<1>2. call[t].tokens \in Nat /\ call[t].reserved \in Nat /\ ctx[t].consumed \in Nat
  BY <1>1, Constants DEF CallType, ContextType
<1>3. Spare(call[t], ctx[t]) <= Spare(call'[t], ctx'[t])
  BY <1>2 DEF Spare
<1> QED BY <1>3 DEF Moves, Waiting

(* A jump. *)
LEMMA MovesGoto ==
  ASSUME Steady, NEW t \in Tasks, call[t].pc # "idle", NEW pc, pc \notin {"audit", "save", "idle"},
         Goto(t, pc), ctx' = ctx
  PROVE  OnlyMoves(t) /\ Moves(t)
<1>1. TasksOK /\ DOMAIN call = Tasks /\ call[t] \in CallType
  BY SteadyTypes
<1>2. call'[t].reserved = call[t].reserved /\ call'[t].pc = pc /\ OnlyMoves(t)
  BY <1>1 DEF Goto, CallType, OnlyMoves
<1> QED BY <1>2, MovesSame DEF Waiting

(* The return of run refunds what is reserved. *)
LEMMA MovesReturns ==
  ASSUME Steady, NEW t \in Tasks, call[t].pc # "idle", NEW status, status # "Idle",
         Returns(t, status)
  PROVE  OnlyMoves(t) /\ Moves(t)
<1>1. /\ TasksOK /\ DOMAIN call = Tasks /\ DOMAIN ctx = Tasks
      /\ call[t] \in CallType /\ ctx[t] \in ContextType
  BY SteadyTypes
<1>2. call[t].tokens \in Nat /\ call[t].reserved \in Nat /\ ctx[t].consumed \in Nat
  BY <1>1, Constants DEF CallType, ContextType
<1>3. /\ call'[t] = NoCall /\ ctx'[t].consumed = ctx[t].consumed - call[t].reserved
      /\ ctx'[t].step = ctx[t].step /\ ctx'[t].status = status
  BY <1>1 DEF Returns, ContextType
<1>4. NoCall.pc = "idle" /\ NoCall.reserved = 0
  BY DEF NoCall
<1>5. Spare(call[t], ctx[t]) <= Spare(call'[t], ctx'[t])
  BY <1>2, <1>3, <1>4 DEF Spare
<1>6. OnlyMoves(t)
  BY <1>1, ReturnsMoves
<1> QED BY <1>3, <1>4, <1>5, <1>6 DEF Moves, Waiting

-----------------------------------------------------------------------------

(* A caller that replays after a restart does not run a context that waits for it. *)
LEMMA RunMoves ==
  ASSUME Steady, "run_without_replay" \notin Environment, NEW t \in Tasks, Run(t)
  PROVE  Moves(t)
<1>1. call[t] \in CallType /\ ctx[t] \in ContextType /\ DOMAIN call = Tasks /\ DOMAIN ctx = Tasks
  BY SteadyTypes
<1>2. ~Waiting(call[t], ctx[t], count["restart"])
  BY DEF Run, Waiting
<1>3. call'[t].pc = "recover" /\ call'[t].reserved = call[t].reserved
  BY <1>1 DEF Run, Goto, CallType
<1>4. /\ ctx'[t].step \in {ctx[t].step, ctx[t].step + 1}
      /\ ctx'[t].consumed = ctx[t].consumed
  BY <1>1 DEF Run, ContextType
<1> QED BY <1>2, <1>3, <1>4, MovesSame

(* A reservation is consumed and reserved at once. *)
LEMMA ReserveMoves ==
  ASSUME Steady, NEW t \in Tasks, Reserve(t)
  PROVE  Moves(t)
<1>1. call[t] \in CallType /\ ctx[t] \in ContextType /\ DOMAIN call = Tasks /\ DOMAIN ctx = Tasks
  BY SteadyTypes
<1>2. call[t].tokens \in Nat /\ call[t].reserved \in Nat /\ ctx[t].consumed \in Nat
  BY <1>1, Constants DEF CallType, ContextType
<1>3. call[t].pc = "reserve"
  BY DEF Reserve, At
<1> DEFINE e == Estimate(t)
           pc == IF NodeType[Node(t)] = "Start" /\ Node(t) \notin handler THEN "audit"
                 ELSE "failure"
<1>4. CASE call' = [call EXCEPT ![t].tokens = 0, ![t].pc = pc] /\ UNCHANGED ctx
  <2>0. pc \in {"audit", "failure"}
    OBVIOUS
  <2> HIDE DEF pc
  <2>1. /\ call'[t].pc \in {"audit", "failure"} /\ call'[t].tokens = 0
        /\ call'[t].reserved = call[t].reserved
    BY <1>1, <1>4, <2>0 DEF CallType
  <2>2. Spare(call[t], ctx[t]) <= Spare(call'[t], ctx'[t])
    BY <1>2, <1>3, <1>4, <2>1 DEF Spare
  <2> QED BY <1>3, <1>4, <2>1, <2>2 DEF Moves, Waiting
<1>5. CASE /\ Node(t) \in DOMAIN estimated_cost
           /\ call' = [call EXCEPT ![t].pc = "execute", ![t].attempt = 1, ![t].reserved = e]
           /\ ctx' = [ctx EXCEPT ![t].consumed = @ + e]
  <2>0. e \in Nat
    BY <1>5, EstimateType
  <2> HIDE DEF e
  <2>1. /\ call'[t].pc = "execute" /\ call'[t].reserved = e
        /\ ctx'[t].consumed = ctx[t].consumed + e /\ ctx'[t].step = ctx[t].step
    BY <1>1, <1>5 DEF CallType, ContextType
  <2>2. Spare(call[t], ctx[t]) <= Spare(call'[t], ctx'[t])
    BY <1>2, <1>3, <2>0, <2>1 DEF Spare
  <2> QED BY <1>3, <2>1, <2>2 DEF Moves, Waiting
<1>6. CASE call' = [call EXCEPT ![t].pc = "letter", ![t].next = "failure"] /\ UNCHANGED ctx
  <2>1. call'[t].pc = "letter" /\ call'[t].reserved = call[t].reserved
    BY <1>1, <1>6 DEF CallType
  <2> QED BY <1>3, <1>6, <2>1, MovesSame DEF Waiting
<1> QED BY <1>4, <1>5, <1>6 DEF Reserve

(* What the tool took is settled against the reservation: it is consumed until it is *)
(* audited.                                                                          *)
LEMMA ToolOkMoves ==
  ASSUME Steady, NEW t \in Tasks, ToolOk(t)
  PROVE  Moves(t)
<1>1. /\ call[t] \in CallType /\ ctx[t] \in ContextType /\ CallOK(call[t], ctx[t])
      /\ DOMAIN call = Tasks /\ DOMAIN ctx = Tasks
  BY SteadyTypes
<1>2. PICK tokens \in Tokens :
         /\ ctx' = [ctx EXCEPT ![t].consumed = Reconciled(@, call[t].reserved, tokens)]
         /\ call' = [call EXCEPT ![t] = Settled(t, tokens)]
  BY DEF ToolOk
<1>3. call[t].pc = "execute"
  BY DEF ToolOk, At
<1>4. call'[t].pc = "audit" /\ call'[t].tokens = tokens /\ call'[t].reserved = 0
  BY <1>1, <1>2 DEF Settled, CallType
<1>5. /\ ctx'[t].consumed = Reconciled(ctx[t].consumed, call[t].reserved, tokens)
      /\ ctx'[t].step = ctx[t].step
  BY <1>1, <1>2 DEF ContextType
<1>6. tokens \in Nat /\ call[t].reserved \in Nat /\ ctx[t].consumed \in Nat
  BY <1>1, Constants DEF CallType, ContextType
<1>7. Reconciled(ctx[t].consumed, call[t].reserved, tokens)
        = ctx[t].consumed + tokens - call[t].reserved
  BY <1>6 DEF Reconciled
<1>8. Spare(call[t], ctx[t]) <= Spare(call'[t], ctx'[t])
  BY <1>3, <1>4, <1>5, <1>6, <1>7 DEF Spare
<1> QED BY <1>3, <1>4, <1>5, <1>8 DEF Moves, Waiting

(* A step is done: its entry is among those that the budget covers. *)
LEMMA AdvanceMoves ==
  ASSUME Steady, NEW t \in Tasks, Advance(t)
  PROVE  Moves(t)
<1>1. call[t] \in CallType /\ ctx[t] \in ContextType /\ DOMAIN call = Tasks /\ DOMAIN ctx = Tasks
  BY SteadyTypes
<1>2. call[t].pc = "advance"
  BY DEF Advance, At
<1>3. CASE Goto(t, "failure") /\ UNCHANGED ctx
  BY <1>2, <1>3, MovesGoto
<1>4. ASSUME NEW next, ctx' = [ctx EXCEPT ![t].node = next, ![t].step = @ + 1],
             call' = [call EXCEPT ![t] = [NoCall EXCEPT !.pc = "loop"]]
      PROVE  Moves(t)
  <2>1. call'[t].pc = "loop" /\ call'[t].reserved = 0
    BY <1>1, <1>4 DEF NoCall
  <2>2. ctx'[t].step = ctx[t].step + 1 /\ ctx'[t].consumed = ctx[t].consumed
    BY <1>1, <1>4 DEF ContextType
  <2>3. call[t].tokens \in Nat /\ call[t].reserved \in Nat /\ ctx[t].consumed \in Nat
    BY <1>1, Constants DEF CallType, ContextType
  <2>4. Spare(call[t], ctx[t]) <= Spare(call'[t], ctx'[t])
    BY <2>1, <2>2, <2>3 DEF Spare
  <2> QED BY <1>2, <2>1, <2>2, <2>4 DEF Moves, Waiting
<1> QED BY <1>3, <1>4 DEF Advance

(* A checkpoint reads a last_committed_tx that is below the ids to come. *)
LEMMA CheckpointReadMoves ==
  ASSUME Steady, NEW t \in Tasks, CheckpointRead(t)
  PROVE  Moves(t)
<1>1. call[t] \in CallType /\ ctx[t] \in ContextType /\ DOMAIN call = Tasks /\ DOMAIN ctx = Tasks
  BY SteadyTypes
<1>2. call[t].pc = "checkpoint" /\ UNCHANGED <<store, next_tx, ctx>>
  BY DEF CheckpointRead, At, shared
<1>3. /\ call'[t].pc = "save" /\ call'[t].reserved = call[t].reserved
      /\ call'[t].cp = store.last_committed_tx
  BY <1>1 DEF CheckpointRead, CallType
<1>4. call'[t].cp < next_tx'
  BY <1>2, <1>3 DEF Steady
<1>5. call[t].tokens \in Nat /\ call[t].reserved \in Nat /\ ctx[t].consumed \in Nat
  BY <1>1, Constants DEF CallType, ContextType
<1>6. Spare(call[t], ctx[t]) <= Spare(call'[t], ctx'[t])
  BY <1>2, <1>3, <1>5 DEF Spare
<1> QED BY <1>2, <1>3, <1>4, <1>6 DEF Moves, Waiting

(* The other steps that do not reach the store. *)
LEMMA PlainMoves ==
  ASSUME Steady, NEW t \in Tasks,
         \/ RecoverRead(t) \/ LimitReached(t) \/ Decide(t) \/ StepBegin(t)
         \/ ToolError(t) \/ ToolTimeout(t) \/ RetryRefused(t)
  PROVE  Moves(t)
<1>1. call[t] \in CallType /\ ctx[t] \in ContextType /\ DOMAIN call = Tasks /\ DOMAIN ctx = Tasks
  BY SteadyTypes
<1>2. call[t].pc \in {"recover", "loop", "execute"}
  BY DEF RecoverRead, LimitReached, Decide, StepBegin, ToolError, ToolTimeout, RetryRefused, At
<1>3. call'[t].reserved = call[t].reserved /\ call'[t].pc \notin {"audit", "save", "idle"}
  <2>1. CASE RecoverRead(t)
    BY <1>1, <2>1 DEF RecoverRead, CallType
  <2>2. CASE LimitReached(t)
    BY <1>1, <2>2 DEF LimitReached, Goto, CallType
  <2>3. CASE Decide(t)
    BY <1>1, <1>2, <2>3 DEF Decide, Goto, CallType
  <2>4. CASE StepBegin(t)
    BY <1>1, <2>4 DEF StepBegin, CallType
  <2>5. CASE ToolError(t)
    BY <1>1, <1>2, <2>5 DEF ToolError, CallType
  <2>6. CASE ToolTimeout(t)
    BY <1>1, <1>2, <2>6 DEF ToolTimeout, CallType
  <2>7. CASE RetryRefused(t)
    BY <1>1, <2>7 DEF RetryRefused, CallType
  <2> QED BY <2>1, <2>2, <2>3, <2>4, <2>5, <2>6, <2>7
<1>4. ctx'[t].step = ctx[t].step /\ ctx'[t].consumed = ctx[t].consumed
  BY <1>1 DEF RecoverRead, LimitReached, Decide, StepBegin, ToolError, ToolTimeout,
     RetryRefused, ContextType
<1> QED BY <1>2, <1>3, <1>4, MovesSame DEF Waiting

(* The steps of a task that do not reach the store. *)
LEMMA QuietBudget ==
  ASSUME Steady, "run_without_replay" \notin Environment, NEW t \in Tasks,
         \/ Run(t) \/ RecoverRead(t) \/ LimitReached(t) \/ Decide(t) \/ StepBegin(t)
         \/ CheckpointRead(t) \/ Reserve(t) \/ ToolOk(t) \/ ToolError(t)
         \/ ToolTimeout(t) \/ RetryRefused(t) \/ Advance(t)
  PROVE  BudgetAll'
<1>1. EngineType /\ next_tx \in Nat
  BY SteadyTypes DEF Steady
<1>2. OnlyMoves(t) /\ UNCHANGED <<store, next_tx>>
  BY <1>1, QuietSteps
<1>3. Moves(t)
  BY RunMoves, ReserveMoves, ToolOkMoves, AdvanceMoves, CheckpointReadMoves, PlainMoves
<1>4. call[t].pc \notin {"audit_put", "failure_put"}
  BY DEF Run, RecoverRead, LimitReached, Decide, StepBegin, CheckpointRead, Reserve, ToolOk,
     ToolError, ToolTimeout, RetryRefused, Advance, At
<1>5. Shrinks(store', store)
  BY <1>2, SameShrinks
<1> QED BY <1>1, <1>2, <1>3, <1>4, <1>5, TaskMoves DEF Drained

-----------------------------------------------------------------------------

(* A commit, or its failure, adds nothing and leaves nothing of its id staged. *)
LEMMA CommitsShrinks ==
  ASSUME EngineType, NEW tx, Commits(tx) \/ CommitError(tx)
  PROVE  Shrinks(store', store) /\ StagedBy(store', tx) = {}
<1>1. StoreType(store) /\ IsStore(store)
  BY DEF EngineType, StoreOK, StoreType
<1>2. CASE Commits(tx)
  <2>1. store' = Commit(store, tx)
    BY <1>2, StoresFacts DEF Commits
  <2>2. store'.tx_buffer = store.tx_buffer \ StagedBy(store, tx)
    BY <1>1, <2>1, CommitStore
  <2> QED BY <1>1, <2>1, <2>2, CommitShrinks DEF StagedBy
<1>3. CASE CommitError(tx)
  <2>1. store' = CommitFails(store, tx)
    BY <1>3, StoresFacts DEF CommitError
  <2>2. store'.tx_buffer = store.tx_buffer \ StagedBy(store, tx)
    BY <1>1, <2>1, FailsShrinks
  <2> QED BY <1>1, <2>1, <2>2, FailsShrinks DEF StagedBy
<1> QED BY <1>2, <1>3

(* A task commits what it has put, or fails to. *)
LEMMA CommitBudget ==
  ASSUME Steady, NEW t \in Tasks,
         LetterCommit(t) \/ AuditCommit(t) \/ StepCommit(t) \/ FinalCommit(t)
  PROVE  BudgetAll'
<1>0. EngineType /\ CallOK(call[t], ctx[t]) /\ next_tx \in Nat
  BY SteadyTypes DEF Steady
<1>1. /\ Commits(call[t].tx) \/ CommitError(call[t].tx)
      /\ next_tx' = next_tx
      /\ call[t].pc \in {"letter_put", "audit_put", "failure_put", "commit_put", "final_put"}
  BY DEF LetterCommit, AuditCommit, StepCommit, FinalCommit, At
<1>2. Shrinks(store', store) /\ Drained(t)
  BY <1>0, <1>1, CommitsShrinks DEF Drained
<1>3. OnlyMoves(t) /\ Moves(t)
  <2>1. CASE LetterCommit(t)
    <3>1. Goto(t, call[t].next) /\ ctx' = ctx /\ call[t].next \notin {"audit", "save", "idle"}
      BY <1>0, <2>1 DEF LetterCommit, At, CallOK
    <3> QED BY <1>1, <3>1, MovesGoto
  <2>2. CASE Returns(t, "Failed")
    BY <1>1, <2>2, MovesReturns
  <2>3. CASE Goto(t, "commit") /\ ctx' = ctx
    BY <1>1, <2>3, MovesGoto
  <2>4. CASE Goto(t, "advance") /\ ctx' = ctx
    BY <1>1, <2>4, MovesGoto
  <2>5. CASE Goto(t, "flush") /\ ctx' = ctx
    BY <1>1, <2>5, MovesGoto
  <2> QED BY <2>1, <2>2, <2>3, <2>4, <2>5 DEF AuditCommit, StepCommit, FinalCommit
<1> QED BY <1>0, <1>1, <1>2, <1>3, TaskMoves

(* A task puts a letter, a step or a final state. *)
LEMMA PutBudget ==
  ASSUME Steady, NEW t \in Tasks, LetterPut(t) \/ StepPut(t) \/ FinalPut(t)
  PROVE  BudgetAll'
<1>0. /\ call[t] \in CallType /\ ctx[t] \in ContextType /\ next_tx \in Nat /\ StoreType(store)
      /\ DOMAIN call = Tasks /\ DOMAIN ctx = Tasks
  BY SteadyTypes DEF Steady, EngineType, StoreOK
<1>1. /\ call[t].pc \in {"letter", "commit", "loop"} /\ next_tx <= next_tx'
  BY <1>0 DEF LetterPut, StepPut, FinalPut, At
<1>2. Shrinks(store', store)
  <2>1. CASE LetterPut(t)
    <3>1. LetterKey(t, Node(t), ctx[t].step)[1] \notin {"audit", "checkpoint"}
      BY KeyKinds
    <3> QED BY <1>0, <2>1, <3>1, PutShrinks, StoresFacts DEF LetterPut
  <2>2. CASE StepPut(t)
    <3>1. StepKey(t, ctx[t].step)[1] \notin {"audit", "checkpoint"}
      BY KeyKinds
    <3> QED BY <1>0, <2>2, <3>1, PutShrinks, StoresFacts DEF StepPut
  <2>3. CASE FinalPut(t)
    <3>1. FinalKey(t)[1] \notin {"audit", "checkpoint"}
      BY KeyKinds
    <3> QED BY <1>0, <2>3, <3>1, PutShrinks, StoresFacts DEF FinalPut
  <2> QED BY <2>1, <2>2, <2>3
<1>3. OnlyMoves(t)
  BY <1>0 DEF LetterPut, StepPut, FinalPut, OnlyMoves
<1>4. /\ call'[t].reserved = call[t].reserved
      /\ call'[t].pc \in {"letter_put", "commit_put", "final_put"}
      /\ ctx'[t].step = ctx[t].step /\ ctx'[t].consumed = ctx[t].consumed
  BY <1>0 DEF LetterPut, StepPut, FinalPut, CallType, ContextType
<1>5. Moves(t)
  BY <1>1, <1>4, MovesSame DEF Waiting
<1> QED BY <1>1, <1>2, <1>3, <1>5, TaskMoves DEF Drained

(* The flush at an End node. *)
LEMMA FinalFlushBudget ==
  ASSUME Steady, NEW t \in Tasks, FinalFlush(t)
  PROVE  BudgetAll'
<1>0. StoreType(store) /\ next_tx \in Nat
  BY SteadyTypes DEF Steady, EngineType, StoreOK
<1>1. /\ call[t].pc = "flush" /\ next_tx' = next_tx /\ Goto(t, "checkpoint") /\ ctx' = ctx
      /\ store' = Flush(store)
  BY StoresFacts DEF FinalFlush, At
<1>2. OnlyMoves(t) /\ Moves(t)
  BY <1>1, MovesGoto
<1>3. Shrinks(store', store)
  BY <1>0, <1>1, FlushShrinks
<1> QED BY <1>0, <1>1, <1>2, <1>3, TaskMoves DEF Drained

(* An orphan is rolled back to, or is not. *)
LEMMA RecoverOrphanBudget ==
  ASSUME Steady, NEW t \in Tasks, RecoverOrphan(t)
  PROVE  BudgetAll'
<1> DEFINE cp == Head(call[t].todo)
           rest == Tail(call[t].todo)
<1>0. /\ StoreType(store) /\ next_tx \in Nat /\ DOMAIN call = Tasks
      /\ call[t] \in CallType /\ CallOK(call[t], ctx[t])
  BY SteadyTypes DEF Steady, EngineType, StoreOK
<1>1. call[t].pc = "recovering" /\ next_tx' = next_tx /\ ctx' = ctx
  BY DEF RecoverOrphan, At
<1>2. cp \in Collection
  BY <1>0, <1>1 DEF CallType, CallOK
<1>3. store' = store \/ store' = RollbackToTx(store, cp)
  BY StoresFacts DEF RecoverOrphan
<1>4. call' = [call EXCEPT ![t].todo = rest,
                           ![t].pc = IF rest = <<>> THEN "loop" ELSE "recovering"]
  BY DEF RecoverOrphan
<1> HIDE DEF cp, rest
<1>5. Shrinks(store', store)
  <2>1. CASE store' = store
    BY <2>1, SameShrinks
  <2>2. CASE store' = RollbackToTx(store, cp)
    BY <1>0, <1>2, <2>2, RollbackShrinks
  <2> QED BY <1>3, <2>1, <2>2
<1>6. /\ OnlyMoves(t) /\ call'[t].reserved = call[t].reserved
      /\ call'[t].pc \in {"loop", "recovering"}
  BY <1>0, <1>1, <1>4 DEF OnlyMoves, CallType
<1>7. Moves(t)
  BY <1>1, <1>6, MovesSame DEF Waiting
<1> QED BY <1>0, <1>1, <1>5, <1>6, <1>7, TaskMoves DEF Drained

(* A step of no task. *)
LEMMA SharedBudget ==
  ASSUME Steady, UNCHANGED <<call, ctx>>, Shrinks(store', store), next_tx <= next_tx'
  PROVE  BudgetAll'
BY BudgetMoves

(* Steps of the other clients, the flushes, and no step. *)
LEMMA OthersBudget ==
  ASSUME Steady, ClientPut \/ ClientCommit \/ FlushOrphans \/ MemtableFull \/ UNCHANGED vars
  PROVE  BudgetAll'
<1>0. EngineType /\ StoreType(store) /\ next_tx \in Nat
  BY Base DEF Steady, EngineType, StoreOK, CountersOK
<1>1. UNCHANGED <<call, ctx>> /\ next_tx <= next_tx'
  BY <1>0 DEF ClientPut, ClientCommit, FlushOrphans, MemtableFull, vars, shared
<1>2. Shrinks(store', store)
  <2>1. CASE ClientPut
    <3>1. ClientKey(count["client_write"])[1] \notin {"audit", "checkpoint"}
      BY KeyKinds
    <3> QED BY <1>0, <2>1, <3>1, PutShrinks, StoresFacts DEF ClientPut
  <2>2. CASE ClientCommit
    BY <1>0, <2>2, CommitsShrinks DEF ClientCommit
  <2>3. CASE FlushOrphans \/ UNCHANGED vars
    BY <2>3, SameShrinks DEF FlushOrphans, vars, shared
  <2>4. CASE MemtableFull
    BY <1>0, <2>4, FlushShrinks, StoresFacts DEF MemtableFull
  <2> QED BY <2>1, <2>2, <2>3, <2>4
<1> QED BY <1>1, <1>2, SharedBudget

-----------------------------------------------------------------------------

(* A key that is absent is neither staged nor stored, in a store in which all is visible. *)
LEMMA AbsentHeld ==
  ASSUME NEW s, StoreType(s), Visible(s), NEW t, NEW i, Absent(s, AuditKey(t, i))
  PROVE  \A r \in Held(s) : r.key # AuditKey(t, i)
<1> SUFFICES ASSUME NEW r \in Held(s), r.key = AuditKey(t, i)
             PROVE  FALSE
  OBVIOUS
<1>1. r \in Readable(s)
  BY DEF Held, Absent
<1>2. ~Internal(r)
  BY <1>1, KeyKinds, StoreRows DEF InternalKinds
<1>3. r.tx <= s.last_committed_tx
  BY <1>1, <1>2 DEF Visible
<1> QED BY <1>1, <1>3 DEF Readable, Absent, Found

\* An audit entry is staged: its tokens were consumed before.  Checkpoints have lower ids.
LEMMA AuditStaged ==
  ASSUME Steady, NEW t \in Tasks, OnlyMoves(t), next_tx' = next_tx + 1,
         NEW row, row.tokens \in Nat,
         Absent(store, AuditKey(t, ctx[t].step)),
         store' = Put(store, next_tx, AuditKey(t, ctx[t].step), row),
         call[t].pc \in {"audit", "failure"}, call'[t].pc \in {"audit_put", "failure_put"},
         call'[t].tx = next_tx, ctx'[t] = ctx[t],
         Spare(call[t], ctx[t]) + row.tokens <= Spare(call'[t], ctx'[t])
  PROVE  BudgetAll'
<1> DEFINE k == ctx[t].step
           key == AuditKey(t, k)
           e == [tx |-> next_tx, key |-> key, val |-> row]
           x == Spare(call[t], ctx[t])
           y == Spare(call'[t], ctx'[t])
<1>1. /\ call[t] \in CallType /\ ctx[t] \in ContextType
      /\ call'[t] \in CallType /\ ctx'[t] \in ContextType
      /\ StoreType(store) /\ StoreType(store') /\ IsStore(store) /\ next_tx \in Nat
  BY SteadyTypes DEF Steady, EngineType, TasksOK, StoreOK, StoreType
<1>2. k \in Nat /\ x \in Int /\ y \in Int /\ INTERNAL_BASE \in Nat
  BY <1>1, SpareType, Base DEF ContextType
<1>3. /\ Readable(store') = Readable(store) /\ Visible(store')
      /\ store'.tx_buffer = store.tx_buffer \cup {e}
  BY <1>1, PutKeeps, PutStore DEF Steady, BudgetAll
<1>4. e.tx = next_tx /\ e.key = AuditKey(t, k) /\ e.val = row
  OBVIOUS
<1>5. \A r \in Held(store) : r.key # AuditKey(t, k)
  BY <1>1, AbsentHeld DEF Steady, BudgetAll
<1>6. Covers(store, t, INTERNAL_BASE, k, x) /\ x + row.tokens <= y
  BY DEF Steady, BudgetAll, TasksCovered, TaskCovered, Waiting
<1> HIDE DEF k, key, e, x, y
<1>7. Held(store') = Held(store) \cup {e}
  BY <1>3 DEF Held
<1>8. Covers(store', t, INTERNAL_BASE, k, y)
  <2>1. Covers(store', t, INTERNAL_BASE, k, x + row.tokens)
    <3>1. e.val.tokens \in Nat /\ Held(store') \subseteq Held(store) \cup {e}
      BY <1>4, <1>7
    <3>2. Covers(store', t, INTERNAL_BASE, k, x + e.val.tokens)
      BY <1>2, <1>4, <1>5, <1>6, <3>1, CoversPut
    <3> QED BY <1>4, <3>2
  <2>2. x + row.tokens \in Int
    BY <1>2
  <2>3. \A r \in Held(store'), i \in Nat :
           r.key = AuditKey(t, i) /\ r.tx <= INTERNAL_BASE =>
               \E q \in Held(store') : q.key = r.key /\ q.val = r.val /\ q.tx <= INTERNAL_BASE
    OBVIOUS
  <2> QED BY <1>2, <1>6, <2>1, <2>2, <2>3, CoversLess
<1>9. ASSUME NEW u \in Tasks, NEW c \in Nat, NEW j \in Nat, NEW z \in Int,
             u # t \/ c < next_tx, Covers(store, u, c, j, z)
      PROVE  Covers(store', u, c, j, z)
  <2>1. ASSUME NEW r \in Held(store'), NEW i \in Nat, r.key = AuditKey(u, i), r.tx <= c
        PROVE  \E q \in Held(store) : q.key = r.key /\ q.val = r.val /\ q.tx <= c
    <3>1. r # e
      BY <1>1, <1>4, <1>9, <2>1 DEF AuditKey
    <3> QED BY <1>7, <2>1, <3>1
  <2>2. z <= z
    OBVIOUS
  <2> QED BY <1>9, <2>1, <2>2, CoversLess
<1>10. CheckpointsCovered(store')
  <2> SUFFICES ASSUME NEW r \in Held(store'), NEW u \in Tasks, r.key[1] = "checkpoint",
                      r.key[2] = u
               PROVE  Covers(store', u, r.val.tx_id, r.val.step, r.val.consumed)
    BY DEF CheckpointsCovered
  <2>1. r \in Held(store)
    BY <1>4, <1>7, KeyKinds
  <2>2. Covers(store, u, r.val.tx_id, r.val.step, r.val.consumed)
    BY <2>1 DEF Steady, BudgetAll, CheckpointsCovered
  <2>3. r.val.tx_id \in Nat /\ r.val.step \in Nat /\ r.val.consumed \in Int
    BY <1>1, <2>1, HeldType
  <2>4. CASE u # t
    BY <1>9, <2>2, <2>3, <2>4
  <2>5. CASE u = t
    <3>1. ~Waiting(call[t], ctx[t], count["restart"])
      BY DEF Waiting
    <3>2. r.val.tx_id < next_tx
      BY <2>1, <2>5, <3>1 DEF Steady, BudgetAll, TasksCovered, CheckpointsOlder
    <3> QED BY <1>9, <2>2, <2>3, <3>2
  <2> QED BY <2>4, <2>5
<1>11. StagedOwned(store', call')
  <2> SUFFICES ASSUME NEW o \in store'.tx_buffer, NEW u \in Tasks, NEW i \in Nat,
                      o.key = AuditKey(u, i)
               PROVE  call'[u].pc \in {"audit_put", "failure_put"} /\ o.tx = call'[u].tx
    BY DEF StagedOwned
  <2>1. CASE o = e
    <3>1. u = t
      BY <1>4, <2>1 DEF AuditKey
    <3> QED BY <1>4, <2>1, <3>1
  <2>2. CASE o \in store.tx_buffer
    <3>1. call[u].pc \in {"audit_put", "failure_put"} /\ o.tx = call[u].tx
      BY <2>2 DEF Steady, BudgetAll, StagedOwned
    <3>2. u # t
      BY <3>1
    <3> QED BY <3>1, <3>2 DEF OnlyMoves
  <2> QED BY <1>3, <2>1, <2>2
<1>12. ASSUME NEW u \in Tasks
       PROVE  /\ TaskCovered(store', u, call'[u], ctx'[u], count'["restart"])
              /\ call'[u].pc = "save" => call'[u].cp < next_tx'
              /\ CheckpointsOlder(store', u, call'[u], ctx'[u], count'["restart"], next_tx')
  <2>0. CheckpointsOlder(store', u, call'[u], ctx'[u], count'["restart"], next_tx')
    <3>1. store'.memtable = store.memtable
      BY <1>1, PutStore
    <3>2. NoneSaved(store', store)
      BY <1>3, <1>4, <1>7, <3>1, KeyKinds DEF NoneSaved, Below
    <3>3. next_tx <= next_tx'
      BY <1>1
    <3>4. x <= y
      <4> DEFINE n == row.tokens
      <4>1. n \in Nat /\ x + n <= y
        BY <1>6
      <4> HIDE DEF n
      <4> QED BY <1>2, <4>1
    <3>5. Moves(t)
      BY <3>4 DEF Moves, Waiting, x, y
    <3> QED BY <3>2, <3>3, <3>5, OlderShrinks DEF OnlyMoves
  <2>1. CASE u = t
    BY <1>8, <2>0, <2>1 DEF TaskCovered, k, y
  <2>2. CASE u # t
    <3>1. call'[u] = call[u] /\ ctx'[u] = ctx[u]
      BY <2>2 DEF OnlyMoves
    <3>2. call[u] \in CallType /\ ctx[u] \in ContextType
      BY SteadyTypes
    <3>3. /\ TaskCovered(store, u, call[u], ctx[u], count["restart"])
          /\ call[u].pc = "save" => call[u].cp < next_tx
      BY DEF Steady, BudgetAll, TasksCovered
    <3>4. ctx[u].step \in Nat /\ Spare(call[u], ctx[u]) \in Int /\ call[u].cp \in Nat
      BY <3>2, SpareType, Base DEF ContextType, CallType
    <3>5. count'["restart"] = count["restart"]
      BY DEF Steady
    <3>6. CASE Waiting(call[u], ctx[u], count["restart"])
      <4>1. Waiting(call'[u], ctx'[u], count'["restart"])
        BY <3>1, <3>5, <3>6 DEF Waiting
      <4> QED BY <1>1, <2>0, <3>1, <3>3, <3>4, <4>1 DEF TaskCovered
    <3>7. CASE Covers(store, u, INTERNAL_BASE, ctx[u].step, Spare(call[u], ctx[u]))
      <4>1. Covers(store', u, INTERNAL_BASE, ctx[u].step, Spare(call[u], ctx[u]))
        BY <1>2, <1>9, <2>2, <3>4, <3>7
      <4> QED BY <1>1, <2>0, <3>1, <3>3, <3>4, <4>1 DEF TaskCovered
    <3> QED BY <3>3, <3>6, <3>7 DEF TaskCovered
  <2> QED BY <2>1, <2>2
<1> QED BY <1>3, <1>10, <1>11, <1>12 DEF Steady, BudgetAll, TasksCovered

(* An audit entry is put if there is none; otherwise run returns. *)
LEMMA AuditPutBudget ==
  ASSUME Steady, NEW t \in Tasks, AuditPut(t)
  PROVE  BudgetAll'
<1> DEFINE key == AuditKey(t, ctx[t].step)
           failed == At(t, "failure")
           row == [tokens |-> IF failed THEN 0 ELSE call[t].tokens, error |-> failed]
           pc == IF failed THEN "failure_put" ELSE "audit_put"
<1>0. /\ call[t] \in CallType /\ ctx[t] \in ContextType /\ StoreType(store) /\ next_tx \in Nat
      /\ DOMAIN call = Tasks
  BY SteadyTypes DEF Steady, EngineType, StoreOK
<1>1. next_tx' = next_tx + 1 /\ call[t].pc \in {"audit", "failure"}
  BY DEF AuditPut, At
<1>2. \/ /\ Absent(store, key)
         /\ store' = Put(store, next_tx, key, row)
         /\ call' = [call EXCEPT ![t].tx = next_tx, ![t].pc = pc]
         /\ ctx' = ctx
      \/ /\ store' = Rollback(store, next_tx)
         /\ Returns(t, "Failed")
  BY DEF AuditPut, Stores
<1>3. CASE /\ Absent(store, key)
           /\ store' = Put(store, next_tx, key, row)
           /\ call' = [call EXCEPT ![t].tx = next_tx, ![t].pc = pc]
           /\ ctx' = ctx
  <2>1. row.tokens = (IF call[t].pc = "audit" THEN call[t].tokens ELSE 0)
    BY <1>1 DEF At
  <2>2. pc \in {"audit_put", "failure_put"}
    OBVIOUS
  <2> HIDE DEF row, pc, failed
  <2>3. /\ call'[t].tx = next_tx /\ call'[t].pc = pc /\ call'[t].reserved = call[t].reserved
        /\ ctx'[t] = ctx[t] /\ OnlyMoves(t)
    BY <1>0, <1>3 DEF CallType, OnlyMoves
  <2>4. call[t].tokens \in Nat /\ call[t].reserved \in Nat /\ ctx[t].consumed \in Nat
    BY <1>0, Constants DEF CallType, ContextType
  <2>5. row.tokens \in Nat
    BY <2>1, <2>4
  <2>6. Spare(call[t], ctx[t]) + row.tokens <= Spare(call'[t], ctx'[t])
    <3> DEFINE n == row.tokens
    <3>1. Spare(call[t], ctx[t]) = ctx[t].consumed - call[t].reserved - n
      BY <2>1 DEF Spare
    <3>2. Spare(call'[t], ctx'[t]) = ctx[t].consumed - call[t].reserved - 0
      BY <2>2, <2>3 DEF Spare
    <3>3. n \in Nat
      BY <2>5
    <3> HIDE DEF n
    <3> QED BY <2>4, <3>1, <3>2, <3>3 DEF n
  <2> QED BY <1>1, <1>3, <2>2, <2>3, <2>5, <2>6, AuditStaged
<1>4. CASE store' = Rollback(store, next_tx) /\ Returns(t, "Failed")
  <2>1. Shrinks(store', store)
    BY <1>0, <1>4, DrainShrinks
  <2>2. OnlyMoves(t) /\ Moves(t)
    BY <1>1, <1>4, MovesReturns
  <2>3. Drained(t) /\ next_tx <= next_tx'
    BY <1>0, <1>1 DEF Drained
  <2> QED BY <2>1, <2>2, <2>3, TaskMoves
<1> QED BY <1>2, <1>3, <1>4

-----------------------------------------------------------------------------

\* What is added to a store by the save of a checkpoint, whether its commit fails or not.
LEMMA SaveAdds ==
  ASSUME NEW b, StoreType(b), NEW key, key[1] = "checkpoint", NEW val,
         NEW s, s = Put(b, INTERNAL_BASE, key, val), StoreType(s),
         NEW p, p = Commit(s, INTERNAL_BASE) \/ p = CommitFails(s, INTERNAL_BASE)
  PROVE  /\ EntriesShrink(p, b)
         /\ \A r \in Held(p) : r.key[1] = "checkpoint" =>
               \/ r.key = key /\ r.val = val
               \/ \E q \in Held(b) : q.key = r.key /\ q.val = r.val /\ q.tx = r.tx
         /\ \A r \in p.memtable \cup p.tx_buffer : r.key[1] = "checkpoint" =>
               r.key = key \/ \E q \in b.memtable \cup b.tx_buffer : q.key = r.key
<1> DEFINE e == [tx |-> INTERNAL_BASE, key |-> key, val |-> val]
<1>1. Readable(s) = Readable(b) /\ (Visible(b) => Visible(s))
  BY PutKeeps
<1>2. s.tx_buffer = b.tx_buffer \cup {e} /\ s.memtable = b.memtable
  BY PutStore DEF StoreType
<1>3. e.key = key /\ e.val = val
  OBVIOUS
<1> HIDE DEF e
<1>4. Held(s) = Held(b) \cup {e}
  BY <1>1, <1>2 DEF Held
<1>5. Shrinks(p, s)
  BY CommitShrinks, FailsShrinks
<1>6. EntriesShrink(p, b)
  BY <1>1, <1>2, <1>3, <1>4, <1>5 DEF Shrinks, EntriesShrink, Below
<1>7. ASSUME NEW r \in Held(p), r.key[1] = "checkpoint"
      PROVE  \/ r.key = key /\ r.val = val
             \/ \E q \in Held(b) : q.key = r.key /\ q.val = r.val /\ q.tx = r.tx
  <2>1. PICK q \in Held(s) : q.key = r.key /\ q.val = r.val /\ q.tx = r.tx
    BY <1>5, <1>7 DEF Shrinks, NoneSaved, Below
  <2> QED BY <1>3, <1>4, <2>1
<1>8. ASSUME NEW r \in p.memtable \cup p.tx_buffer, r.key[1] = "checkpoint"
      PROVE  r.key = key \/ \E q \in b.memtable \cup b.tx_buffer : q.key = r.key
  <2>1. PICK q \in s.memtable \cup s.tx_buffer : q.key = r.key
    BY <1>5, <1>8 DEF Shrinks, NoneSaved
  <2> QED BY <1>2, <1>3, <2>1
<1> QED BY <1>6, <1>7, <1>8

\* A checkpoint is saved: the budget in it is that of the task.
LEMMA CheckpointSaveBudget ==
  ASSUME Steady, NEW t \in Tasks, CheckpointSave(t)
  PROVE  BudgetAll'
<1> DEFINE meta == [node |-> Node(t), step |-> ctx[t].step, tx_id |-> call[t].cp,
                     consumed |-> ctx[t].consumed, seq_no |-> call[t].seq_no]
           key == CheckpointKey(t, Node(t), ctx[t].step)
           b == Reserved(store)
           s == Put(b, INTERNAL_BASE, key, meta)
           x == Spare(call[t], ctx[t])
<1>0. /\ EngineType /\ StoreOK(store) /\ StoreType(store) /\ next_tx \in Nat /\ DOMAIN call = Tasks
      /\ call[t] \in CallType /\ ctx[t] \in ContextType
  BY SteadyTypes DEF Steady, EngineType, StoreOK
<1>1. StoreOK(b) /\ StoreType(b) /\ Shrinks(b, store)
  BY <1>0, ReservedOK, ReservedShrinks DEF StoreOK
<1>2. RowOK([tx |-> INTERNAL_BASE, key |-> key, val |-> meta])
  BY <1>0, CheckpointRowOK
<1>3. key[1] = "checkpoint" /\ key[2] = t
  BY DEF CheckpointKey
<1>4. /\ store' = Commit(s, INTERNAL_BASE) \/ store' = CommitFails(s, INTERNAL_BASE)
      /\ next_tx' = next_tx /\ call[t].pc = "save"
  BY DEF CheckpointSave, At, Stores
<1>5. \/ Returns(t, "Completed") \/ Returns(t, "Failed")
      \/ /\ call' = [call EXCEPT ![t].pc = "reserve", ![t].cp = 0, ![t].seq_no = 0]
         /\ ctx' = ctx
  BY DEF CheckpointSave
<1>6. /\ meta.tx_id = call[t].cp /\ meta.step = ctx[t].step /\ meta.consumed = ctx[t].consumed
  OBVIOUS
<1>7. /\ Covers(store, t, INTERNAL_BASE, ctx[t].step, x) /\ call[t].cp < next_tx
  BY <1>4 DEF Steady, BudgetAll, TasksCovered, TaskCovered, Waiting
<1>8. /\ x \in Int /\ x <= ctx[t].consumed /\ ctx[t].step \in Nat /\ ctx[t].consumed \in Int
      /\ call[t].cp \in Nat /\ call[t].cp <= INTERNAL_BASE
  <2>1. x \in Int /\ x <= ctx[t].consumed
    BY <1>0, SpareType
  <2>2. ctx[t].step \in Nat /\ ctx[t].consumed \in Nat
    BY <1>0 DEF ContextType
  <2>3. call[t].cp \in Collection
    BY <1>0 DEF CallType
  <2> QED BY <2>1, <2>2, <2>3, Base
<1> HIDE DEF key, meta, b, x
<1>9. StoreType(s)
  BY <1>1, <1>2, InternalPut
<1> HIDE DEF s
<1>10. /\ EntriesShrink(store', b)
       /\ \A r \in Held(store') : r.key[1] = "checkpoint" =>
             \/ r.key = key /\ r.val = meta
             \/ \E q \in Held(b) : q.key = r.key /\ q.val = r.val /\ q.tx = r.tx
       /\ \A r \in store'.memtable \cup store'.tx_buffer : r.key[1] = "checkpoint" =>
             r.key = key \/ \E q \in b.memtable \cup b.tx_buffer : q.key = r.key
  BY <1>1, <1>3, <1>4, <1>9, SaveAdds DEF s
<1>11. EntriesShrink(store', store)
  BY <1>1, <1>10 DEF Shrinks, EntriesShrink, Below
<1>12. CheckpointsCovered(store')
  <2> SUFFICES ASSUME NEW r \in Held(store'), NEW u \in Tasks, r.key[1] = "checkpoint",
                      r.key[2] = u
               PROVE  Covers(store', u, r.val.tx_id, r.val.step, r.val.consumed)
    BY DEF CheckpointsCovered
  <2>1. CASE r.key = key /\ r.val = meta
    <3>1. \A q \in Held(store'), i \in Nat :
             q.key = AuditKey(t, i) /\ q.tx <= call[t].cp =>
                 \E a \in Held(store) : a.key = q.key /\ a.val = q.val /\ a.tx <= INTERNAL_BASE
      <4> SUFFICES ASSUME NEW q \in Held(store'), NEW i \in Nat, q.key = AuditKey(t, i)
                   PROVE  \E a \in Held(store) :
                             a.key = q.key /\ a.val = q.val /\ a.tx <= INTERNAL_BASE
        OBVIOUS
      <4>1. q.key[1] = "audit"
        BY KeyKinds
      <4>2. PICK a \in Held(store) : a.key = q.key /\ a.val = q.val
        BY <1>11, <4>1 DEF EntriesShrink, Below
      <4> QED BY <1>0, <4>2, HeldType
    <3>2. Covers(store', t, call[t].cp, ctx[t].step, ctx[t].consumed)
      BY <1>7, <1>8, <3>1, CoversLess
    <3> QED BY <1>3, <1>4, <1>6, <1>7, <2>1, <3>2
  <2>2. CASE \E q \in Held(b) : q.key = r.key /\ q.val = r.val /\ q.tx = r.tx
    <3>1. PICK q \in Held(store) : q.key = r.key /\ q.val = r.val
      BY <1>1, <2>2 DEF Shrinks, NoneSaved, Below
    <3>2. Covers(store, u, q.val.tx_id, q.val.step, q.val.consumed)
      BY <3>1 DEF Steady, BudgetAll, CheckpointsCovered
    <3>3. q.val.tx_id \in Nat /\ q.val.step \in Nat /\ q.val.consumed \in Nat
      BY <1>0, <3>1, HeldType
    <3>4. Covers(store', u, q.val.tx_id, q.val.step, q.val.consumed)
      BY <1>0, <1>11, <3>2, <3>3, CoversShrinks
    <3> QED BY <1>4, <3>1, <3>2, <3>4
  <2> QED BY <1>10, <2>1, <2>2
<1>13. OnlyMoves(t) /\ Moves(t)
  <2>1. CASE Returns(t, "Completed") \/ Returns(t, "Failed")
    BY <1>4, <2>1, MovesReturns
  <2>2. CASE /\ call' = [call EXCEPT ![t].pc = "reserve", ![t].cp = 0, ![t].seq_no = 0]
             /\ ctx' = ctx
    <3>1. /\ call'[t].pc = "reserve" /\ call'[t].reserved = call[t].reserved /\ OnlyMoves(t)
      BY <1>0, <2>2 DEF OnlyMoves, CallType
    <3> QED BY <1>4, <2>2, <3>1, MovesSame DEF Waiting
  <2> QED BY <1>5, <2>1, <2>2
<1>14. Drained(t) /\ next_tx <= next_tx'
  BY <1>0, <1>4 DEF Drained
<1>15. ASSUME NEW u \in Tasks
       PROVE  CheckpointsOlder(store', u, call'[u], ctx'[u], count'["restart"], next_tx')
  <2> DEFINE w == Waiting(call[u], ctx[u], count["restart"])
             v == Waiting(call'[u], ctx'[u], count'["restart"])
  <2>1. CheckpointsOlder(store, u, call[u], ctx[u], count["restart"], next_tx)
    BY DEF Steady, BudgetAll, TasksCovered
  <2>2. (u # t /\ w /\ v) \/ (~w /\ ~v)
    BY <1>13 DEF OnlyMoves, Moves, Steady
  <2> HIDE DEF w, v
  <2>3. CASE u # t /\ w /\ v
    <3>1. ASSUME NEW r \in store'.memtable \cup store'.tx_buffer, r.key[1] = "checkpoint",
                 r.key[2] = u
          PROVE  FALSE
      <4>1. PICK q \in b.memtable \cup b.tx_buffer : q.key = r.key
        BY <1>3, <1>10, <2>3, <3>1
      <4>2. PICK a \in store.memtable \cup store.tx_buffer : a.key = q.key
        BY <1>1, <3>1, <4>1 DEF Shrinks, NoneSaved
      <4> QED BY <2>1, <2>3, <3>1, <4>1, <4>2 DEF CheckpointsOlder, w
    <3> QED BY <2>3, <3>1 DEF CheckpointsOlder, v
  <2>4. CASE ~w /\ ~v
    <3>1. ASSUME NEW r \in Held(store'), r.key[1] = "checkpoint", r.key[2] = u
          PROVE  r.val.tx_id < next_tx'
      <4>1. CASE r.key = key /\ r.val = meta
        BY <1>4, <1>6, <1>7, <4>1
      <4>2. CASE \E q \in Held(b) : q.key = r.key /\ q.val = r.val /\ q.tx = r.tx
        <5>1. PICK q \in Held(store) : q.key = r.key /\ q.val = r.val
          BY <1>1, <3>1, <4>2 DEF Shrinks, NoneSaved, Below
        <5> QED BY <1>4, <2>1, <2>4, <3>1, <5>1 DEF CheckpointsOlder, w
      <4> QED BY <1>10, <3>1, <4>1, <4>2
    <3> QED BY <2>4, <3>1 DEF CheckpointsOlder, v
  <2> QED BY <2>2, <2>3, <2>4
<1> QED BY <1>11, <1>12, <1>13, <1>14, <1>15, TasksMove DEF OnlyMoves

\* A replay: the budget of the checkpoint covers the entries that the rollback leaves.
LEMMA ReplayBudget ==
  ASSUME Steady, NEW t \in Tasks, NEW step, Replay(t, step)
  PROVE  BudgetAll'
<1>0. /\ EngineType /\ StoreType(store) /\ IsStore(store) /\ next_tx \in Nat /\ DOMAIN ctx = Tasks
      /\ call[t] \in CallType /\ ctx[t] \in ContextType /\ CallOK(call[t], ctx[t])
  BY SteadyTypes DEF Steady, EngineType, StoreOK, StoreType
<1>1. PICK r \in CheckpointsOf(t) :
         /\ r.val.step = step
         /\ ctx' = [ctx EXCEPT ![t] = [node |-> r.val.node, step |-> step,
                                       consumed |-> r.val.consumed, status |-> "Replayed"]]
         /\ store' = RollbackToTx(store, r.val.tx_id)
  BY DEF Replay, Stores
<1>2. call[t].pc = "idle" /\ call[t].reserved = 0 /\ call' = call /\ next_tx' = next_tx
  BY <1>0 DEF Replay, At, CallOK
<1>3. r \in Readable(store) /\ r \in Held(store) /\ r.key[1] = "checkpoint" /\ r.key[2] = t
  BY ScanReadable DEF CheckpointsOf, Held
<1> DEFINE c == r.val.tx_id
           n == r.val.consumed
<1>4. c \in Collection /\ c \in Nat /\ n \in Nat /\ step \in Nat
  BY <1>0, <1>1, <1>3, HeldType
<1>5. Covers(store, t, c, step, n)
  BY <1>1, <1>3 DEF Steady, BudgetAll, CheckpointsCovered
<1>6. /\ Shrinks(store', store) /\ store'.tx_buffer = store.tx_buffer
  BY <1>0, <1>1, <1>4, RollbackShrinks
<1>7. Visible(store') /\ store'.last_committed_tx = c
  BY <1>0, <1>1, <1>4, RollbackVisible, RollbackStore
<1>8. EntriesShrink(store', store)
  BY <1>6 DEF Shrinks
<1>9. CheckpointsCovered(store')
  BY <1>0, <1>6, CheckpointsShrink DEF Steady, BudgetAll
<1>10. StagedOwned(store', call')
  BY <1>2, <1>8, StagedShrinks
<1>11. ctx'[t].step = step /\ ctx'[t].consumed = n /\ ctx'[t].status = "Replayed"
  BY <1>0, <1>1
<1>12. StoreType(store')
  BY DEF Steady, EngineType, StoreOK
<1> HIDE DEF c, n
<1>13. Covers(store', t, INTERNAL_BASE, step, n)
  <2>1. ASSUME NEW q \in Held(store'), NEW i \in Nat, q.key = AuditKey(t, i)
        PROVE  \E a \in Held(store) : a.key = q.key /\ a.val = q.val /\ a.tx <= c
    <3>0. q.key[1] = "audit"
      BY <2>1, KeyKinds
    <3>1. q \notin store.tx_buffer
      BY <1>2, <2>1 DEF Steady, BudgetAll, StagedOwned
    <3>2. q \in Readable(store')
      BY <1>6, <3>1 DEF Held
    <3>3. q.tx <= c
      BY <1>7, <1>12, <3>0, <3>2, StoreRows DEF Visible, InternalKinds
    <3> QED BY <1>8, <3>0, <3>3 DEF EntriesShrink, Below
  <2>2. n <= n /\ n \in Int
    BY <1>4
  <2> QED BY <1>4, <1>5, <2>1, <2>2, CoversLess
<1>14. ASSUME NEW q \in Held(store'), q.key[1] = "checkpoint", q.key[2] = t
       PROVE  q.val.tx_id < next_tx'
  <2>1. q \in store.memtable \cup store.tx_buffer
    <3>1. CASE q \in store'.tx_buffer
      BY <1>6, <3>1
    <3>2. CASE q \in Readable(store')
      <4>1. q.tx = INTERNAL_BASE /\ ~(q.tx <= c)
        BY <1>4, <1>12, <1>14, <3>2, StoreRows, Base DEF InternalKinds
      <4>2. /\ store'.log \subseteq store.log
            /\ \A a \in store'.memtable : a \in store'.log \/ a.tx <= c
            /\ \A a \in UNION store'.sstables : a.tx <= c
        BY <1>0, <1>1, RollbackStore DEF c
      <4> QED BY <1>0, <3>2, <4>1, <4>2 DEF Readable, StoreType
    <3> QED BY <3>1, <3>2 DEF Held
  <2>2. q \in Held(store)
    BY <2>1 DEF Held, Readable
  <2> QED BY <1>2, <1>14, <2>1, <2>2 DEF Steady, BudgetAll, TasksCovered, CheckpointsOlder
<1>15. ASSUME NEW u \in Tasks
       PROVE  /\ TaskCovered(store', u, call'[u], ctx'[u], count'["restart"])
              /\ call'[u].pc = "save" => call'[u].cp < next_tx'
              /\ CheckpointsOlder(store', u, call'[u], ctx'[u], count'["restart"], next_tx')
  <2>1. CASE u = t
    <3>1. Spare(call'[t], ctx'[t]) = n
      BY <1>2, <1>4, <1>11 DEF Spare
    <3>2. CheckpointsOlder(store', t, call'[t], ctx'[t], count'["restart"], next_tx')
      BY <1>11, <1>14 DEF CheckpointsOlder, Waiting
    <3> QED BY <1>2, <1>11, <1>13, <2>1, <3>1, <3>2 DEF TaskCovered
  <2>2. CASE u # t
    <3>1. call'[u] = call[u] /\ ctx'[u] = ctx[u] /\ next_tx <= next_tx'
      BY <1>0, <1>1, <1>2, <2>2
    <3> QED BY <1>6, <1>8, <3>1, TaskShrinks, OlderShrinks DEF Shrinks
  <2> QED BY <2>1, <2>2
<1> QED BY <1>7, <1>9, <1>10, <1>15 DEF Steady, BudgetAll, TasksCovered

\* A restart: the contexts wait for a replay, and no checkpoint is in the memtable.
LEMMA RestartBudget ==
  ASSUME EngineType, BudgetAll, Sound', count' \in [Bounded -> Nat],
         store'.last_committed_tx < next_tx', Restart
  PROVE  BudgetAll'
<1> DEFINE s == Reopen(store)
           more == Blind(s)
<1>1. Stores(s, more)
  BY DEF Restart
<1>2. /\ StoreType(store) /\ StoreType(s) /\ s.tx_buffer = {}
      /\ Readable(s) \subseteq Readable(store)
  BY ReopenType DEF EngineType, StoreOK
<1>3. s.memtable = {}
  <2>1. StoreType(Replayed(store))
    BY <1>2, ReplayedStore
  <2> QED BY <2>1, FlushStore, ReopenIs
<1> HIDE DEF s
<1>4. store' = s /\ more \subseteq departures'
  BY <1>1, StoresFacts
<1>5. Blind(s) = {}
  BY <1>4 DEF Sound, Blind
<1>6. Visible(store')
  BY <1>2, <1>4, <1>5, HighestVisible DEF Blind
<1>7. Held(store') \subseteq Held(store)
  BY <1>2, <1>3, <1>4 DEF Held, Readable
<1>8. CheckpointsCovered(store')
  <2> SUFFICES ASSUME NEW r \in Held(store'), NEW u \in Tasks, r.key[1] = "checkpoint",
                      r.key[2] = u
               PROVE  Covers(store', u, r.val.tx_id, r.val.step, r.val.consumed)
    BY DEF CheckpointsCovered
  <2>1. r \in Held(store)
    BY <1>7
  <2>2. r.val.tx_id \in Nat /\ r.val.step \in Nat /\ r.val.consumed \in Nat
    BY <1>2, <2>1, HeldType
  <2>3. Covers(store, u, r.val.tx_id, r.val.step, r.val.consumed)
    BY <2>1 DEF BudgetAll, CheckpointsCovered
  <2>4. Covers(store', u, r.val.tx_id, r.val.step, r.val.consumed)
    <3>1. r.val.consumed <= r.val.consumed /\ r.val.consumed \in Int
      BY <2>2
    <3>2. \A q \in Held(store'), i \in Nat :
             q.key = AuditKey(u, i) /\ q.tx <= r.val.tx_id =>
                 \E a \in Held(store) : a.key = q.key /\ a.val = q.val /\ a.tx <= r.val.tx_id
      BY <1>7
    <3> QED BY <2>2, <2>3, <3>1, <3>2, CoversLess
  <2> QED BY <2>4
<1>9. StagedOwned(store', call')
  BY <1>2, <1>4 DEF StagedOwned
<1>10. count'["restart"] > 0
  <2>1. count \in [Bounded -> Nat] /\ "restart" \in Bounded
    BY DEF BudgetAll, Bounded
  <2>2. count' = [count EXCEPT !["restart"] = @ + 1]
    BY DEF Restart, Once
  <2> QED BY <2>1, <2>2
<1>11. \A u \in Tasks : call'[u].pc = "idle" /\ ctx'[u].status = "Idle"
  BY DEF Restart, NoCall, NewContext
<1>12. \A u \in Tasks : /\ TaskCovered(store', u, call'[u], ctx'[u], count'["restart"])
                        /\ call'[u].pc = "save" => call'[u].cp < next_tx'
  BY <1>10, <1>11 DEF TaskCovered, Waiting
<1>13. \A u \in Tasks :
          CheckpointsOlder(store', u, call'[u], ctx'[u], count'["restart"], next_tx')
  BY <1>2, <1>3, <1>4, <1>10, <1>11 DEF CheckpointsOlder, Waiting
<1> QED BY <1>6, <1>8, <1>9, <1>12, <1>13 DEF BudgetAll, TasksCovered

-----------------------------------------------------------------------------

(* Stores records whether last_committed_tx has passed the ids of the collections. *)
LEMMA StoresAhead ==
  ASSUME NEW s, NEW more, Stores(s, more), StoreType(s), next_tx' \in Nat,
         "ahead" \notin departures'
  PROVE  store'.last_committed_tx < next_tx'
<1>1. store' = s /\ ~(s.last_committed_tx >= next_tx')
  BY DEF Stores
<1>2. s.last_committed_tx \in Nat
  BY Base DEF StoreType
<1> QED BY <1>1, <1>2

(* A step is recorded by Stores, or leaves the store and the counter alone. *)
LEMMA NextStores ==
  ASSUME [Next]_vars
  PROVE  \/ UNCHANGED <<store, next_tx>> /\ departures \subseteq departures'
         \/ \E s, more : Stores(s, more)
<1>1. ASSUME NEW t \in Tasks, Turn(t)
      PROVE  \/ UNCHANGED <<store, next_tx>> /\ departures \subseteq departures'
             \/ \E s, more : Stores(s, more)
  <2>1. CASE \/ RecoverRead(t) \/ LimitReached(t) \/ Decide(t) \/ StepBegin(t)
             \/ CheckpointRead(t) \/ Reserve(t) \/ ToolOk(t) \/ ToolError(t)
             \/ ToolTimeout(t) \/ RetryRefused(t) \/ Advance(t)
    BY <2>1 DEF RecoverRead, LimitReached, Decide, StepBegin, CheckpointRead,
       Reserve, ToolOk, ToolError, ToolTimeout, RetryRefused, Advance, shared
  <2>2. CASE RecoverOrphan(t)
    BY <2>2 DEF RecoverOrphan
  <2>3. CASE CheckpointSave(t)
    BY <2>3 DEF CheckpointSave
  <2>4. CASE LetterCommit(t) \/ AuditCommit(t) \/ StepCommit(t) \/ FinalCommit(t)
    BY <2>4 DEF LetterCommit, AuditCommit, StepCommit, FinalCommit, Commits, CommitError
  <2>5. CASE LetterPut(t) \/ StepPut(t) \/ FinalPut(t) \/ AuditPut(t) \/ FinalFlush(t)
    BY <2>5 DEF LetterPut, StepPut, FinalPut, AuditPut, FinalFlush
  <2> QED BY <1>1, <2>1, <2>2, <2>3, <2>4, <2>5 DEF Turn
<1>2. ASSUME NEW t \in Tasks, NEW step \in Steps, Replay(t, step)
      PROVE  \E s, more : Stores(s, more)
  BY <1>2 DEF Replay
<1>3. ASSUME NEW t \in Tasks, Run(t)
      PROVE  UNCHANGED <<store, next_tx>> /\ departures \subseteq departures'
  BY <1>3 DEF Run
<1>4. CASE ClientPut \/ ClientCommit \/ MemtableFull \/ Restart
  BY <1>4 DEF ClientPut, ClientCommit, MemtableFull, Restart, Commits, CommitError
<1>5. CASE FlushOrphans \/ UNCHANGED vars
  BY <1>5 DEF FlushOrphans, vars, shared
<1> QED BY <1>1, <1>2, <1>3, <1>4, <1>5 DEF Next

(* Only a restart counts as one. *)
LEMMA NextCounts ==
  ASSUME [Next]_vars, ~Restart
  PROVE  UNCHANGED count \/ \E b \in Bounded \ {"restart"} : Once(b)
<1>1. ASSUME NEW t \in Tasks, Turn(t)
      PROVE  UNCHANGED count \/ \E b \in Bounded \ {"restart"} : Once(b)
  <2>1. CASE \/ RecoverRead(t) \/ LimitReached(t) \/ Decide(t) \/ StepBegin(t)
             \/ CheckpointRead(t) \/ Reserve(t) \/ ToolOk(t) \/ ToolError(t)
             \/ ToolTimeout(t) \/ RetryRefused(t) \/ Advance(t)
    BY <2>1 DEF RecoverRead, LimitReached, Decide, StepBegin, CheckpointRead,
       Reserve, ToolOk, ToolError, ToolTimeout, RetryRefused, Advance, shared, Bounded
  <2>2. CASE RecoverOrphan(t)
    BY <2>2 DEF RecoverOrphan, Bounded
  <2>3. CASE CheckpointSave(t)
    BY <2>3 DEF CheckpointSave, Bounded
  <2>4. CASE LetterCommit(t) \/ AuditCommit(t) \/ StepCommit(t) \/ FinalCommit(t)
    BY <2>4 DEF LetterCommit, AuditCommit, StepCommit, FinalCommit, Commits, CommitError, Bounded
  <2>5. CASE LetterPut(t) \/ StepPut(t) \/ FinalPut(t) \/ AuditPut(t) \/ FinalFlush(t)
    BY <2>5 DEF LetterPut, StepPut, FinalPut, AuditPut, FinalFlush
  <2> QED BY <1>1, <2>1, <2>2, <2>3, <2>4, <2>5 DEF Turn
<1>2. ASSUME NEW t \in Tasks, NEW step \in Steps, Replay(t, step)
      PROVE  \E b \in Bounded \ {"restart"} : Once(b)
  BY <1>2 DEF Replay, Bounded
<1>3. ASSUME NEW t \in Tasks, Run(t)
      PROVE  \E b \in Bounded \ {"restart"} : Once(b)
  BY <1>3 DEF Run, Bounded
<1>4. CASE ClientPut \/ ClientCommit \/ MemtableFull
  BY <1>4 DEF ClientPut, ClientCommit, MemtableFull, Commits, CommitError, Bounded
<1>5. CASE FlushOrphans \/ UNCHANGED vars
  BY <1>5 DEF FlushOrphans, vars, shared
<1> QED BY <1>1, <1>2, <1>3, <1>4, <1>5 DEF Next

(* What every step shares. *)
LEMMA StepSteady ==
  ASSUME EngineType, BudgetInv, [Next]_vars, Sound'
  PROVE  /\ BudgetAll /\ count' \in [Bounded -> Nat] /\ store'.last_committed_tx < next_tx'
         /\ Restart \/ Steady
<1>1. EngineType'
  BY NextType
<1>2. StoreType(store') /\ next_tx' \in Nat
  BY <1>1, Base DEF EngineType, StoreOK, CountersOK
<1>3. departures \subseteq departures'
  BY NextStores, StoresFacts
<1>4. Sound /\ BudgetAll
  BY <1>3 DEF BudgetInv, Sound
<1>5. store'.last_committed_tx < next_tx'
  <2>1. CASE UNCHANGED <<store, next_tx>>
    BY <1>4, <2>1 DEF BudgetAll
  <2>2. ASSUME NEW s, NEW more, Stores(s, more)
        PROVE  store'.last_committed_tx < next_tx'
    <3>1. store' = s
      BY <2>2, StoresFacts
    <3> QED BY <1>2, <2>2, <3>1, StoresAhead DEF Sound
  <2> QED BY <2>1, <2>2, NextStores
<1>6. count' \in [Bounded -> Nat] /\ (Restart \/ count'["restart"] = count["restart"])
  <2>1. count \in [Bounded -> Nat] /\ "restart" \in Bounded
    BY <1>4 DEF BudgetAll, Bounded
  <2>2. CASE UNCHANGED count
    BY <2>1, <2>2
  <2>3. CASE Restart
    <3>1. count' = [count EXCEPT !["restart"] = @ + 1]
      BY <2>3 DEF Restart, Once
    <3> QED BY <2>1, <2>3, <3>1
  <2>4. ASSUME NEW b \in Bounded \ {"restart"}, Once(b)
        PROVE  count' \in [Bounded -> Nat] /\ count'["restart"] = count["restart"]
    <3>1. count' = [count EXCEPT ![b] = @ + 1]
      BY <2>4 DEF Once
    <3> QED BY <2>1, <3>1
  <2> QED BY <2>2, <2>3, <2>4, NextCounts
<1> QED BY <1>1, <1>4, <1>5, <1>6 DEF Steady

(* The invariant is inductive. *)
LEMMA BudgetInvStep ==
  ASSUME "run_without_replay" \notin Environment, EngineType, BudgetInv, [Next]_vars
  PROVE  BudgetInv'
<1> SUFFICES ASSUME Sound' PROVE BudgetAll'
  BY DEF BudgetInv
<1>4. CASE Restart
  BY <1>4, RestartBudget, StepSteady
<1> SUFFICES ASSUME Steady PROVE BudgetAll'
  BY <1>4, StepSteady
<1>0. Steady
  OBVIOUS
<1>1. ASSUME NEW t \in Tasks, Run(t) \/ Turn(t) PROVE BudgetAll'
  <2>1. CASE \/ Run(t) \/ RecoverRead(t) \/ LimitReached(t) \/ Decide(t) \/ StepBegin(t)
             \/ CheckpointRead(t) \/ Reserve(t) \/ ToolOk(t) \/ ToolError(t)
             \/ ToolTimeout(t) \/ RetryRefused(t) \/ Advance(t)
    BY <1>0, <2>1, QuietBudget
  <2>2. CASE RecoverOrphan(t)
    BY <1>0, <2>2, RecoverOrphanBudget
  <2>3. CASE CheckpointSave(t)
    BY <1>0, <2>3, CheckpointSaveBudget
  <2>4. CASE LetterCommit(t) \/ AuditCommit(t) \/ StepCommit(t) \/ FinalCommit(t)
    BY <1>0, <2>4, CommitBudget
  <2>5. CASE LetterPut(t) \/ StepPut(t) \/ FinalPut(t)
    BY <1>0, <2>5, PutBudget
  <2>6. CASE AuditPut(t)
    BY <1>0, <2>6, AuditPutBudget
  <2>7. CASE FinalFlush(t)
    BY <1>0, <2>7, FinalFlushBudget
  <2> QED BY <1>1, <2>1, <2>2, <2>3, <2>4, <2>5, <2>6, <2>7 DEF Turn
<1>2. ASSUME NEW t \in Tasks, NEW step \in Steps, Replay(t, step) PROVE BudgetAll'
  BY <1>0, <1>2, ReplayBudget
<1>3. CASE ClientPut \/ ClientCommit \/ FlushOrphans \/ MemtableFull \/ UNCHANGED vars
  BY <1>0, <1>3, OthersBudget
<1> QED BY <1>1, <1>2, <1>3, <1>4 DEF Next

(* It holds initially: there is no entry and nothing is consumed. *)
LEMMA InitBudget ==
  ASSUME Init
  PROVE  BudgetInv
<1>1. /\ Held(EmptyStore) = {} /\ EmptyStore.tx_buffer = {} /\ Readable(EmptyStore) = {}
      /\ EmptyStore.last_committed_tx = 0
  BY DEF Held, Readable, EmptyStore
<1>2. store = EmptyStore /\ next_tx = 1 /\ count = [b \in Bounded |-> 0]
  BY DEF Init
<1> HIDE DEF EmptyStore
<1>3. \A t \in Tasks : call[t] = NoCall /\ ctx[t] = NewContext
  BY DEF Init
<1>4. NoCall.pc = "idle" /\ Spare(NoCall, NewContext) = 0 /\ NewContext.step = 0
  BY DEF Spare, NoCall, NewContext
<1> DEFINE f == [i \in Nat |-> 0]
<1>5. f \in [Nat -> Nat] /\ f[0] = 0
  OBVIOUS
<1> HIDE DEF f
<1>6. Total(f, 0 + 1) = Total(f, 0) + f[0] /\ Total(f, 0) = 0
  BY <1>5, TotalNext
<1>7. \A t \in Tasks : Covers(store, t, INTERNAL_BASE, 0, 0)
  BY <1>1, <1>2, <1>5, <1>6 DEF Covers
<1>8. TasksCovered
  <2>1. \A t \in Tasks :
           CheckpointsOlder(store, t, call[t], ctx[t], count["restart"], next_tx)
    BY <1>1, <1>2 DEF CheckpointsOlder, Held, Readable
  <2> QED BY <1>3, <1>4, <1>7, <2>1 DEF TasksCovered, TaskCovered
<1>9. CheckpointsCovered(store) /\ StagedOwned(store, call) /\ Visible(store)
  BY <1>1, <1>2 DEF CheckpointsCovered, StagedOwned, Visible
<1>10. count \in [Bounded -> Nat] /\ store.last_committed_tx < next_tx
  BY <1>1, <1>2
<1> QED BY <1>8, <1>9, <1>10 DEF BudgetInv, BudgetAll

(* What can be read of the audit log is covered. *)
LEMMA BudgetInvCovers ==
  ASSUME EngineType, BudgetInv
  PROVE  BudgetCovers
<1> SUFFICES ASSUME {"ahead", "blind"} \cap departures = {}, NEW t \in Tasks,
                    ctx[t].status # "Idle"
             PROVE  AuditedTokens(t) + call[t].reserved <= ctx[t].consumed
  BY Zenon DEF BudgetCovers
<1> DEFINE k == ctx[t].step
           x == Spare(call[t], ctx[t])
           g == [n \in Nat |-> Taken(t, n)]
<1>1. Covers(store, t, INTERNAL_BASE, k, x)
  BY DEF BudgetInv, Sound, BudgetAll, TasksCovered, TaskCovered, Waiting
<1>2. call[t] \in CallType /\ ctx[t] \in ContextType /\ StoreType(store)
  BY TaskFacts DEF EngineType, StoreOK
<1>3. /\ x \in Int /\ x <= ctx[t].consumed - call[t].reserved /\ k \in Nat
      /\ ctx[t].consumed \in Nat /\ call[t].reserved \in Nat
  BY <1>2, SpareType DEF ContextType, CallType
<1> HIDE DEF x
<1>4. PICK f \in [Nat -> Nat] :
         /\ \A r \in Held(store), i \in Nat :
               r.key = AuditKey(t, i) /\ r.tx <= INTERNAL_BASE =>
                   i <= k /\ r.val.tokens \in Nat /\ r.val.tokens <= f[i]
         /\ Total(f, k + 1) <= x
  BY <1>1 DEF Covers
<1>5. ASSUME NEW n \in Nat
      PROVE  Taken(t, n) \in Nat /\ Taken(t, n) <= f[n]
  <2>1. CASE AuditKey(t, n) \in KeysOf(store)
    <3> DEFINE r == AuditRow(t, n)
    <3>1. r \in Rows(store) /\ r.key = AuditKey(t, n)
      BY <2>1 DEF AuditRow, KeysOf
    <3> HIDE DEF r
    <3>2. r \in Held(store)
      BY <3>1, ScanReadable DEF Rows, Held
    <3>3. r.tx <= INTERNAL_BASE
      BY <1>2, <3>2, HeldType
    <3>4. r.val.tokens \in Nat /\ r.val.tokens <= f[n]
      BY <1>4, <3>1, <3>2, <3>3
    <3> QED BY <2>1, <3>4 DEF Taken, r
  <2>2. CASE AuditKey(t, n) \notin KeysOf(store)
    BY <2>2 DEF Taken
  <2> QED BY <2>1, <2>2
<1>6. g \in [Nat -> Nat] /\ \A i \in 0 .. (k + 1) - 1 : g[i] <= f[i]
  BY <1>3, <1>5
<1> HIDE DEF g
<1>7. Total(g, k + 1) <= Total(f, k + 1) /\ Total(g, k + 1) \in Nat /\ Total(f, k + 1) \in Nat
  <2> DEFINE m == k + 1
  <2>1. m \in Nat
    BY <1>3
  <2> HIDE DEF m, k
  <2>2. Total(g, m) <= Total(f, m)
    BY <1>6, <2>1, TotalLess DEF m
  <2>3. Total(g, m) \in Nat /\ Total(f, m) \in Nat
    BY <1>6, <2>1, TotalNext
  <2> QED BY <2>2, <2>3 DEF m
<1>8. Total(g, k + 1) + call[t].reserved <= ctx[t].consumed
  BY <1>3, <1>4, <1>7
<1> QED BY <1>8 DEF g, AuditedTokens

(* The budget of a task that runs, or has run, covers what its audit log says was consumed *)
(* in all its steps up to the current one and what is reserved, for any graph, tools and   *)
(* limits: through tools that take more or less than they estimated, tools without an      *)
(* estimate and those of Start nodes, which are charged without a reservation, retries,    *)
(* failed commits, recoveries of orphans, replays and restarts, when callers replay after  *)
(* a restart. Of the exceptions "ahead" is that the dead letter queue has committed above  *)
(* the ids of the collections, and "blind" that a restart recovers too low a               *)
(* last_committed_tx.                                                                      *)
THEOREM BudgetTheorem ==
  ASSUME "run_without_replay" \notin Environment
  PROVE  Spec => []BudgetCovers
<1>1. Init => BudgetInv
  BY InitBudget
<1>2. EngineType /\ BudgetInv /\ [Next]_vars => BudgetInv'
  BY BudgetInvStep
<1>3. EngineType /\ BudgetInv => BudgetCovers
  BY BudgetInvCovers
<1> QED BY <1>1, <1>2, <1>3, EngineTypeInvariant, PTL DEF Spec

-----------------------------------------------------------------------------

\* replay_from undoes exactly the steps from its checkpoint on.

(* The rollback of s to c does not remove a: no client's row above c is before it in the log. *)
KeptBy(s, a, c) ==
    /\ a.tx <= c
    /\ a \in s.log => \A b \in s.log : ~Internal(b) /\ b.tx > c => a.seq < b.seq

\* A rollback of s to c divides the audit log of t: the entries before step k stay, those
\* from k on go, and what is staged belongs to those.
Splits(s, t, c, k) ==
    /\ \A a \in Readable(s), i \in Nat :
          a.key = AuditKey(t, i) => IF i < k THEN KeptBy(s, a, c) ELSE a.tx > c
    /\ \A o \in s.tx_buffer, i \in Nat : o.key = AuditKey(t, i) => i >= k /\ o.tx > c

IsCheckpoint(r, t) == r.key[1] = "checkpoint" /\ r.key[2] = t

(* Every checkpoint divides the audit log of its task at its step. *)
CheckpointsSplit(s) ==
    \A r \in Readable(s), t \in Tasks :
        IsCheckpoint(r, t) => Splits(s, t, r.val.tx_id, r.val.step)

(* The name of a checkpoint has its step. *)
StepsNamed(s) == \A r \in Readable(s) : r.key[1] = "checkpoint" => r.key[4] = r.val.step

(* The next row of the log gets a sequence number above all that are in it. *)
LogOrdered(s) == \A r \in s.log : r.seq < s.seq

\* Places at which the current step has no audit entry.  After a failure it may have one.
Early(c, k) ==
    \/ c.pc \in {"recover", "recovering", "loop", "final_put", "flush", "checkpoint", "save"}
    \/ c.pc = "idle" /\ k.status # "Failed"

(* No checkpoint of t is of a later step than the one it is at. *)
NoneLater(s, t, k) == \A r \in Readable(s) : IsCheckpoint(r, t) => r.val.step <= k

\* The step at which t is has no entry before it is audited; what t is about to save is a
\* checkpoint like those that are stored.
TaskSplit(s, t, c, k, restarts) ==
    /\ c.pc # "idle" => NoneLater(s, t, k.step)
    /\ ~Waiting(c, k, restarts) /\ Early(c, k) => \A a \in Held(s) : a.key # AuditKey(t, k.step)
    /\ c.pc = "save" => Splits(s, t, c.cp, k.step)

SplitAll ==
    /\ CheckpointsSplit(store) /\ StepsNamed(store) /\ LogOrdered(store)
    /\ \A t \in Tasks : TaskSplit(store, t, call[t], ctx[t], count["restart"])

(* None of what ReplayExact excepts has happened. *)
Undisturbed == {"ahead", "blind", "unlogged", "stale"} \cap departures = {}

(* The inductive invariant behind ReplayExact. *)
SplitInv == Undisturbed => SplitAll

-----------------------------------------------------------------------------

\* What the calls of the store do to this.

(* p divides every audit log that s divides, at the same place. *)
Retains(p, s) ==
    LogOrdered(s) =>
        /\ LogOrdered(p)
        /\ \A t \in Tasks, c \in Nat, k \in Nat : Splits(s, t, c, k) => Splits(p, t, c, k)

(* Two operations in a row. *)
LEMMA RetainsChain ==
  ASSUME NEW s, NEW p, NEW q, Retains(p, s), Retains(q, p)
  PROVE  Retains(q, s)
BY DEF Retains

(* An operation that only removes. *)
LEMMA SubsetRetains ==
  ASSUME NEW s, NEW p, Readable(p) \subseteq Readable(s), p.log \subseteq s.log,
         \A o \in p.tx_buffer : o.key[1] = "audit" => o \in s.tx_buffer,
         LogOrdered(s) => LogOrdered(p)
  PROVE  Retains(p, s)
<1> SUFFICES ASSUME NEW t \in Tasks, NEW c \in Nat, NEW k \in Nat, Splits(s, t, c, k)
             PROVE  Splits(p, t, c, k)
  BY DEF Retains
<1>1. ASSUME NEW a \in Readable(p), NEW i \in Nat, a.key = AuditKey(t, i)
      PROVE  IF i < k THEN KeptBy(p, a, c) ELSE a.tx > c
  <2>1. IF i < k THEN KeptBy(s, a, c) ELSE a.tx > c
    BY <1>1 DEF Splits
  <2>2. KeptBy(s, a, c) => KeptBy(p, a, c)
    BY DEF KeptBy
  <2> QED BY <2>1, <2>2
<1>2. ASSUME NEW o \in p.tx_buffer, NEW i \in Nat, o.key = AuditKey(t, i)
      PROVE  i >= k /\ o.tx > c
  <2>1. o \in s.tx_buffer
    BY <1>2, KeyKinds
  <2> QED BY <1>2, <2>1 DEF Splits
<1> QED BY <1>1, <1>2 DEF Splits

(* A put of something else than an audit entry. *)
LEMMA PutRetains ==
  ASSUME NEW s, StoreType(s), NEW tx, NEW key, key[1] # "audit", NEW val
  PROVE  Retains(Put(s, tx, key, val), s)
<1> DEFINE p == Put(s, tx, key, val)
           e == [tx |-> tx, key |-> key, val |-> val]
<1>1. /\ p.log = s.log /\ p.memtable = s.memtable /\ p.sstables = s.sstables
      /\ p.tx_buffer = s.tx_buffer \cup {e} /\ p.seq = s.seq
  BY PutStore DEF StoreType
<1>2. e.key = key
  OBVIOUS
<1> HIDE DEF p, e
<1>3. Retains(p, s)
  BY <1>1, <1>2, SubsetRetains DEF Readable, LogOrdered
<1> QED BY <1>3 DEF p

(* The rollback of one transaction. *)
LEMMA DrainRetains ==
  ASSUME NEW s, StoreType(s), NEW tx
  PROVE  Retains(Rollback(s, tx), s)
<1> DEFINE p == Rollback(s, tx)
<1>1. /\ p.log = s.log /\ p.memtable = s.memtable /\ p.sstables = s.sstables
      /\ p.tx_buffer \subseteq s.tx_buffer /\ p.seq = s.seq
  BY DrainStore DEF StoreType
<1> HIDE DEF p
<1>2. Retains(p, s)
  BY <1>1, SubsetRetains DEF Readable, LogOrdered
<1> QED BY <1>2 DEF p

\* A commit: what it stores is behind everything in the log, and its audit entries are those
\* that were staged.
LEMMA CommitRetains ==
  ASSUME NEW s, StoreType(s), NEW tx
  PROVE  Retains(Commit(s, tx), s)
<1> DEFINE p == Commit(s, tx)
           new == NewRows(s, tx)
<1>1. /\ p.log = s.log \cup new /\ Readable(p) = Readable(s) \cup new
      /\ p.tx_buffer \subseteq s.tx_buffer
      /\ new = {} => p = s
      /\ new # {} => p.seq = s.seq + 1
  BY CommitStore, CommitKeeps DEF StoreType
<1>2. \A r \in new : /\ r.seq = s.seq
                     /\ \E o \in s.tx_buffer : o.key = r.key /\ o.tx = r.tx
  BY DEF NewRows, StagedBy
<1>3. s.seq \in Nat /\ s.log \subseteq Readable(s) /\ \A r \in Readable(s) : r.seq \in Nat
  BY DEF StoreType, Readable
<1> HIDE DEF p, new
<1>4. Retains(p, s)
  <2> SUFFICES ASSUME LogOrdered(s)
               PROVE  /\ LogOrdered(p)
                      /\ \A t \in Tasks, c \in Nat, k \in Nat :
                            Splits(s, t, c, k) => Splits(p, t, c, k)
    BY DEF Retains
  <2>1. LogOrdered(p)
    <3>1. CASE new = {}
      BY <1>1, <3>1
    <3>2. CASE new # {}
      BY <1>1, <1>2, <1>3, <3>2 DEF LogOrdered
    <3> QED BY <3>1, <3>2
  <2>2. ASSUME NEW t \in Tasks, NEW c \in Nat, NEW k \in Nat, Splits(s, t, c, k),
               NEW a \in Readable(p), NEW i \in Nat, a.key = AuditKey(t, i)
        PROVE  IF i < k THEN KeptBy(p, a, c) ELSE a.tx > c
    <3>1. CASE a \in new
      <4>1. PICK o \in s.tx_buffer : o.key = a.key /\ o.tx = a.tx
        BY <1>2, <3>1
      <4>2. i >= k /\ o.tx > c
        BY <2>2, <4>1 DEF Splits
      <4>3. ~(i < k) /\ a.tx > c
        BY <4>1, <4>2
      <4> QED BY <4>3
    <3>2. CASE a \in Readable(s) /\ a \notin new
      <4>1. IF i < k THEN KeptBy(s, a, c) ELSE a.tx > c
        BY <2>2, <3>2 DEF Splits
      <4>2. ASSUME KeptBy(s, a, c) PROVE KeptBy(p, a, c)
        <5>1. ASSUME a \in p.log, NEW b \in p.log, ~Internal(b), b.tx > c
              PROVE  a.seq < b.seq
          <6>1. a \in s.log /\ a.seq < s.seq
            BY <1>1, <3>2, <5>1 DEF LogOrdered
          <6>2. CASE b \in s.log
            BY <4>2, <5>1, <6>1, <6>2 DEF KeptBy
          <6>3. CASE b \in new
            BY <1>2, <6>1, <6>3
          <6> QED BY <1>1, <6>2, <6>3
        <5> QED BY <4>2, <5>1 DEF KeptBy
      <4> QED BY <4>1, <4>2
    <3> QED BY <1>1, <3>1, <3>2
  <2>3. ASSUME NEW t \in Tasks, NEW c \in Nat, NEW k \in Nat, Splits(s, t, c, k),
               NEW o \in p.tx_buffer, NEW i \in Nat, o.key = AuditKey(t, i)
        PROVE  i >= k /\ o.tx > c
    BY <1>1, <2>3 DEF Splits
  <2> QED BY <2>1, <2>2, <2>3 DEF Splits
<1> QED BY <1>4 DEF p

(* rollback_to_tx. *)
LEMMA RollbackRetains ==
  ASSUME NEW s, StoreType(s), NEW target \in Collection
  PROVE  Retains(RollbackToTx(s, target), s)
<1> DEFINE p == RollbackToTx(s, target)
<1>1. /\ p.log \subseteq s.log
      /\ \A r \in p.memtable : r \in p.log \/ (r \in UNION s.sstables /\ r.tx <= target)
      /\ \A r \in UNION p.sstables : r \in UNION s.sstables /\ r.tx <= target
      /\ p.tx_buffer = s.tx_buffer /\ p.seq = NextSeq(p.log, p.sstables)
  BY RollbackStore DEF StoreType
<1> HIDE DEF p
<1>2. Readable(p) \subseteq Readable(s)
  BY <1>1 DEF Readable, StoreType
<1>3. LogOrdered(p)
  <2>1. PICK n \in Nat : \A r \in Readable(s) : r.seq \in Nat /\ r.seq <= n
    BY DEF StoreType
  <2>2. p.log \cup UNION p.sstables \subseteq Readable(s)
    BY <1>1 DEF Readable, StoreType
  <2>3. \A r \in p.log : r.seq < NextSeq(p.log, p.sstables)
    BY <2>1, <2>2, NextSeqAbove
  <2> QED BY <1>1, <2>3 DEF LogOrdered
<1>4. Retains(p, s)
  BY <1>1, <1>2, <1>3, SubsetRetains
<1> QED BY <1>4 DEF p

(* A commit that fails. *)
LEMMA FailsRetains ==
  ASSUME NEW s, StoreType(s), NEW tx
  PROVE  Retains(CommitFails(s, tx), s)
<1> DEFINE d == Rollback(s, tx)
           lct == s.last_committed_tx
<1>1. StoreType(d) /\ lct \in Collection /\ CommitFails(s, tx) = RollbackToTx(d, lct)
  BY DrainType DEF StoreType, CommitFails
<1>2. Retains(d, s)
  BY DrainRetains
<1> HIDE DEF d, lct
<1>3. Retains(RollbackToTx(d, lct), d)
  BY <1>1, RollbackRetains
<1> QED BY <1>1, <1>2, <1>3, RetainsChain

(* A flush. *)
LEMMA FlushRetains ==
  ASSUME NEW s, StoreType(s)
  PROVE  Retains(Flush(s), s)
<1> DEFINE p == Flush(s)
<1>1. Readable(p) \subseteq Readable(s) /\ p.log = {} /\ p.tx_buffer = s.tx_buffer
  BY FlushType, FlushStore
<1> HIDE DEF p
<1>2. Retains(p, s)
  BY <1>1, SubsetRetains DEF LogOrdered
<1> QED BY <1>2 DEF p

(* The opening of the store. *)
LEMMA ReopenRetains ==
  ASSUME NEW s, StoreType(s)
  PROVE  Retains(Reopen(s), s)
<1> DEFINE p == Reopen(s)
<1>1. StoreType(Replayed(s))
  BY ReplayedStore
<1>2. Readable(p) \subseteq Readable(s) /\ p.log = {} /\ p.tx_buffer = {}
  BY <1>1, ReopenType, ReopenIs, FlushStore
<1> HIDE DEF p
<1>3. Retains(p, s)
  BY <1>2, SubsetRetains DEF LogOrdered
<1> QED BY <1>3 DEF p

(* The reservation of ids by the checkpoint store. *)
LEMMA ReservedRetains ==
  ASSUME NEW s, StoreOK(s)
  PROVE  Retains(Reserved(s), s)
<1>1. CASE hwm_reserved
  <2>1. Reserved(s) = s
    BY <1>1 DEF Reserved
  <2> QED BY <2>1 DEF Retains
<1>2. CASE ~hwm_reserved
  <2> DEFINE e == [tx |-> INTERNAL_BASE, key |-> HwmKey, val |-> <<>>]
             a == Put(s, INTERNAL_BASE, HwmKey, <<>>)
             c == Commit(a, INTERNAL_BASE)
  <2>1. e.tx = INTERNAL_BASE /\ e.key[1] = "hwm" /\ HwmKey[1] = "hwm"
    BY DEF HwmKey
  <2>2. RowOK(e)
    <3> HIDE DEF e
    <3> QED BY <2>1 DEF RowOK, InternalKinds
  <2>3. StoreType(s) /\ StoreType(a)
    BY <2>2, InternalPut DEF StoreOK
  <2>4. Retains(a, s)
    BY <2>1, <2>3, PutRetains
  <2>5. Reserved(s) = Flush(c)
    BY <1>2 DEF Reserved
  <2> HIDE DEF a
  <2>6. Retains(c, a) /\ StoreType(c)
    BY <2>3, CommitRetains, CommitType
  <2> HIDE DEF c
  <2>7. Retains(Flush(c), c)
    BY <2>6, FlushRetains
  <2>8. Retains(c, s)
    BY <2>4, <2>6, RetainsChain
  <2> QED BY <2>5, <2>7, <2>8, RetainsChain
<1> QED BY <1>1, <1>2

(* A commit, or its failure. *)
LEMMA CommitsRetains ==
  ASSUME EngineType, NEW tx, Commits(tx) \/ CommitError(tx)
  PROVE  Retains(store', store)
<1>1. StoreType(store)
  BY DEF EngineType, StoreOK
<1>2. store' = Commit(store, tx) \/ store' = CommitFails(store, tx)
  BY StoresFacts DEF Commits, CommitError
<1> QED BY <1>1, <1>2, CommitRetains, FailsRetains


-----------------------------------------------------------------------------

(* Every checkpoint of p is one of s. *)
NoneAdded(p, s) ==
    \A r \in Readable(p) : r.key[1] = "checkpoint" =>
        \E q \in Readable(s) : q.key = r.key /\ q.val = r.val

(* Between two steps no checkpoint is staged. *)
LEMMA CheckpointStored ==
  ASSUME NEW s, StoreOK(s), NEW r \in Held(s), r.key[1] = "checkpoint"
  PROVE  r \in Readable(s)
<1>1. r.tx = INTERNAL_BASE
  <2>1. RowOK(r)
    BY HeldType DEF StoreOK
  <2> QED BY <2>1 DEF RowOK, InternalKinds
<1> QED BY <1>1, Base DEF StoreOK, Held

(* The operations that save no checkpoint add none. *)
LEMMA ShrinksAdds ==
  ASSUME NEW s, StoreOK(s), NEW p, Shrinks(p, s)
  PROVE  NoneAdded(p, s)
<1> SUFFICES ASSUME NEW r \in Readable(p), r.key[1] = "checkpoint"
             PROVE  \E q \in Readable(s) : q.key = r.key /\ q.val = r.val
  BY DEF NoneAdded
<1>1. PICK q \in Held(s) : q.key = r.key /\ q.val = r.val
  BY DEF Shrinks, NoneSaved, Below, Held
<1> QED BY <1>1, CheckpointStored

(* The types of what a checkpoint says. *)
LEMMA CheckpointType ==
  ASSUME NEW s, StoreType(s), NEW r \in Readable(s), r.key[1] = "checkpoint"
  PROVE  r.val.tx_id \in Nat /\ r.val.step \in Nat
BY HeldType DEF Held

(* What is stored stays divided. *)
LEMMA StoreSplit ==
  ASSUME Steady, SplitAll, Retains(store', store), NoneAdded(store', store)
  PROVE  CheckpointsSplit(store') /\ StepsNamed(store') /\ LogOrdered(store')
<1>1. StoreType(store)
  BY DEF Steady, EngineType, StoreOK
<1>2. LogOrdered(store')
  BY DEF SplitAll, Retains
<1>3. ASSUME NEW r \in Readable(store'), NEW t \in Tasks, IsCheckpoint(r, t)
      PROVE  Splits(store', t, r.val.tx_id, r.val.step)
  <2>1. PICK q \in Readable(store) : q.key = r.key /\ q.val = r.val
    BY <1>3 DEF NoneAdded, IsCheckpoint
  <2>2. Splits(store, t, q.val.tx_id, q.val.step)
    BY <1>3, <2>1 DEF SplitAll, CheckpointsSplit, IsCheckpoint
  <2>3. q.val.tx_id \in Nat /\ q.val.step \in Nat
    BY <1>1, <1>3, <2>1, CheckpointType DEF IsCheckpoint
  <2>4. Splits(store', t, q.val.tx_id, q.val.step)
    BY <2>2, <2>3 DEF SplitAll, Retains
  <2> QED BY <2>1, <2>4
<1>4. ASSUME NEW r \in Readable(store'), r.key[1] = "checkpoint"
      PROVE  r.key[4] = r.val.step
  <2>1. PICK q \in Readable(store) : q.key = r.key /\ q.val = r.val
    BY <1>4 DEF NoneAdded
  <2> QED BY <1>4, <2>1 DEF SplitAll, StepsNamed
<1> QED BY <1>2, <1>3, <1>4 DEF CheckpointsSplit, StepsNamed

(* No audit entry of a task is of a later step. *)
LEMMA EntriesBefore ==
  ASSUME Steady, NEW t \in Tasks, ~Waiting(call[t], ctx[t], count["restart"]),
         NEW a \in Held(store), NEW i \in Nat, a.key = AuditKey(t, i)
  PROVE  i <= ctx[t].step
<1>1. Covers(store, t, INTERNAL_BASE, ctx[t].step, Spare(call[t], ctx[t]))
  BY DEF Steady, BudgetAll, TasksCovered, TaskCovered
<1>2. a.tx <= INTERNAL_BASE
  BY HeldType DEF Steady, EngineType, StoreOK
<1> QED BY <1>1, <1>2 DEF Covers

\* A task goes on to a step that is not audited, or from a place at which its step is not.
Proceeds(t) ==
    /\ call[t].pc # "idle" /\ call'[t].pc # "save"
    /\ Early(call'[t], ctx'[t]) =>
          \/ ctx'[t].step = ctx[t].step + 1
          \/ ctx'[t].step = ctx[t].step /\ Early(call[t], ctx[t])

(* The current step of a task that goes on has no entry at the places at which it may not. *)
LEMMA EarlyStays ==
  ASSUME Steady, SplitAll, EntriesShrink(store', store), NEW u \in Tasks,
         ~Waiting(call[u], ctx[u], count["restart"]), Early(call'[u], ctx'[u]),
         \/ ctx'[u].step = ctx[u].step + 1
         \/ ctx'[u].step = ctx[u].step /\ Early(call[u], ctx[u]),
         NEW a \in Held(store')
  PROVE  a.key # AuditKey(u, ctx'[u].step)
<1> SUFFICES ASSUME a.key = AuditKey(u, ctx'[u].step)
             PROVE  FALSE
  OBVIOUS
<1>1. ctx[u].step \in Nat
  BY SteadyTypes DEF ContextType
<1>2. PICK b \in Held(store) : b.key = AuditKey(u, ctx'[u].step)
  BY KeyKinds DEF EntriesShrink, Below
<1>3. CASE ctx'[u].step = ctx[u].step + 1
  <2>1. ctx[u].step + 1 <= ctx[u].step
    BY <1>1, <1>2, <1>3, EntriesBefore
  <2> QED BY <1>1, <2>1
<1>4. CASE ctx'[u].step = ctx[u].step /\ Early(call[u], ctx[u])
  BY <1>2, <1>4 DEF SplitAll, TaskSplit
<1> QED BY <1>3, <1>4

(* The checkpoints of a task stay at or before its step. *)
LEMMA NoneLaterStays ==
  ASSUME NEW s, NEW p, StoreType(s), NoneAdded(p, s), NEW t \in Tasks, NEW k \in Nat,
         NoneLater(s, t, k), NEW m \in Nat, k <= m
  PROVE  NoneLater(p, t, m)
<1> SUFFICES ASSUME NEW r \in Readable(p), IsCheckpoint(r, t)
             PROVE  r.val.step <= m
  BY DEF NoneLater
<1>1. PICK q \in Readable(s) : q.key = r.key /\ q.val = r.val
  BY DEF NoneAdded, IsCheckpoint
<1>2. q.val.step <= k /\ q.val.step \in Nat
  BY <1>1, CheckpointType DEF NoneLater, IsCheckpoint
<1> QED BY <1>1, <1>2

(* A task that does not move, or that goes on. *)
LEMMA TaskSplitStays ==
  ASSUME Steady, SplitAll, EntriesShrink(store', store), NoneAdded(store', store),
         Retains(store', store), NEW u \in Tasks,
         (call'[u] = call[u] /\ ctx'[u] = ctx[u]) \/ (Moves(u) /\ Proceeds(u))
  PROVE  TaskSplit(store', u, call'[u], ctx'[u], count'["restart"])
<1> DEFINE w == Waiting(call[u], ctx[u], count["restart"])
           v == Waiting(call'[u], ctx'[u], count'["restart"])
<1>0. /\ StoreType(store) /\ ctx[u].step \in Nat /\ call[u].cp \in Nat
      /\ call[u] \in CallType
  BY SteadyTypes, Base DEF Steady, EngineType, StoreOK, ContextType, CallType
<1>1. TaskSplit(store, u, call[u], ctx[u], count["restart"])
  BY DEF SplitAll
<1>2. count'["restart"] = count["restart"]
  BY DEF Steady
<1>3. CASE call'[u] = call[u] /\ ctx'[u] = ctx[u]
  <2>1. call[u].pc # "idle" => NoneLater(store', u, ctx[u].step)
    BY <1>0, <1>1, NoneLaterStays DEF TaskSplit
  <2>2. ~w /\ Early(call[u], ctx[u]) => \A a \in Held(store') : a.key # AuditKey(u, ctx[u].step)
    BY <1>3, EarlyStays
  <2>3. call[u].pc = "save" => Splits(store', u, call[u].cp, ctx[u].step)
    BY <1>0, <1>1 DEF TaskSplit, SplitAll, Retains
  <2> QED BY <1>2, <1>3, <2>1, <2>2, <2>3 DEF TaskSplit
<1>4. CASE Moves(u) /\ Proceeds(u)
  <2>1. ctx'[u].step \in Nat /\ ctx[u].step <= ctx'[u].step /\ ~w
    BY <1>0, <1>4 DEF Moves
  <2>2. NoneLater(store', u, ctx'[u].step)
    <3>1. NoneLater(store, u, ctx[u].step)
      BY <1>1, <1>4 DEF TaskSplit, Proceeds
    <3> QED BY <1>0, <2>1, <3>1, NoneLaterStays
  <2>3. Early(call'[u], ctx'[u]) => \A a \in Held(store') : a.key # AuditKey(u, ctx'[u].step)
    BY <1>4, <2>1, EarlyStays DEF Proceeds
  <2> QED BY <1>4, <2>2, <2>3 DEF TaskSplit, Proceeds
<1> QED BY <1>3, <1>4

(* A step by which tasks go on. *)
LEMMA SplitMoves ==
  ASSUME Steady, SplitAll, Shrinks(store', store), Retains(store', store),
         \A u \in Tasks : \/ call'[u] = call[u] /\ ctx'[u] = ctx[u]
                          \/ Moves(u) /\ Proceeds(u)
  PROVE  SplitAll'
<1>1. NoneAdded(store', store)
  BY ShrinksAdds DEF Steady, EngineType
<1>2. CheckpointsSplit(store') /\ StepsNamed(store') /\ LogOrdered(store')
  BY <1>1, StoreSplit
<1>3. \A u \in Tasks : TaskSplit(store', u, call'[u], ctx'[u], count'["restart"])
  BY <1>1, TaskSplitStays DEF Shrinks
<1> QED BY <1>2, <1>3 DEF SplitAll

(* A step by which one task does. *)
LEMMA SplitMove ==
  ASSUME Steady, SplitAll, Shrinks(store', store), Retains(store', store),
         NEW t \in Tasks, OnlyMoves(t), Moves(t), Proceeds(t)
  PROVE  SplitAll'
BY SplitMoves DEF OnlyMoves

(* No operation. *)
LEMMA SameRetains ==
  ASSUME NEW s
  PROVE  Retains(s, s)
BY DEF Retains

-----------------------------------------------------------------------------

(* The places of a step from its execution to its end. *)
Late == {"reserve", "execute", "letter", "letter_put", "audit", "audit_put", "failure",
         "failure_put", "commit", "commit_put", "advance"}

(* The places before it, other than the save of the checkpoint. *)
Before == {"recover", "recovering", "loop", "final_put", "flush", "checkpoint"}

(* A jump to, or behind, the execution of a step. *)
LEMMA ProceedsLate ==
  ASSUME NEW t \in Tasks, call[t].pc # "idle", call'[t].pc \in Late
  PROVE  Proceeds(t)
BY DEF Proceeds, Early, Late

(* A jump before it. *)
LEMMA ProceedsBefore ==
  ASSUME NEW t \in Tasks, call[t].pc \in Before, call'[t].pc \in Before,
         ctx'[t].step = ctx[t].step
  PROVE  Proceeds(t)
BY DEF Proceeds, Early, Before

(* A failure. *)
LEMMA ProceedsFailed ==
  ASSUME TasksOK, NEW t \in Tasks, call[t].pc # "idle", Returns(t, "Failed")
  PROVE  Proceeds(t)
<1>1. DOMAIN call = Tasks /\ DOMAIN ctx = Tasks /\ ctx[t] \in ContextType
  BY DEF TasksOK
<1>2. call'[t] = NoCall /\ ctx'[t].status = "Failed"
  BY <1>1 DEF Returns, ContextType
<1>3. NoCall.pc = "idle"
  BY DEF NoCall
<1> QED BY <1>2, <1>3 DEF Proceeds, Early

(* The steps of a task that do not reach the store. *)
LEMMA QuietProceeds ==
  ASSUME EngineType, NEW t \in Tasks,
         \/ RecoverRead(t) \/ LimitReached(t) \/ Decide(t) \/ StepBegin(t)
         \/ Reserve(t) \/ ToolOk(t) \/ ToolError(t)
         \/ ToolTimeout(t) \/ RetryRefused(t) \/ Advance(t)
  PROVE  Proceeds(t)
<1>0. /\ TasksOK /\ call[t] \in CallType /\ ctx[t] \in ContextType
      /\ DOMAIN call = Tasks /\ DOMAIN ctx = Tasks
  BY DEF EngineType, TasksOK
<1>1. CASE RecoverRead(t)
  <2>1. call[t].pc = "recover" /\ call'[t].pc \in {"loop", "recovering"} /\ ctx' = ctx
    BY <1>0, <1>1 DEF RecoverRead, CallType, At
  <2> QED BY <2>1, ProceedsBefore DEF Before
<1>2. CASE LimitReached(t)
  <2>1. call[t].pc = "loop" /\ call'[t].pc = "failure"
    BY <1>0, <1>2, GotoMoves DEF LimitReached, At
  <2> QED BY <2>1, ProceedsLate DEF Late
<1>3. CASE Decide(t)
  <2>1. /\ call[t].pc = "loop" /\ call'[t].pc \in {"loop", "failure"}
        /\ ctx'[t].step = ctx[t].step
    BY <1>0, <1>3 DEF Decide, Goto, CallType, ContextType, At
  <2> QED BY <2>1, ProceedsBefore, ProceedsLate DEF Before, Late
<1>4. CASE StepBegin(t)
  <2>1. call[t].pc = "loop" /\ call'[t].pc = "checkpoint" /\ ctx' = ctx
    BY <1>0, <1>4 DEF StepBegin, CallType, At
  <2> QED BY <2>1, ProceedsBefore DEF Before
<1>5. CASE Reserve(t)
  <2>1. call[t].pc = "reserve" /\ call'[t].pc \in {"audit", "failure", "execute", "letter"}
    BY <1>0, <1>5 DEF Reserve, CallType, At
  <2> QED BY <2>1, ProceedsLate DEF Late
<1>6. CASE ToolOk(t)
  <2>1. call[t].pc = "execute" /\ call'[t].pc = "audit"
    BY <1>0, <1>6 DEF ToolOk, Settled, CallType, At
  <2> QED BY <2>1, ProceedsLate DEF Late
<1>7. CASE ToolError(t) \/ ToolTimeout(t) \/ RetryRefused(t)
  <2>1. call[t].pc = "execute" /\ call'[t].pc \in {"execute", "letter"}
    BY <1>0, <1>7 DEF ToolError, ToolTimeout, RetryRefused, CallType, At
  <2> QED BY <2>1, ProceedsLate DEF Late
<1>8. CASE Advance(t)
  <2>1. CASE Goto(t, "failure") /\ UNCHANGED ctx
    <3>1. call[t].pc = "advance" /\ call'[t].pc = "failure"
      BY <1>0, <1>8, <2>1, GotoMoves DEF Advance, At
    <3> QED BY <3>1, ProceedsLate DEF Late
  <2>2. ASSUME NEW next, ctx' = [ctx EXCEPT ![t].node = next, ![t].step = @ + 1],
               call' = [call EXCEPT ![t] = [NoCall EXCEPT !.pc = "loop"]]
        PROVE  Proceeds(t)
    <3>1. call[t].pc = "advance" /\ call'[t].pc = "loop" /\ ctx'[t].step = ctx[t].step + 1
      BY <1>0, <1>8, <2>2 DEF Advance, At, NoCall, ContextType
    <3> QED BY <3>1 DEF Proceeds
  <2> QED BY <1>8, <2>1, <2>2 DEF Advance
<1> QED BY <1>1, <1>2, <1>3, <1>4, <1>5, <1>6, <1>7, <1>8

(* They keep what is divided. *)
LEMMA QuietSplit ==
  ASSUME Steady, SplitAll, NEW t \in Tasks,
         \/ RecoverRead(t) \/ LimitReached(t) \/ Decide(t) \/ StepBegin(t)
         \/ Reserve(t) \/ ToolOk(t) \/ ToolError(t)
         \/ ToolTimeout(t) \/ RetryRefused(t) \/ Advance(t)
  PROVE  SplitAll'
<1>1. EngineType
  BY DEF Steady
<1>2. OnlyMoves(t) /\ UNCHANGED store
  BY <1>1, QuietSteps
<1>3. Moves(t)
  BY ReserveMoves, ToolOkMoves, AdvanceMoves, PlainMoves
<1>4. Proceeds(t)
  BY <1>1, QuietProceeds
<1>5. Shrinks(store', store) /\ Retains(store', store)
  BY <1>2, SameShrinks, SameRetains
<1> QED BY <1>2, <1>3, <1>4, <1>5, SplitMove

(* A task commits what it has put, or fails to. *)
LEMMA CommitSplit ==
  ASSUME Steady, SplitAll, NEW t \in Tasks,
         LetterCommit(t) \/ AuditCommit(t) \/ StepCommit(t) \/ FinalCommit(t)
  PROVE  SplitAll'
<1>0. EngineType /\ TasksOK /\ CallOK(call[t], ctx[t])
  BY SteadyTypes DEF Steady
<1>1. /\ Commits(call[t].tx) \/ CommitError(call[t].tx)
      /\ call[t].pc \in {"letter_put", "audit_put", "failure_put", "commit_put", "final_put"}
  BY DEF LetterCommit, AuditCommit, StepCommit, FinalCommit, At
<1>2. Shrinks(store', store) /\ Retains(store', store)
  BY <1>0, <1>1, CommitsShrinks, CommitsRetains
<1>3. OnlyMoves(t) /\ Moves(t) /\ Proceeds(t)
  <2>1. CASE LetterCommit(t)
    <3>1. Goto(t, call[t].next) /\ ctx' = ctx /\ call[t].next \in {"failure", "execute"}
      BY <1>0, <2>1 DEF LetterCommit, At, CallOK
    <3>2. call'[t].pc = call[t].next
      BY <1>0, <3>1, GotoMoves
    <3> QED BY <1>1, <3>1, <3>2, MovesGoto, ProceedsLate DEF Late
  <2>2. CASE Returns(t, "Failed")
    BY <1>0, <1>1, <2>2, MovesReturns, ProceedsFailed
  <2>3. CASE Goto(t, "commit") /\ ctx' = ctx
    <3>1. call'[t].pc = "commit"
      BY <1>0, <2>3, GotoMoves
    <3> QED BY <1>1, <2>3, <3>1, MovesGoto, ProceedsLate DEF Late
  <2>4. CASE Goto(t, "advance") /\ ctx' = ctx
    <3>1. call'[t].pc = "advance"
      BY <1>0, <2>4, GotoMoves
    <3> QED BY <1>1, <2>4, <3>1, MovesGoto, ProceedsLate DEF Late
  <2>5. CASE FinalCommit(t) /\ Goto(t, "flush") /\ ctx' = ctx
    <3>1. call[t].pc = "final_put" /\ call'[t].pc = "flush"
      BY <1>0, <2>5, GotoMoves DEF FinalCommit, At
    <3> QED BY <1>1, <2>5, <3>1, MovesGoto, ProceedsBefore DEF Before
  <2> QED BY <2>1, <2>2, <2>3, <2>4, <2>5 DEF AuditCommit, StepCommit, FinalCommit
<1> QED BY <1>2, <1>3, SplitMove

(* A task puts a letter, a step or a final state. *)
LEMMA PutSplit ==
  ASSUME Steady, SplitAll, NEW t \in Tasks, LetterPut(t) \/ StepPut(t) \/ FinalPut(t)
  PROVE  SplitAll'
<1>0. /\ call[t] \in CallType /\ ctx[t] \in ContextType /\ StoreType(store)
      /\ DOMAIN call = Tasks /\ DOMAIN ctx = Tasks
  BY SteadyTypes DEF Steady, EngineType, StoreOK
<1>1. \E tx, key, val : /\ key[1] \notin {"audit", "checkpoint"}
                        /\ store' = Put(store, tx, key, val)
  <2>1. CASE LetterPut(t)
    <3>1. LetterKey(t, Node(t), ctx[t].step)[1] \notin {"audit", "checkpoint"}
      BY KeyKinds
    <3> QED BY <2>1, <3>1, StoresFacts DEF LetterPut
  <2>2. CASE StepPut(t)
    <3>1. StepKey(t, ctx[t].step)[1] \notin {"audit", "checkpoint"}
      BY KeyKinds
    <3> QED BY <2>2, <3>1, StoresFacts DEF StepPut
  <2>3. CASE FinalPut(t)
    <3>1. FinalKey(t)[1] \notin {"audit", "checkpoint"}
      BY KeyKinds
    <3> QED BY <2>3, <3>1, StoresFacts DEF FinalPut
  <2> QED BY <2>1, <2>2, <2>3
<1>2. Shrinks(store', store) /\ Retains(store', store)
  BY <1>0, <1>1, PutShrinks, PutRetains
<1>3. OnlyMoves(t)
  BY <1>0 DEF LetterPut, StepPut, FinalPut, OnlyMoves
<1>4. /\ call[t].pc \in {"letter", "commit", "loop"}
      /\ call'[t].reserved = call[t].reserved
      /\ call'[t].pc \in {"letter_put", "commit_put", "final_put"}
      /\ call'[t].pc = "final_put" => call[t].pc = "loop"
      /\ ctx'[t].step = ctx[t].step /\ ctx'[t].consumed = ctx[t].consumed
  BY <1>0 DEF LetterPut, StepPut, FinalPut, CallType, ContextType, At
<1>5. Moves(t)
  BY <1>4, MovesSame DEF Waiting
<1>6. Proceeds(t)
  BY <1>4, ProceedsLate, ProceedsBefore DEF Late, Before
<1> QED BY <1>2, <1>3, <1>5, <1>6, SplitMove

(* The flush at an End node. *)
LEMMA FinalFlushSplit ==
  ASSUME Steady, SplitAll, NEW t \in Tasks, FinalFlush(t)
  PROVE  SplitAll'
<1>0. StoreType(store) /\ TasksOK
  BY DEF Steady, EngineType, StoreOK
<1>1. call[t].pc = "flush" /\ Goto(t, "checkpoint") /\ ctx' = ctx /\ store' = Flush(store)
  BY StoresFacts DEF FinalFlush, At
<1>2. OnlyMoves(t) /\ Moves(t)
  BY <1>1, MovesGoto
<1>3. Shrinks(store', store) /\ Retains(store', store)
  BY <1>0, <1>1, FlushShrinks, FlushRetains
<1>4. Proceeds(t)
  BY <1>0, <1>1, GotoMoves, ProceedsBefore DEF Before
<1> QED BY <1>2, <1>3, <1>4, SplitMove

(* An orphan is rolled back to, or is not. *)
LEMMA RecoverOrphanSplit ==
  ASSUME Steady, SplitAll, NEW t \in Tasks, RecoverOrphan(t)
  PROVE  SplitAll'
<1> DEFINE cp == Head(call[t].todo)
           rest == Tail(call[t].todo)
<1>0. /\ StoreType(store) /\ DOMAIN call = Tasks
      /\ call[t] \in CallType /\ CallOK(call[t], ctx[t])
  BY SteadyTypes DEF Steady, EngineType, StoreOK
<1>1. call[t].pc = "recovering" /\ ctx' = ctx
  BY DEF RecoverOrphan, At
<1>2. cp \in Collection
  BY <1>0, <1>1 DEF CallType, CallOK
<1>3. store' = store \/ store' = RollbackToTx(store, cp)
  BY StoresFacts DEF RecoverOrphan
<1>4. call' = [call EXCEPT ![t].todo = rest,
                           ![t].pc = IF rest = <<>> THEN "loop" ELSE "recovering"]
  BY DEF RecoverOrphan
<1> HIDE DEF cp, rest
<1>5. Shrinks(store', store) /\ Retains(store', store)
  <2>1. CASE store' = store
    BY <2>1, SameShrinks, SameRetains
  <2>2. CASE store' = RollbackToTx(store, cp)
    BY <1>0, <1>2, <2>2, RollbackShrinks, RollbackRetains
  <2> QED BY <1>3, <2>1, <2>2
<1>6. /\ OnlyMoves(t) /\ call'[t].reserved = call[t].reserved
      /\ call'[t].pc \in {"loop", "recovering"}
  BY <1>0, <1>1, <1>4 DEF OnlyMoves, CallType
<1>7. Moves(t)
  BY <1>1, <1>6, MovesSame DEF Waiting
<1>8. Proceeds(t)
  BY <1>1, <1>6, ProceedsBefore DEF Before
<1> QED BY <1>5, <1>6, <1>7, <1>8, SplitMove

(* Steps of the other clients, the flushes, and no step. *)
LEMMA OthersSplit ==
  ASSUME Steady, SplitAll,
         ClientPut \/ ClientCommit \/ FlushOrphans \/ MemtableFull \/ UNCHANGED vars
  PROVE  SplitAll'
<1>0. EngineType /\ StoreType(store)
  BY DEF Steady, EngineType, StoreOK
<1>1. UNCHANGED <<call, ctx>>
  BY DEF ClientPut, ClientCommit, FlushOrphans, MemtableFull, vars, shared
<1>2. Shrinks(store', store) /\ Retains(store', store)
  <2>1. CASE ClientPut
    <3>1. ClientKey(count["client_write"])[1] \notin {"audit", "checkpoint"}
      BY KeyKinds
    <3> QED BY <1>0, <2>1, <3>1, PutShrinks, PutRetains, StoresFacts DEF ClientPut
  <2>2. CASE ClientCommit
    BY <1>0, <2>2, CommitsShrinks, CommitsRetains DEF ClientCommit
  <2>3. CASE FlushOrphans \/ UNCHANGED vars
    BY <2>3, SameShrinks, SameRetains DEF FlushOrphans, vars, shared
  <2>4. CASE MemtableFull
    BY <1>0, <2>4, FlushShrinks, FlushRetains, StoresFacts DEF MemtableFull
  <2> QED BY <2>1, <2>2, <2>3, <2>4
<1> QED BY <1>1, <1>2, SplitMoves

-----------------------------------------------------------------------------

\* A task that moves in a store that stays as it is.
LEMMA QuietMove ==
  ASSUME Steady, SplitAll, NEW t \in Tasks, OnlyMoves(t), UNCHANGED store,
         TaskSplit(store, t, call'[t], ctx'[t], count'["restart"])
  PROVE  SplitAll'
<1>1. \A u \in Tasks : TaskSplit(store, u, call'[u], ctx'[u], count'["restart"])
  BY DEF OnlyMoves, SplitAll, Steady
<1> QED BY <1>1 DEF SplitAll

\* list_checkpoints shows every step that a checkpoint of the task is stored of.
LEMMA ScanSteps ==
  ASSUME EngineType, StepsNamed(store), NEW t \in Tasks, NEW r \in Readable(store),
         IsCheckpoint(r, t)
  PROVE  \E q \in CheckpointsOf(t) : q.val.step = r.val.step
<1> DEFINE V == {x \in store.memtable \cup UNION store.sstables :
                    Internal(x) \/ x.tx <= store.last_committed_tx}
<1>1. StoreType(store) /\ V \subseteq Readable(store)
  BY DEF EngineType, StoreOK, Readable
<1>2. Internal(r)
  BY <1>1, StoreRows DEF IsCheckpoint, InternalKinds
<1>3. r \in V /\ Scan(store) = Newest(V)
  BY <1>2 DEF Readable, Scan
<1> HIDE DEF V
<1>4. PICK q \in Newest(V) : q.key = r.key
  BY <1>1, <1>3, NewestExists
<1>5. q \in Readable(store) /\ q \in Scan(store)
  BY <1>1, <1>3, <1>4 DEF Newest
<1>6. q \in CheckpointsOf(t)
  BY <1>4, <1>5 DEF CheckpointsOf, IsCheckpoint
<1>7. q.val.step = r.val.step
  BY <1>4, <1>5 DEF StepsNamed, IsCheckpoint
<1> QED BY <1>6, <1>7

\* A run that is not "stale" finds no checkpoint of a later step; after a failure it goes on
\* to the next step.
LEMMA RunSplit ==
  ASSUME Steady, SplitAll, "run_without_replay" \notin Environment,
         "same_step" \notin Environment, "stale" \notin departures',
         NEW t \in Tasks, Run(t)
  PROVE  SplitAll'
<1>0. /\ EngineType /\ StoreType(store) /\ call[t] \in CallType /\ ctx[t] \in ContextType
      /\ DOMAIN call = Tasks /\ DOMAIN ctx = Tasks
  BY SteadyTypes DEF Steady, EngineType, StoreOK
<1>1. OnlyMoves(t) /\ UNCHANGED store
  BY <1>0, QuietSteps
<1>2. call[t].pc = "idle" /\ call'[t].pc = "recover"
  BY <1>0 DEF Run, Goto, CallType, At
<1>3. Moves(t)
  BY RunMoves
<1>4. ~Waiting(call[t], ctx[t], count["restart"])
  BY <1>3 DEF Moves
<1>5. \/ ctx'[t].step = ctx[t].step + 1
      \/ ctx'[t].step = ctx[t].step /\ Early(call[t], ctx[t])
  <2>1. CASE ctx[t].status = "Failed"
    BY <1>0, <2>1 DEF Run, ContextType
  <2>2. CASE ctx[t].status # "Failed"
    BY <1>0, <1>2, <2>2 DEF Run, ContextType, Early
  <2> QED BY <2>1, <2>2
<1>6. EntriesShrink(store', store)
  BY <1>1, SameShrinks DEF Shrinks
<1>7. Early(call'[t], ctx'[t])
  BY <1>2 DEF Early
<1>8. \A a \in Held(store) : a.key # AuditKey(t, ctx'[t].step)
  BY <1>1, <1>4, <1>5, <1>6, <1>7, EarlyStays
<1>9. NoneLater(store, t, ctx'[t].step)
  <2> SUFFICES ASSUME NEW r \in Readable(store), IsCheckpoint(r, t)
               PROVE  r.val.step <= ctx'[t].step
    BY DEF NoneLater
  <2>1. PICK q \in CheckpointsOf(t) : q.val.step = r.val.step
    BY <1>0, ScanSteps DEF SplitAll
  <2>2. ~(q.val.step > ctx'[t].step)
    BY DEF Run
  <2>3. r.val.step \in Nat /\ ctx'[t].step \in Nat
    <3>1. r.val.step \in Nat
      BY <1>0, CheckpointType DEF IsCheckpoint
    <3>2. ctx'[t].step \in Nat
      BY <1>0, <1>5 DEF ContextType
    <3> QED BY <3>1, <3>2
  <2> QED BY <2>1, <2>2, <2>3
<1>10. TaskSplit(store, t, call'[t], ctx'[t], count'["restart"])
  BY <1>2, <1>8, <1>9 DEF TaskSplit
<1> QED BY <1>1, <1>10, QuietMove

\* A checkpoint reads last_committed_tx: everything committed is at or below it, and the
\* step it is of has no entry.
LEMMA CheckpointReadSplit ==
  ASSUME Steady, SplitAll, NEW t \in Tasks, CheckpointRead(t)
  PROVE  SplitAll'
<1> DEFINE c == store.last_committed_tx
           k == ctx[t].step
<1>0. /\ EngineType /\ StoreType(store) /\ call[t] \in CallType /\ ctx[t] \in ContextType
      /\ DOMAIN call = Tasks
  BY SteadyTypes DEF Steady, EngineType, StoreOK
<1>1. OnlyMoves(t) /\ UNCHANGED store
  BY <1>0, QuietSteps
<1>2. call[t].pc = "checkpoint" /\ call'[t].pc = "save" /\ call'[t].cp = c /\ ctx' = ctx
  BY <1>0 DEF CheckpointRead, CallType, At
<1>3. ~Waiting(call[t], ctx[t], count["restart"]) /\ Early(call[t], ctx[t])
  BY <1>2 DEF Waiting, Early
<1>4. /\ NoneLater(store, t, k) /\ \A a \in Held(store) : a.key # AuditKey(t, k)
  BY <1>2, <1>3 DEF SplitAll, TaskSplit
<1>5. c \in Nat /\ k \in Nat
  BY <1>0, Base DEF StoreType, ContextType
<1>6. Visible(store)
  BY DEF Steady, BudgetAll
<1>7. Splits(store, t, c, k)
  <2>1. ASSUME NEW a \in Readable(store), NEW i \in Nat, a.key = AuditKey(t, i)
        PROVE  i < k /\ KeptBy(store, a, c)
    <3>1. i <= k /\ i # k
      BY <1>3, <1>4, <2>1, EntriesBefore DEF Held
    <3>2. ~Internal(a)
      BY <1>0, <2>1, KeyKinds, StoreRows DEF InternalKinds
    <3>3. a.tx <= c
      BY <1>6, <2>1, <3>2 DEF Visible
    <3>4. ASSUME NEW b \in store.log, ~Internal(b), b.tx > c PROVE FALSE
      <4>1. b \in Readable(store)
        BY <1>0 DEF StoreType, Readable
      <4>2. b.tx <= c /\ b.tx \in Nat
        BY <1>0, <1>6, <3>4, <4>1, StoreRows, Base DEF Visible
      <4> QED BY <1>5, <3>4, <4>2
    <3>5. i < k
      BY <1>5, <3>1
    <3> QED BY <3>3, <3>4, <3>5 DEF KeptBy
  <2>2. ASSUME NEW o \in store.tx_buffer, NEW i \in Nat, o.key = AuditKey(t, i) PROVE FALSE
    BY <1>2, <2>2 DEF Steady, BudgetAll, StagedOwned
  <2> QED BY <2>1, <2>2 DEF Splits
<1>8. TaskSplit(store, t, call'[t], ctx'[t], count'["restart"])
  BY <1>2, <1>4, <1>7 DEF TaskSplit
<1> QED BY <1>1, <1>8, QuietMove

\* An audit entry is staged: all checkpoints of its task are of its step or before, and have
\* lower ids.
LEMMA AuditSplits ==
  ASSUME Steady, NEW t \in Tasks, NEW row, NEW p,
         p = Put(store, next_tx, AuditKey(t, ctx[t].step), row),
         NEW u \in Tasks, NEW c \in Nat, NEW k \in Nat, Splits(store, u, c, k),
         u = t => k <= ctx[t].step /\ c < next_tx
  PROVE  Splits(p, u, c, k)
<1> DEFINE e == [tx |-> next_tx, key |-> AuditKey(t, ctx[t].step), val |-> row]
<1>0. /\ StoreType(store) /\ ctx[t].step \in Nat /\ next_tx \in Nat
  BY SteadyTypes DEF Steady, EngineType, StoreOK, ContextType
<1>1. /\ p.log = store.log /\ p.memtable = store.memtable /\ p.sstables = store.sstables
      /\ p.tx_buffer = store.tx_buffer \cup {e}
  BY <1>0, PutStore DEF StoreType
<1>2. e.tx = next_tx /\ e.key = AuditKey(t, ctx[t].step)
  OBVIOUS
<1> HIDE DEF e
<1>3. ASSUME NEW a \in Readable(p), NEW i \in Nat, a.key = AuditKey(u, i)
      PROVE  IF i < k THEN KeptBy(p, a, c) ELSE a.tx > c
  <2>1. IF i < k THEN KeptBy(store, a, c) ELSE a.tx > c
    BY <1>1, <1>3 DEF Splits, Readable
  <2>2. KeptBy(store, a, c) => KeptBy(p, a, c)
    BY <1>1 DEF KeptBy
  <2> QED BY <2>1, <2>2
<1>4. ASSUME NEW o \in p.tx_buffer, NEW i \in Nat, o.key = AuditKey(u, i)
      PROVE  i >= k /\ o.tx > c
  <2>1. CASE o \in store.tx_buffer
    BY <1>4, <2>1 DEF Splits
  <2>2. CASE o = e
    <3>1. u = t /\ i = ctx[t].step
      BY <1>2, <1>4, <2>2 DEF AuditKey
    <3> QED BY <1>0, <1>2, <2>2, <3>1
  <2> QED BY <1>1, <2>1, <2>2
<1> QED BY <1>3, <1>4 DEF Splits

(* An audit entry is put if there is none; otherwise run returns. *)
LEMMA AuditPutSplit ==
  ASSUME Steady, SplitAll, NEW t \in Tasks, AuditPut(t)
  PROVE  SplitAll'
<1> DEFINE key == AuditKey(t, ctx[t].step)
           failed == At(t, "failure")
           row == [tokens |-> IF failed THEN 0 ELSE call[t].tokens, error |-> failed]
           pc == IF failed THEN "failure_put" ELSE "audit_put"
<1>0. /\ EngineType /\ StoreOK(store) /\ StoreType(store) /\ DOMAIN call = Tasks
      /\ TasksOK /\ call[t] \in CallType /\ ctx[t].step \in Nat
  BY SteadyTypes DEF Steady, EngineType, StoreOK, ContextType
<1>1. call[t].pc \in {"audit", "failure"}
  BY DEF AuditPut, At
<1>2. \/ /\ store' = Put(store, next_tx, key, row)
         /\ call' = [call EXCEPT ![t].tx = next_tx, ![t].pc = pc]
         /\ ctx' = ctx
      \/ /\ store' = Rollback(store, next_tx)
         /\ Returns(t, "Failed")
  BY DEF AuditPut, Stores
<1>3. CASE /\ store' = Put(store, next_tx, key, row)
           /\ call' = [call EXCEPT ![t].tx = next_tx, ![t].pc = pc]
           /\ ctx' = ctx
  <2>1. pc \in {"audit_put", "failure_put"}
    OBVIOUS
  <2>2. key[1] = "audit"
    BY KeyKinds
  <2> HIDE DEF row, pc, failed, key
  <2>3. call'[t].pc \in {"audit_put", "failure_put"} /\ ctx'[t] = ctx[t] /\ OnlyMoves(t)
    BY <1>0, <1>3, <2>1 DEF CallType, OnlyMoves
  <2>4. /\ store'.log = store.log /\ store'.memtable = store.memtable
        /\ store'.sstables = store.sstables /\ store'.seq = store.seq
        /\ store'.tx_buffer =
              store.tx_buffer \cup {[tx |-> next_tx, key |-> key, val |-> row]}
    BY <1>0, <1>3, PutStore DEF StoreType
  <2>5. Readable(store') = Readable(store)
    BY <2>4 DEF Readable
  <2>6. ASSUME NEW u \in Tasks, NEW c \in Nat, NEW k \in Nat, Splits(store, u, c, k),
               u = t => k <= ctx[t].step /\ c < next_tx
        PROVE  Splits(store', u, c, k)
    BY <1>3, <2>6, AuditSplits DEF key
  <2>7. CheckpointsSplit(store')
    <3> SUFFICES ASSUME NEW r \in Readable(store'), NEW u \in Tasks, IsCheckpoint(r, u)
                 PROVE  Splits(store', u, r.val.tx_id, r.val.step)
      BY DEF CheckpointsSplit
    <3>1. Splits(store, u, r.val.tx_id, r.val.step)
      BY <2>5 DEF SplitAll, CheckpointsSplit
    <3>2. r.val.tx_id \in Nat /\ r.val.step \in Nat
      BY <1>0, <2>5, CheckpointType DEF IsCheckpoint
    <3>3. ASSUME u = t PROVE r.val.step <= ctx[t].step /\ r.val.tx_id < next_tx
      <4>1. NoneLater(store, t, ctx[t].step)
        BY <1>1 DEF SplitAll, TaskSplit
      <4>2. CheckpointsOlder(store, t, call[t], ctx[t], count["restart"], next_tx)
        BY DEF Steady, BudgetAll, TasksCovered
      <4>3. r \in Held(store)
        BY <2>5 DEF Held
      <4>4. r.val.tx_id < next_tx
        BY <1>1, <3>3, <4>2, <4>3 DEF CheckpointsOlder, Waiting, IsCheckpoint
      <4> QED BY <2>5, <3>3, <4>1, <4>4 DEF NoneLater
    <3> QED BY <2>6, <3>1, <3>2, <3>3
  <2>8. StepsNamed(store') /\ LogOrdered(store')
    BY <2>4, <2>5 DEF SplitAll, StepsNamed, LogOrdered
  <2>9. ASSUME NEW u \in Tasks
        PROVE  TaskSplit(store', u, call'[u], ctx'[u], count'["restart"])
    <3>1. TaskSplit(store, u, call[u], ctx[u], count["restart"])
      BY DEF SplitAll
    <3>2. CASE u = t
      <4>1. NoneLater(store', t, ctx[t].step)
        BY <1>1, <2>5, <3>1, <3>2 DEF TaskSplit, NoneLater
      <4> QED BY <2>3, <3>2, <4>1 DEF TaskSplit, Early
    <3>3. CASE u # t
      <4>1. call'[u] = call[u] /\ ctx'[u] = ctx[u] /\ count'["restart"] = count["restart"]
        BY <2>3, <3>3 DEF OnlyMoves, Steady
      <4>2. call[u].pc # "idle" => NoneLater(store', u, ctx[u].step)
        BY <2>5, <3>1 DEF TaskSplit, NoneLater
      <4>3. call[u].pc = "save" => Splits(store', u, call[u].cp, ctx[u].step)
        <5>1. call[u].cp \in Nat /\ ctx[u].step \in Nat
          BY SteadyTypes, Base DEF CallType, ContextType
        <5> QED BY <2>6, <3>1, <3>3, <5>1 DEF TaskSplit
      <4>4. ASSUME NEW a \in Held(store'), a.key = AuditKey(u, ctx[u].step)
            PROVE  a \in Held(store)
        <5>1. key # AuditKey(u, ctx[u].step)
          BY <3>3 DEF key, AuditKey
        <5> QED BY <2>4, <2>5, <4>4, <5>1 DEF Held
      <4> QED BY <3>1, <4>1, <4>2, <4>3, <4>4 DEF TaskSplit
    <3> QED BY <3>2, <3>3
  <2> QED BY <2>7, <2>8, <2>9 DEF SplitAll
<1>4. CASE store' = Rollback(store, next_tx) /\ Returns(t, "Failed")
  <2>1. Shrinks(store', store) /\ Retains(store', store)
    BY <1>0, <1>4, DrainShrinks, DrainRetains
  <2>2. OnlyMoves(t) /\ Moves(t) /\ Proceeds(t)
    BY <1>0, <1>1, <1>4, MovesReturns, ProceedsFailed
  <2> QED BY <2>1, <2>2, SplitMove
<1> QED BY <1>2, <1>3, <1>4

-----------------------------------------------------------------------------

\* A checkpoint is saved: the store is divided at it since the checkpoint was read.
LEMMA CheckpointSaveSplit ==
  ASSUME Steady, SplitAll, NEW t \in Tasks, CheckpointSave(t)
  PROVE  SplitAll'
<1> DEFINE meta == [node |-> Node(t), step |-> ctx[t].step, tx_id |-> call[t].cp,
                     consumed |-> ctx[t].consumed, seq_no |-> call[t].seq_no]
           key == CheckpointKey(t, Node(t), ctx[t].step)
           b == Reserved(store)
           s == Put(b, INTERNAL_BASE, key, meta)
<1>0. /\ EngineType /\ StoreOK(store) /\ StoreType(store) /\ DOMAIN call = Tasks
      /\ DOMAIN ctx = Tasks /\ TasksOK
      /\ call[t] \in CallType /\ ctx[t] \in ContextType
      /\ ctx[t].step \in Nat /\ call[t].cp \in Nat
  BY SteadyTypes, Base DEF Steady, EngineType, StoreOK, CallType, ContextType
<1>1. StoreOK(b) /\ StoreType(b) /\ Shrinks(b, store) /\ Retains(b, store)
  BY <1>0, ReservedOK, ReservedShrinks, ReservedRetains DEF StoreOK
<1>2. RowOK([tx |-> INTERNAL_BASE, key |-> key, val |-> meta])
  BY <1>0, CheckpointRowOK
<1>3. key[1] = "checkpoint" /\ key[2] = t /\ key[4] = ctx[t].step
  BY DEF CheckpointKey
<1>4. /\ store' = Commit(s, INTERNAL_BASE) \/ store' = CommitFails(s, INTERNAL_BASE)
      /\ call[t].pc = "save"
  BY DEF CheckpointSave, At, Stores
<1>5. \/ Returns(t, "Completed") \/ Returns(t, "Failed")
      \/ /\ call' = [call EXCEPT ![t].pc = "reserve", ![t].cp = 0, ![t].seq_no = 0]
         /\ ctx' = ctx
  BY DEF CheckpointSave
<1>6. /\ meta.tx_id = call[t].cp /\ meta.step = ctx[t].step
  OBVIOUS
<1> HIDE DEF key, meta, b
<1>7. StoreType(s) /\ Retains(s, b)
  BY <1>1, <1>2, <1>3, InternalPut, PutRetains
<1>8. s = Put(b, INTERNAL_BASE, key, meta)
  OBVIOUS
<1> HIDE DEF s
<1>9. Retains(store', store)
  <2>1. Retains(store', s)
    BY <1>4, <1>7, CommitRetains, FailsRetains
  <2>2. Retains(s, store)
    BY <1>1, <1>7, RetainsChain
  <2> QED BY <2>1, <2>2, RetainsChain
<1>10. /\ EntriesShrink(store', b)
       /\ \A r \in Held(store') : r.key[1] = "checkpoint" =>
             \/ r.key = key /\ r.val = meta
             \/ \E q \in Held(b) : q.key = r.key /\ q.val = r.val /\ q.tx = r.tx
  BY <1>1, <1>3, <1>4, <1>7, <1>8, SaveAdds
<1>11. EntriesShrink(store', store)
  BY <1>1, <1>10 DEF Shrinks, EntriesShrink, Below
<1>12. ASSUME NEW r \in Readable(store'), r.key[1] = "checkpoint"
       PROVE  \/ r.key = key /\ r.val = meta
              \/ \E q \in Readable(store) : q.key = r.key /\ q.val = r.val
  <2>1. CASE \E q \in Held(b) : q.key = r.key /\ q.val = r.val
    <3>1. PICK q \in Held(store) : q.key = r.key /\ q.val = r.val
      BY <1>1, <1>12, <2>1 DEF Shrinks, NoneSaved, Below
    <3> QED BY <1>0, <1>12, <3>1, CheckpointStored
  <2> QED BY <1>10, <1>12, <2>1 DEF Held
<1>13. /\ NoneLater(store, t, ctx[t].step) /\ Splits(store, t, call[t].cp, ctx[t].step)
       /\ \A a \in Held(store) : a.key # AuditKey(t, ctx[t].step)
  BY <1>4 DEF SplitAll, TaskSplit, Early, Waiting
<1>14. CheckpointsSplit(store')
  <2> SUFFICES ASSUME NEW r \in Readable(store'), NEW u \in Tasks, IsCheckpoint(r, u)
               PROVE  Splits(store', u, r.val.tx_id, r.val.step)
    BY DEF CheckpointsSplit
  <2>1. CASE r.key = key /\ r.val = meta
    <3>1. u = t /\ r.val.tx_id = call[t].cp /\ r.val.step = ctx[t].step
      BY <1>3, <1>6, <2>1 DEF IsCheckpoint
    <3>2. Splits(store', t, call[t].cp, ctx[t].step)
      BY <1>0, <1>9, <1>13 DEF Retains, SplitAll
    <3> QED BY <3>1, <3>2
  <2>2. CASE \E q \in Readable(store) : q.key = r.key /\ q.val = r.val
    <3>1. PICK q \in Readable(store) : q.key = r.key /\ q.val = r.val
      BY <2>2
    <3>2. Splits(store, u, q.val.tx_id, q.val.step)
      BY <3>1 DEF SplitAll, CheckpointsSplit, IsCheckpoint
    <3>3. q.val.tx_id \in Nat /\ q.val.step \in Nat
      BY <1>0, <3>1, CheckpointType DEF IsCheckpoint
    <3>4. Splits(store', u, q.val.tx_id, q.val.step)
      BY <1>9, <3>2, <3>3 DEF Retains, SplitAll
    <3> QED BY <3>1, <3>4
  <2> QED BY <1>12, <2>1, <2>2 DEF IsCheckpoint
<1>15. StepsNamed(store')
  <2> SUFFICES ASSUME NEW r \in Readable(store'), r.key[1] = "checkpoint"
               PROVE  r.key[4] = r.val.step
    BY DEF StepsNamed
  <2> QED BY <1>3, <1>6, <1>12 DEF SplitAll, StepsNamed
<1>16. LogOrdered(store')
  BY <1>9 DEF Retains, SplitAll
<1>17. ASSUME NEW u \in Tasks, NEW k \in Nat, NoneLater(store, u, k), u = t => k = ctx[t].step
       PROVE  NoneLater(store', u, k)
  <2> SUFFICES ASSUME NEW r \in Readable(store'), IsCheckpoint(r, u)
               PROVE  r.val.step <= k
    BY DEF NoneLater
  <2>1. CASE r.key = key /\ r.val = meta
    BY <1>3, <1>6, <1>17, <2>1 DEF IsCheckpoint
  <2>2. CASE \E q \in Readable(store) : q.key = r.key /\ q.val = r.val
    BY <1>17, <2>2 DEF NoneLater, IsCheckpoint
  <2> QED BY <1>12, <2>1, <2>2 DEF IsCheckpoint
<1>18. ASSUME NEW u \in Tasks
       PROVE  TaskSplit(store', u, call'[u], ctx'[u], count'["restart"])
  <2>1. TaskSplit(store, u, call[u], ctx[u], count["restart"])
    BY DEF SplitAll
  <2>2. ASSUME \A a \in Held(store) : a.key # AuditKey(u, ctx[u].step)
        PROVE  \A a \in Held(store') : a.key # AuditKey(u, ctx[u].step)
    BY <1>11, <2>2, KeyKinds DEF EntriesShrink, Below
  <2>3. CASE u = t
    <3>1. ctx'[t].step = ctx[t].step /\ call'[t].pc # "save"
      <4>1. CASE Returns(t, "Completed") \/ Returns(t, "Failed")
        <5>1. call'[t] = NoCall /\ ctx'[t].step = ctx[t].step
          BY <1>0, <4>1 DEF Returns, ContextType
        <5> QED BY <5>1 DEF NoCall
      <4>2. CASE /\ call' = [call EXCEPT ![t].pc = "reserve", ![t].cp = 0, ![t].seq_no = 0]
                 /\ ctx' = ctx
        BY <1>0, <4>2 DEF CallType
      <4> QED BY <1>5, <4>1, <4>2
    <3>2. NoneLater(store', t, ctx[t].step)
      BY <1>0, <1>13, <1>17
    <3>3. \A a \in Held(store') : a.key # AuditKey(t, ctx[t].step)
      BY <1>13, <2>2, <2>3
    <3> QED BY <2>3, <3>1, <3>2, <3>3 DEF TaskSplit
  <2>4. CASE u # t
    <3>1. call'[u] = call[u] /\ ctx'[u] = ctx[u] /\ count'["restart"] = count["restart"]
      BY <1>0, <1>5, <2>4 DEF Returns, Steady
    <3>2. call[u].cp \in Nat /\ ctx[u].step \in Nat
      BY SteadyTypes, Base DEF CallType, ContextType
    <3>3. call[u].pc # "idle" => NoneLater(store', u, ctx[u].step)
      BY <1>17, <2>1, <2>4, <3>2 DEF TaskSplit
    <3>4. call[u].pc = "save" => Splits(store', u, call[u].cp, ctx[u].step)
      BY <1>9, <2>1, <3>2 DEF TaskSplit, Retains, SplitAll
    <3> QED BY <2>1, <2>2, <3>1, <3>3, <3>4 DEF TaskSplit
  <2> QED BY <2>3, <2>4
<1> QED BY <1>14, <1>15, <1>16, <1>18 DEF SplitAll

\* A replay: what the rollback leaves of the audit log is before the step of the checkpoint.
LEMMA ReplaySplit ==
  ASSUME Steady, SplitAll, NEW t \in Tasks, NEW step, Replay(t, step)
  PROVE  SplitAll'
<1>0. /\ EngineType /\ StoreType(store) /\ IsStore(store) /\ DOMAIN ctx = Tasks
      /\ StoreType(store') /\ StoreOK(store)
  BY SteadyTypes DEF Steady, EngineType, StoreOK, StoreType
<1>1. PICK r \in CheckpointsOf(t) :
         /\ r.val.step = step
         /\ ctx' = [ctx EXCEPT ![t] = [node |-> r.val.node, step |-> step,
                                       consumed |-> r.val.consumed, status |-> "Replayed"]]
         /\ store' = RollbackToTx(store, r.val.tx_id)
  BY DEF Replay, Stores
<1> DEFINE c == r.val.tx_id
<1>2. call[t].pc = "idle" /\ call' = call
  BY DEF Replay, At
<1>3. r \in Readable(store) /\ IsCheckpoint(r, t)
  BY ScanReadable DEF CheckpointsOf, IsCheckpoint
<1>4. c \in Collection /\ c \in Nat /\ step \in Nat
  <2>1. r \in Held(store)
    BY <1>3 DEF Held
  <2> QED BY <1>0, <1>1, <1>3, <2>1, HeldType DEF IsCheckpoint
<1>5. Splits(store, t, c, step)
  BY <1>1, <1>3 DEF SplitAll, CheckpointsSplit
<1>6. /\ Shrinks(store', store) /\ Retains(store', store)
      /\ store'.tx_buffer = store.tx_buffer
  BY <1>0, <1>1, <1>4, RollbackShrinks, RollbackRetains
<1>7. Visible(store') /\ store'.last_committed_tx = c
  BY <1>0, <1>1, <1>4, RollbackVisible, RollbackStore
<1> HIDE DEF c
<1>8. NoneAdded(store', store)
  BY <1>0, <1>6, ShrinksAdds
<1>9. CheckpointsSplit(store') /\ StepsNamed(store') /\ LogOrdered(store')
  BY <1>6, <1>8, StoreSplit
<1>10. \A a \in Held(store') : a.key # AuditKey(t, step)
  <2> SUFFICES ASSUME NEW a \in Held(store'), a.key = AuditKey(t, step)
               PROVE  FALSE
    OBVIOUS
  <2>1. a \notin store.tx_buffer
    BY <1>2, <1>4 DEF Steady, BudgetAll, StagedOwned
  <2>2. a \in Readable(store') /\ a.key[1] = "audit"
    BY <1>6, <2>1, KeyKinds DEF Held
  <2>3. a.tx <= c /\ a.tx \in Nat
    BY <1>0, <1>7, <2>2, StoreRows, Base DEF Visible, InternalKinds
  <2>4. Splits(store', t, c, step)
    BY <1>4, <1>5, <1>6 DEF SplitAll, Retains
  <2>5. a.tx > c
    BY <1>4, <2>2, <2>4 DEF Splits
  <2> QED BY <1>4, <2>3, <2>5
<1>11. ASSUME NEW u \in Tasks
       PROVE  TaskSplit(store', u, call'[u], ctx'[u], count'["restart"])
  <2>1. CASE u = t
    <3>1. ctx'[t].step = step
      BY <1>0, <1>1
    <3> QED BY <1>2, <1>10, <2>1, <3>1 DEF TaskSplit
  <2>2. CASE u # t
    <3>1. call'[u] = call[u] /\ ctx'[u] = ctx[u]
      BY <1>0, <1>1, <1>2, <2>2
    <3> QED BY <1>6, <1>8, <3>1, TaskSplitStays DEF Shrinks
  <2> QED BY <2>1, <2>2
<1> QED BY <1>9, <1>11 DEF SplitAll

\* A restart: all contexts wait for a replay, and the log is empty.
LEMMA RestartSplit ==
  ASSUME EngineType, BudgetAll, SplitAll, Restart
  PROVE  SplitAll'
<1>0. StoreType(store) /\ store' = Reopen(store)
  BY StoresFacts DEF EngineType, StoreOK, Restart
<1>1. Readable(store') \subseteq Readable(store) /\ Retains(store', store)
  BY <1>0, ReopenType, ReopenRetains
<1>2. LogOrdered(store')
  BY <1>1 DEF Retains, SplitAll
<1>3. StepsNamed(store')
  BY <1>1 DEF SplitAll, StepsNamed
<1>4. CheckpointsSplit(store')
  <2> SUFFICES ASSUME NEW r \in Readable(store'), NEW t \in Tasks, IsCheckpoint(r, t)
               PROVE  Splits(store', t, r.val.tx_id, r.val.step)
    BY DEF CheckpointsSplit
  <2>1. r \in Readable(store) /\ Splits(store, t, r.val.tx_id, r.val.step)
    BY <1>1 DEF SplitAll, CheckpointsSplit
  <2>2. r.val.tx_id \in Nat /\ r.val.step \in Nat
    BY <1>0, <2>1, CheckpointType DEF IsCheckpoint
  <2> QED BY <1>1, <2>1, <2>2 DEF Retains, SplitAll
<1>5. count'["restart"] > 0
  <2>1. count \in [Bounded -> Nat] /\ "restart" \in Bounded
    BY DEF BudgetAll, Bounded
  <2>2. count' = [count EXCEPT !["restart"] = @ + 1]
    BY DEF Restart, Once
  <2> QED BY <2>1, <2>2
<1>6. \A t \in Tasks : call'[t].pc = "idle" /\ ctx'[t].status = "Idle"
  BY DEF Restart, NoCall, NewContext
<1>7. \A t \in Tasks : TaskSplit(store', t, call'[t], ctx'[t], count'["restart"])
  BY <1>5, <1>6 DEF TaskSplit, Waiting
<1> QED BY <1>2, <1>3, <1>4, <1>7 DEF SplitAll

-----------------------------------------------------------------------------

(* The invariant is inductive. *)
LEMMA SplitInvStep ==
  ASSUME "run_without_replay" \notin Environment, "same_step" \notin Environment,
         EngineType, BudgetInv, SplitInv, [Next]_vars
  PROVE  SplitInv'
<1> SUFFICES ASSUME Undisturbed' PROVE SplitAll'
  BY DEF SplitInv
<1>1. departures \subseteq departures'
  BY NextStores, StoresFacts
<1>2. SplitAll /\ Sound' /\ "stale" \notin departures'
  BY <1>1 DEF SplitInv, Undisturbed, Sound
<1>3. CASE Restart
  BY <1>2, <1>3, RestartSplit, StepSteady
<1> SUFFICES ASSUME Steady PROVE SplitAll'
  BY <1>2, <1>3, StepSteady
<1>4. Steady
  OBVIOUS
<1>5. ASSUME NEW t \in Tasks, Run(t) \/ Turn(t) PROVE SplitAll'
  <2>1. CASE \/ RecoverRead(t) \/ LimitReached(t) \/ Decide(t) \/ StepBegin(t)
             \/ Reserve(t) \/ ToolOk(t) \/ ToolError(t)
             \/ ToolTimeout(t) \/ RetryRefused(t) \/ Advance(t)
    BY <1>2, <1>4, <2>1, QuietSplit
  <2>2. CASE Run(t)
    BY <1>2, <1>4, <2>2, RunSplit
  <2>3. CASE CheckpointRead(t)
    BY <1>2, <1>4, <2>3, CheckpointReadSplit
  <2>4. CASE RecoverOrphan(t)
    BY <1>2, <1>4, <2>4, RecoverOrphanSplit
  <2>5. CASE CheckpointSave(t)
    BY <1>2, <1>4, <2>5, CheckpointSaveSplit
  <2>6. CASE LetterCommit(t) \/ AuditCommit(t) \/ StepCommit(t) \/ FinalCommit(t)
    BY <1>2, <1>4, <2>6, CommitSplit
  <2>7. CASE LetterPut(t) \/ StepPut(t) \/ FinalPut(t)
    BY <1>2, <1>4, <2>7, PutSplit
  <2>8. CASE AuditPut(t)
    BY <1>2, <1>4, <2>8, AuditPutSplit
  <2>9. CASE FinalFlush(t)
    BY <1>2, <1>4, <2>9, FinalFlushSplit
  <2> QED BY <1>5, <2>1, <2>2, <2>3, <2>4, <2>5, <2>6, <2>7, <2>8, <2>9 DEF Turn
<1>6. ASSUME NEW t \in Tasks, NEW step \in Steps, Replay(t, step) PROVE SplitAll'
  BY <1>2, <1>4, <1>6, ReplaySplit
<1>7. CASE ClientPut \/ ClientCommit \/ FlushOrphans \/ MemtableFull \/ UNCHANGED vars
  BY <1>2, <1>4, <1>7, OthersSplit
<1> QED BY <1>3, <1>5, <1>6, <1>7 DEF Next

(* It holds initially: nothing is stored. *)
LEMMA InitSplit ==
  ASSUME Init
  PROVE  SplitInv
<1>1. Held(EmptyStore) = {} /\ Readable(EmptyStore) = {} /\ EmptyStore.log = {}
  BY DEF Held, Readable, EmptyStore
<1>2. store = EmptyStore
  BY DEF Init
<1> HIDE DEF EmptyStore
<1>3. \A t \in Tasks : call[t].pc = "idle"
  BY DEF Init, NoCall
<1>4. CheckpointsSplit(store) /\ StepsNamed(store) /\ LogOrdered(store)
  BY <1>1, <1>2 DEF CheckpointsSplit, StepsNamed, LogOrdered
<1>5. \A t \in Tasks : TaskSplit(store, t, call[t], ctx[t], count["restart"])
  BY <1>1, <1>2, <1>3 DEF TaskSplit
<1> QED BY <1>4, <1>5 DEF SplitInv, SplitAll

(* Which rows a rollback keeps, on a store that reads its log. *)
LEMMA RollbackKept ==
  ASSUME encryption_at_rest, NEW s, StoreType(s), Logged(s), NEW c \in Collection,
         NEW a \in Readable(s), KeptBy(s, a, c), NEW p, p = RollbackToTx(s, c)
  PROVE  a \in Readable(p)
<1>1. /\ p.log = TruncatedLog(s, c) /\ p.log \subseteq p.memtable
      /\ \A r \in UNION s.sstables : r.tx <= c => r \in Readable(p)
  BY RollbackStore DEF StoreType
<1>2. CASE a \in UNION s.sstables
  BY <1>1, <1>2 DEF KeptBy
<1>3. CASE a \in s.log
  <2>1. a \in TruncatedLog(s, c)
    BY <1>3 DEF TruncatedLog, KeptBy
  <2> QED BY <1>1, <2>1 DEF Readable
<1> QED BY <1>2, <1>3 DEF Readable, Logged

(* A replay undoes exactly the steps from its checkpoint on. *)
LEMMA ReplayExactStep ==
  ASSUME encryption_at_rest, EngineType, BudgetInv, KeepInv, SplitInv, [Next]_vars,
         NEW t \in Tasks, NEW step \in Steps, Replay(t, step), Undisturbed, NEW n \in Steps
  PROVE  AuditKey(t, n) \in KeysOf(store') <=> AuditKey(t, n) \in KeysOf(store) /\ n < step
<1>0. /\ StoreType(store) /\ IsStore(store) /\ Visible(store) /\ Logged(store) /\ SplitAll
  BY DEF EngineType, StoreOK, StoreType, KeepInv, SplitInv, Undisturbed
<1>1. PICK r \in CheckpointsOf(t) :
         r.val.step = step /\ store' = RollbackToTx(store, r.val.tx_id)
  BY DEF Replay, Stores
<1> DEFINE c == r.val.tx_id
<1>2. r \in Readable(store) /\ IsCheckpoint(r, t)
  BY ScanReadable DEF CheckpointsOf, IsCheckpoint
<1>3. c \in Collection /\ c \in Nat /\ step \in Nat
  <2>1. r \in Held(store)
    BY <1>2 DEF Held
  <2> QED BY <1>0, <1>1, <1>2, <2>1, HeldType DEF IsCheckpoint
<1>4. Splits(store, t, c, step)
  BY <1>0, <1>1, <1>2 DEF SplitAll, CheckpointsSplit
<1>5. /\ Visible(store') /\ store'.last_committed_tx = c /\ StoreType(store')
      /\ Readable(store') \subseteq Readable(store)
  BY <1>0, <1>1, <1>3, RollbackVisible, RollbackStore, RollbackType
<1>6. n \in Nat
  BY AgentAssumption DEF Steps
<1>7. KeysOf(store) = KeysStored(store) /\ KeysOf(store') = KeysStored(store')
  BY <1>0, <1>5, KeysOfStored
<1> HIDE DEF c
<1>8. ASSUME AuditKey(t, n) \in KeysStored(store')
      PROVE  AuditKey(t, n) \in KeysStored(store) /\ n < step
  <2>1. PICK a \in Readable(store') : ~Internal(a) /\ a.key = AuditKey(t, n)
    BY <1>8 DEF KeysStored
  <2>2. a.tx <= c /\ a.tx \in Nat /\ a \in Readable(store)
    BY <1>5, <2>1, StoreRows, Base DEF Visible
  <2>3. ~(a.tx > c)
    BY <1>3, <2>2
  <2>4. n < step
    BY <1>4, <1>6, <2>1, <2>2, <2>3 DEF Splits
  <2> QED BY <2>1, <2>2, <2>4 DEF KeysStored
<1>9. ASSUME AuditKey(t, n) \in KeysStored(store), n < step
      PROVE  AuditKey(t, n) \in KeysStored(store')
  <2>1. PICK a \in Readable(store) : ~Internal(a) /\ a.key = AuditKey(t, n)
    BY <1>9 DEF KeysStored
  <2>2. KeptBy(store, a, c)
    BY <1>4, <1>6, <1>9, <2>1 DEF Splits
  <2>3. a \in Readable(store')
    BY <1>0, <1>1, <1>3, <2>2, RollbackKept DEF c
  <2> QED BY <2>1, <2>3 DEF KeysStored
<1> QED BY <1>7, <1>8, <1>9

(* replay_from undoes exactly the steps of its task from the checkpoint on, for any graph,  *)
(* tools and limits: what of the audit log is before the checkpoint survives the rollback   *)
(* of the store, and nothing from its step on does, whatever other tasks and clients        *)
(* committed, failed to commit or flushed in between, and across restarts.  The store reads *)
(* its log, callers go on to the next step after a failure, and replay after a restart.     *)
THEOREM ReplayTheorem ==
  ASSUME encryption_at_rest, "run_without_replay" \notin Environment,
         "same_step" \notin Environment
  PROVE  Spec => ReplayExact
<1>1. Init => BudgetInv /\ KeepInv /\ SplitInv
  BY InitBudget, InitKeep, InitSplit
<1>2. EngineType /\ BudgetInv /\ KeepInv /\ SplitInv /\ [Next]_vars =>
         BudgetInv' /\ KeepInv' /\ SplitInv'
  BY BudgetInvStep, KeepInvStep, SplitInvStep
<1>3. EngineType /\ BudgetInv /\ KeepInv /\ SplitInv /\ [Next]_vars =>
         [ \A t \in Tasks, step \in Steps :
             Replay(t, step) /\ {"ahead", "blind", "unlogged", "stale"} \cap departures = {} =>
               \A n \in Steps :
                  AuditKey(t, n) \in KeysOf(store') <=>
                      AuditKey(t, n) \in KeysOf(store) /\ n < step ]_vars
  BY ReplayExactStep DEF Undisturbed
<1> QED BY <1>1, <1>2, <1>3, EngineTypeInvariant, PTL DEF Spec, ReplayExact

=============================================================================
