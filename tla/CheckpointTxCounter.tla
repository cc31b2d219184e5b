------------------------- MODULE CheckpointTxCounter -------------------------
(***************************************************************************)
(* The counter of internal transaction ids of PersistentCheckpointStore    *)
(* (contextra-checkpoint/src/store.rs): allocate_tx, run by concurrent      *)
(* tasks, reserves ids in batches behind a high water mark that is written  *)
(* to the storage engine, and open rebuilds the counter from the mark that  *)
(* it can read and the manifests that it can scan.                          *)
(*                                                                         *)
(* Ids are kept relative to TxId::INTERNAL_BASE, as the field tx_counter    *)
(* keeps them.  The storage engine is LsmStorage, abstracted to the one key *)
(* the counter uses: memHwm is the version of that key in the memtable (on  *)
(* disk as well, in the write-ahead log), sstHwm the newest in an SSTable.  *)
(***************************************************************************)
EXTENDS Integers

CONSTANTS Tasks,              \* the concurrent callers of allocate_tx
          NoTask,             \* nobody holds hwm_lock
          TX_BATCH_SIZE,      \* ids reserved by one write of the mark
          MAX_RAW             \* ids from here on are "counter overflow"

\* What the proofs assume of the constants.
CounterAssumption ==
    /\ NoTask \notin Tasks
    /\ TX_BATCH_SIZE \in Nat \ {0}
    /\ MAX_RAW \in Nat

None == -1                    \* Option::None, in front of the raw ids

VARIABLES up,            \* a store is open
          tx_counter,    \* AtomicU64: the next raw id
          allocated_hwm, \* AtomicU64: the mark this process believes reserved
          hwm_lock,      \* tokio Mutex: its holder
          pc, raw,       \* each task's place in allocate_tx, and its raw id
          memHwm, sstHwm,\* the persisted mark: newest version per level
          manifests,     \* raw ids found in stored CheckpointManifests
          issued,        \* history: raw ids this store's allocate_tx has returned
          earlier        \* history: raw ids that stores opened before it have

store   == <<tx_counter, allocated_hwm, hwm_lock, pc, raw>>
durable == <<memHwm, sstHwm, manifests>>
history == <<issued, earlier>>
vars    == <<up, store, durable, history>>

Places == {"idle", "check", "lock", "persist", "flush", "advance", "return"}

-----------------------------------------------------------------------------
(* The storage engine, seen through the counter's key.                     *)

\* What the disk holds: the newest committed version.
PersistedHwm == IF memHwm # None THEN memHwm ELSE sstHwm

\* What get answers for the key: the memtable shows versions of internal
\* transactions, the SSTables only those with tx <= snapshot_tx, and an internal
\* id is above every last_committed_tx.
GetHwm == memHwm

-----------------------------------------------------------------------------
Init ==
    /\ up = FALSE
    /\ tx_counter = 0 /\ allocated_hwm = 0 /\ hwm_lock = NoTask
    /\ pc = [t \in Tasks |-> "idle"]
    /\ raw = [t \in Tasks |-> 0]
    /\ memHwm = None /\ sstHwm = None /\ manifests = {}
    /\ issued = {} /\ earlier = {}

\* The greatest raw id among the scanned manifests; Option::None if there is none.
ScannedMaxRaw ==
    IF manifests = {} THEN None
    ELSE CHOOSE m \in manifests : \A n \in manifests : n <= m

\* open_with_orphan_registry: refuses to start when the persisted mark lies
\* below an id found in a manifest, otherwise places the counter above both.
OpenRefused == GetHwm # None /\ ScannedMaxRaw # None /\ GetHwm < ScannedMaxRaw

Open ==
    /\ ~up
    /\ ~OpenRefused
    /\ up' = TRUE
    /\ tx_counter' = IF GetHwm # None THEN GetHwm + 1 ELSE ScannedMaxRaw + 1
    /\ allocated_hwm' = IF GetHwm # None THEN GetHwm
                        ELSE IF ScannedMaxRaw # None THEN ScannedMaxRaw ELSE 0
    /\ hwm_lock' = NoTask
    /\ pc' = [t \in Tasks |-> "idle"]
    /\ UNCHANGED <<raw, durable, history>>

Goto(t, place) == pc' = [pc EXCEPT ![t] = place]

\* tx_counter.fetch_add(1); an id at the limit is an error.
FetchAdd(t) ==
    /\ up /\ pc[t] = "idle"
    /\ tx_counter < MAX_RAW
    /\ raw' = [raw EXCEPT ![t] = tx_counter]
    /\ tx_counter' = tx_counter + 1
    /\ Goto(t, "check")
    /\ UNCHANGED <<up, allocated_hwm, hwm_lock, durable, history>>

\* The unlocked load of allocated_hwm decides whether the slow path is taken.
CheckHwm(t) ==
    /\ up /\ pc[t] = "check"
    /\ Goto(t, IF raw[t] >= allocated_hwm THEN "lock" ELSE "return")
    /\ UNCHANGED <<up, tx_counter, allocated_hwm, hwm_lock, raw, durable, history>>

\* hwm_lock.lock().await and the second load, under the lock.
LockHwm(t) ==
    /\ up /\ pc[t] = "lock" /\ hwm_lock = NoTask
    /\ IF raw[t] >= allocated_hwm
       THEN Goto(t, "persist") /\ hwm_lock' = t
       ELSE Goto(t, "return") /\ UNCHANGED hwm_lock
    /\ UNCHANGED <<up, tx_counter, allocated_hwm, raw, durable, history>>

NewHwm(t) == raw[t] + TX_BATCH_SIZE - 1

\* persist_hwm_internal: put and commit, under the id INTERNAL_BASE + hwm.
PersistHwm(t) ==
    /\ up /\ pc[t] = "persist"
    /\ memHwm' = NewHwm(t)
    /\ Goto(t, "flush")
    /\ UNCHANGED <<up, tx_counter, allocated_hwm, hwm_lock, raw, sstHwm, manifests, history>>

\* The memtable that holds the key becomes an SSTable: by the flush of
\* persist_hwm_internal, or by any other writer of the same storage engine.
MemtableToSst == memHwm' = None /\ sstHwm' = PersistedHwm

FlushHwm(t) ==
    /\ up /\ pc[t] = "flush"
    /\ MemtableToSst
    /\ Goto(t, "advance")
    /\ UNCHANGED <<up, tx_counter, allocated_hwm, hwm_lock, raw, manifests, history>>

BackgroundFlush ==
    /\ up /\ memHwm # None
    /\ MemtableToSst
    /\ UNCHANGED <<up, store, manifests, history>>

\* put, commit or flush failed: allocate_tx returns the error, the lock
\* guard is dropped and the raw id is lost.
PersistFails(t) ==
    /\ up /\ pc[t] \in {"persist", "flush"}
    /\ hwm_lock' = NoTask
    /\ Goto(t, "idle")
    /\ UNCHANGED <<up, tx_counter, allocated_hwm, raw, durable, history>>

\* allocated_hwm.store(new_hwm), and the end of the guard's scope.
AdvanceHwm(t) ==
    /\ up /\ pc[t] = "advance"
    /\ allocated_hwm' = NewHwm(t)
    /\ hwm_lock' = NoTask
    /\ Goto(t, "return")
    /\ UNCHANGED <<up, tx_counter, raw, durable, history>>

\* allocate_tx returns Ok: its caller uses the id for a storage transaction.
ReturnTx(t) ==
    /\ up /\ pc[t] = "return"
    /\ issued' = issued \cup {raw[t]}
    /\ Goto(t, "idle")
    /\ UNCHANGED <<up, tx_counter, allocated_hwm, hwm_lock, raw, durable, earlier>>

\* create_checkpoint stores a manifest whose tx_id is an internal id that the
\* caller got from allocate_tx (manifests with collection ids are not scanned).
SaveManifest ==
    /\ up
    /\ \E r \in issued : manifests' = manifests \cup {r}
    /\ UNCHANGED <<up, store, memHwm, sstHwm, history>>

\* The store is gone, with every call of it that was running.
Gone ==
    /\ up
    /\ up' = FALSE
    /\ earlier' = earlier \cup issued /\ issued' = {}

\* The store is dropped, its storage engine lives on.
Drop == Gone /\ UNCHANGED <<store, durable>>

\* The process dies; LsmStorage::new replays the log and flushes it.
Crash == Gone /\ MemtableToSst /\ UNCHANGED <<store, manifests>>

Allocate(t) ==
    \/ FetchAdd(t) \/ CheckHwm(t) \/ LockHwm(t) \/ PersistHwm(t) \/ FlushHwm(t)
    \/ PersistFails(t) \/ AdvanceHwm(t) \/ ReturnTx(t)

Next == Open \/ BackgroundFlush \/ SaveManifest \/ Drop \/ Crash \/ \E t \in Tasks : Allocate(t)

Spec == Init /\ [][Next]_vars

-----------------------------------------------------------------------------
RawOrNone == Nat \cup {None}

\* The fields of the store, the key's two versions and the histories have
\* the types the Rust declarations give them.
TypeOK ==
    /\ up \in BOOLEAN
    /\ tx_counter \in Nat /\ allocated_hwm \in Nat
    /\ hwm_lock \in Tasks \cup {NoTask}
    /\ pc \in [Tasks -> Places] /\ raw \in [Tasks -> Nat]
    /\ memHwm \in RawOrNone /\ sstHwm \in RawOrNone
    /\ manifests \subseteq Nat /\ issued \subseteq Nat /\ earlier \subseteq Nat

\* allocate_tx never returns an id it has returned before, by any task, of this
\* store or of one opened earlier: "Counter metadata persisted to guarantee TxId
\* monotonicity across restarts" (TxCounterMeta).
FreshTx == up => \A t \in Tasks : pc[t] = "return" => raw[t] \notin issued \cup earlier

\* What holds of it: no id is returned that this store has returned, nor one that
\* any stored manifest names, whichever store wrote it.
FreshWhereScanned ==
    up => \A t \in Tasks : pc[t] = "return" => raw[t] \notin issued \cup manifests

\* Reserve before use: whatever this store has returned lies under a mark that
\* was on disk by then and still is.
ReservedFirst == up => \A r \in issued : r <= PersistedHwm

\* open never meets the regression it refuses to start on: no stored manifest
\* lies above a mark that it can read.
OpenSucceeds == ~up => ~OpenRefused

\* The inductive invariant behind these three.
\* No manifest names an id above the mark on disk.
ManifestsReserved == \A r \in manifests : r <= PersistedHwm

\* In an open store: ids in flight are distinct, below the counter and returned by
\* nobody; the three places of the critical section belong to the holder of
\* hwm_lock; what is returned lies under the mark the store believes in, and that
\* mark is on disk before the store believes in it.
Critical == {"persist", "flush", "advance"}
Reserved ==
    /\ \A r \in issued : r < tx_counter /\ r <= allocated_hwm
    /\ \A r \in manifests : r < tx_counter /\ r <= allocated_hwm
    /\ allocated_hwm <= PersistedHwm \/ allocated_hwm = 0
    /\ \A t \in Tasks :
          /\ pc[t] # "idle" => raw[t] < tx_counter /\ raw[t] \notin issued \cup manifests
          /\ pc[t] \in Critical <=> hwm_lock = t
          /\ pc[t] \in Critical => raw[t] >= allocated_hwm
          /\ pc[t] \in {"flush", "advance"} => PersistedHwm = NewHwm(t)
          /\ pc[t] = "return" => raw[t] <= allocated_hwm /\ allocated_hwm <= PersistedHwm
    /\ \A t, u \in Tasks :
          t # u /\ pc[t] # "idle" /\ pc[u] # "idle" => raw[t] # raw[u]
    /\ \A r \in issued : r <= PersistedHwm

CounterInv ==
    /\ TypeOK /\ ManifestsReserved
    /\ IF up THEN Reserved ELSE issued = {}
=============================================================================
