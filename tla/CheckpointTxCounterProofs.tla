---------------------- MODULE CheckpointTxCounterProofs ----------------------
(***************************************************************************)
(* For every number of tasks and every batch size, over LsmStorage, whose   *)
(* get does not find the mark in a table: what allocate_tx and open still   *)
(* guarantee.  (That no id is ever returned twice is not among it.)         *)
(***************************************************************************)
EXTENDS CheckpointTxCounter, NatSetLemmas

\* The persisted mark is a raw id or None, whatever level holds it.
LEMMA PersistedType ==
  ASSUME TypeOK PROVE PersistedHwm \in RawOrNone /\ PersistedHwm \in Int /\ None = -1
BY DEF TypeOK, PersistedHwm, RawOrNone, None

\* A flush moves the mark to another level and does not change it.
LEMMA FlushKeepsHwm ==
  ASSUME TypeOK, MemtableToSst PROVE PersistedHwm' = PersistedHwm
BY DEF PersistedHwm, MemtableToSst

\* The scan of the manifests finds a greatest id, and it does not lie above the
\* persisted mark.
LEMMA ScanBelowHwm ==
  ASSUME TypeOK, ManifestsReserved
  PROVE  /\ ScannedMaxRaw \in RawOrNone /\ ScannedMaxRaw <= PersistedHwm
         /\ \A n \in manifests : n <= ScannedMaxRaw
<1> USE DEF TypeOK, ManifestsReserved, None, RawOrNone
<1>1. PersistedHwm \in RawOrNone
  BY PersistedType
<1>2. CASE manifests = {}
  BY <1>1, <1>2 DEF ScannedMaxRaw
<1>3. CASE manifests # {}
  <2>0. \A n \in manifests : n \in Nat /\ n <= PersistedHwm
    OBVIOUS
  <2>1. manifests \subseteq Nat /\ PersistedHwm \in Nat
    <3>1. PICK n \in manifests : TRUE
      BY <1>3
    <3> QED BY <1>1, <2>0, <3>1
  <2>2. \E m \in manifests : \A n \in manifests : n <= m
    BY <2>0, <2>1, <1>3, GreatestExists
  <2>3. ScannedMaxRaw \in manifests
    BY <2>2, <1>3 DEF ScannedMaxRaw
  <2>4. \A n \in manifests : n <= ScannedMaxRaw
    BY <2>2, <1>3 DEF ScannedMaxRaw
  <2> QED BY <2>0, <2>3, <2>4
<1> QED BY <1>2, <1>3

\* The invariant holds initially: no store is open and nothing was returned.
LEMMA CounterInit == Init => CounterInv
<1> SUFFICES ASSUME Init PROVE CounterInv
  OBVIOUS
<1>1. memHwm \in RawOrNone /\ sstHwm \in RawOrNone
  BY DEF Init, RawOrNone, None
<1>2. pc \in [Tasks -> Places]
  BY DEF Init, Places
<1>3. TypeOK
  BY <1>1, <1>2 DEF Init, TypeOK
<1> QED BY <1>3 DEF Init, CounterInv, ManifestsReserved

\* open places the counter above every id that a manifest names.
LEMMA OpenStep ==
  ASSUME CounterAssumption, CounterInv, Open PROVE CounterInv'
<1>2. /\ ScannedMaxRaw \in RawOrNone /\ ScannedMaxRaw <= PersistedHwm
      /\ \A n \in manifests : n <= ScannedMaxRaw
  BY ScanBelowHwm DEF CounterInv
<1>3. /\ PersistedHwm \in RawOrNone /\ PersistedHwm' = PersistedHwm
      /\ GetHwm \in RawOrNone /\ (GetHwm # None => GetHwm = PersistedHwm)
  BY PersistedType DEF CounterInv, Open, durable, PersistedHwm, GetHwm, TypeOK
<1>4. TypeOK'
  <2>1. tx_counter' \in Nat /\ allocated_hwm' \in Nat
    BY <1>2, <1>3 DEF Open, RawOrNone, None
  <2> QED BY <2>1 DEF CounterInv, TypeOK, Open, durable, history, Places
<1>5. ManifestsReserved'
  BY <1>3 DEF CounterInv, ManifestsReserved, Open, durable
<1>6. Reserved'
  <2>1. issued' = {} /\ manifests' = manifests /\ manifests \subseteq Nat
    BY DEF Open, CounterInv, TypeOK, durable, history
  <2>2. \A r \in manifests : r < tx_counter' /\ r <= allocated_hwm'
    <3> SUFFICES ASSUME NEW r \in manifests PROVE r < tx_counter' /\ r <= allocated_hwm'
      OBVIOUS
    <3>1. r \in Nat /\ r <= ScannedMaxRaw /\ ScannedMaxRaw <= PersistedHwm
      BY <1>2, <2>1
    <3> QED BY <3>1, <1>2, <1>3 DEF Open, RawOrNone, None
  <2>3. allocated_hwm' <= PersistedHwm' \/ allocated_hwm' = 0
    BY <1>2, <1>3 DEF Open, RawOrNone, None
  <2>4. \A t \in Tasks : pc'[t] = "idle" /\ hwm_lock' # t
    BY DEF Open, CounterAssumption
  <2> QED BY <2>1, <2>2, <2>3, <2>4 DEF Reserved, Critical
<1> QED BY <1>4, <1>5, <1>6 DEF CounterInv, Open

\* Every step of allocate_tx preserves the invariant.
LEMMA AllocateStep ==
  ASSUME CounterAssumption, CounterInv, NEW t \in Tasks, Allocate(t) PROVE CounterInv'
<1> USE DEF CounterAssumption
<1>0. up /\ Reserved /\ ManifestsReserved /\ TypeOK
  BY DEF CounterInv, Allocate, FetchAdd, CheckHwm, LockHwm, PersistHwm, FlushHwm,
         PersistFails, AdvanceHwm, ReturnTx
<1>a. PersistedHwm \in RawOrNone /\ PersistedHwm \in Int
  BY <1>0, PersistedType
<1>b. NewHwm(t) \in Nat /\ NewHwm(t) >= raw[t]
  BY <1>0 DEF TypeOK, NewHwm
<1>c. up' /\ manifests' = manifests
  BY <1>0 DEF Allocate, FetchAdd, CheckHwm, LockHwm, PersistHwm, FlushHwm, PersistFails, AdvanceHwm,
         ReturnTx, durable
<1>1. CASE FetchAdd(t)
  <2>1. PersistedHwm' = PersistedHwm
    BY <1>1 DEF FetchAdd, durable, PersistedHwm
  <2>2. TypeOK'
    BY <1>0, <1>1 DEF TypeOK, FetchAdd, Goto, Places, durable, history
  <2>3. Reserved'
    BY <1>0, <1>1, <1>c, <1>a, <2>1 DEF TypeOK, Reserved, FetchAdd, Goto, Critical, NewHwm, history, Places
  <2> QED BY <1>c, <1>0, <1>1, <2>1, <2>2, <2>3 DEF CounterInv, ManifestsReserved, FetchAdd, durable, history
<1>2. CASE CheckHwm(t)
  <2>1. PersistedHwm' = PersistedHwm
    BY <1>2 DEF CheckHwm, durable, PersistedHwm
  <2>2. TypeOK'
    BY <1>0, <1>2 DEF TypeOK, CheckHwm, Goto, Places, durable, history
  <2>3. Reserved'
    BY <1>0, <1>2, <1>c, <1>a, <2>1 DEF TypeOK, Reserved, CheckHwm, Goto, Critical, NewHwm, history, Places, None
  <2> QED BY <1>c, <1>0, <1>2, <2>1, <2>2, <2>3 DEF CounterInv, ManifestsReserved, CheckHwm, durable, history
<1>3. CASE LockHwm(t)
  <2>1. PersistedHwm' = PersistedHwm
    BY <1>3 DEF LockHwm, durable, PersistedHwm
  <2>2. TypeOK'
    BY <1>0, <1>3 DEF TypeOK, LockHwm, Goto, Places, durable, history
  <2>3. Reserved'
    BY <1>0, <1>3, <1>c, <1>a, <2>1 DEF TypeOK, Reserved, LockHwm, Goto, Critical, NewHwm, history, Places, None
  <2> QED BY <1>c, <1>0, <1>3, <2>1, <2>2, <2>3 DEF CounterInv, ManifestsReserved, LockHwm, durable, history
<1>4. CASE PersistHwm(t)
  <2>1. PersistedHwm' = NewHwm(t)
    BY <1>4, <1>b DEF PersistHwm, PersistedHwm, None
  <2>2. TypeOK'
    BY <1>0, <1>4, <1>b DEF TypeOK, PersistHwm, Goto, Places, RawOrNone, history
  <2>3. hwm_lock = t /\ raw[t] >= allocated_hwm
    BY <1>0, <1>4 DEF PersistHwm, Reserved, Critical
  <2>4. Reserved'
    BY <1>0, <1>4, <1>c, <1>a, <1>b, <2>1, <2>3
    DEF TypeOK, Reserved, PersistHwm, Goto, Critical, NewHwm, history, Places, None
  <2>5. ManifestsReserved'
    BY <1>0, <1>4, <1>b, <2>1, <2>3 DEF TypeOK, ManifestsReserved, Reserved, PersistHwm, history
  <2> QED BY <1>c, <2>2, <2>4, <2>5 DEF CounterInv
<1>5. CASE FlushHwm(t)
  <2>1. PersistedHwm' = PersistedHwm
    BY <1>0, <1>5, FlushKeepsHwm DEF FlushHwm
  <2>2. TypeOK'
    <3>1. memHwm' \in RawOrNone /\ sstHwm' \in RawOrNone
      BY <1>5, <1>a DEF FlushHwm, MemtableToSst, RawOrNone
    <3> QED BY <1>0, <1>5, <3>1 DEF TypeOK, FlushHwm, Goto, Places, history
  <2>3. Reserved'
    BY <1>0, <1>5, <1>c, <1>a, <2>1 DEF TypeOK, Reserved, FlushHwm, Goto, Critical, NewHwm, history, Places, None
  <2> QED BY <1>c, <1>0, <1>5, <2>1, <2>2, <2>3 DEF CounterInv, ManifestsReserved, FlushHwm, history
<1>6. CASE PersistFails(t)
  <2>1. PersistedHwm' = PersistedHwm
    BY <1>6 DEF PersistFails, durable, PersistedHwm
  <2>2. TypeOK'
    BY <1>0, <1>6 DEF TypeOK, PersistFails, Goto, Places, durable, history
  <2>3. Reserved'
    BY <1>0, <1>6, <1>c, <1>a, <2>1 DEF TypeOK, Reserved, PersistFails, Goto, Critical, NewHwm, history, Places, None
  <2> QED BY <1>c, <1>0, <1>6, <2>1, <2>2, <2>3 DEF CounterInv, ManifestsReserved, PersistFails, durable, history
<1>7. CASE AdvanceHwm(t)
  <2>1. PersistedHwm' = PersistedHwm
    BY <1>7 DEF AdvanceHwm, durable, PersistedHwm
  <2>2. TypeOK'
    BY <1>0, <1>7, <1>b DEF TypeOK, AdvanceHwm, Goto, Places, durable, history
  <2>3. hwm_lock = t /\ PersistedHwm = NewHwm(t) /\ raw[t] >= allocated_hwm
    BY <1>0, <1>7 DEF AdvanceHwm, Reserved, Critical
  <2>4. Reserved'
    BY <1>0, <1>7, <1>c, <1>a, <1>b, <2>1, <2>3
    DEF TypeOK, Reserved, AdvanceHwm, Goto, Critical, NewHwm, history, Places, None
  <2> QED BY <1>c, <1>0, <1>7, <2>1, <2>2, <2>4 DEF CounterInv, ManifestsReserved, AdvanceHwm, durable, history
<1>8. CASE ReturnTx(t)
  <2>1. PersistedHwm' = PersistedHwm
    BY <1>8 DEF ReturnTx, durable, PersistedHwm
  <2>2. TypeOK'
    BY <1>0, <1>8 DEF TypeOK, ReturnTx, Goto, Places, durable
  <2>3. raw[t] <= allocated_hwm /\ allocated_hwm <= PersistedHwm
    BY <1>0, <1>8 DEF ReturnTx, Reserved
  <2>4. Reserved'
    BY <1>0, <1>8, <1>c, <1>a, <2>1, <2>3 DEF TypeOK, Reserved, ReturnTx, Goto, Critical, NewHwm, Places, None
  <2>5. ManifestsReserved'
    BY <1>0, <1>8, <1>c, <1>a, <2>1, <2>3 DEF TypeOK, ManifestsReserved, ReturnTx, durable
  <2> QED BY <1>c, <2>2, <2>4, <2>5 DEF CounterInv
<1> QED BY <1>1, <1>2, <1>3, <1>4, <1>5, <1>6, <1>7, <1>8 DEF Allocate

\* The steps of the storage engine and the end of a store.
LEMMA StorageStep ==
  ASSUME CounterInv, BackgroundFlush \/ SaveManifest \/ Drop \/ Crash \/ UNCHANGED vars
  PROVE  CounterInv'
<1> USE DEF CounterInv
<1>1. PersistedHwm' = PersistedHwm /\ PersistedHwm \in RawOrNone
  BY FlushKeepsHwm, PersistedType
  DEF BackgroundFlush, SaveManifest, Drop, Crash, vars, durable, PersistedHwm
<1>2. memHwm' \in RawOrNone /\ sstHwm' \in RawOrNone
  BY <1>1 DEF BackgroundFlush, SaveManifest, Drop, Crash, MemtableToSst, vars, durable, RawOrNone,
              TypeOK
<1>3. CASE SaveManifest
  <2>1. PICK r \in issued : manifests' = manifests \cup {r}
    BY <1>3 DEF SaveManifest
  <2>2. r \in Nat /\ r <= PersistedHwm /\ r < tx_counter /\ r <= allocated_hwm
    BY <1>3, <2>1 DEF SaveManifest, Reserved, TypeOK
  <2>3. TypeOK'
    BY <1>2, <1>3, <2>1, <2>2 DEF SaveManifest, TypeOK, store, history
  <2>4. ManifestsReserved'
    BY <1>1, <2>1, <2>2 DEF ManifestsReserved
  <2>5. Reserved'
    BY <1>1, <1>3, <2>1, <2>2 DEF SaveManifest, Reserved, NewHwm, store, history
  <2> QED BY <1>3, <2>3, <2>4, <2>5 DEF SaveManifest
<1>4. CASE Drop \/ Crash
  <2>1. TypeOK'
    BY <1>2, <1>4 DEF Drop, Crash, Gone, TypeOK, store, durable
  <2>2. ManifestsReserved'
    BY <1>1, <1>4 DEF ManifestsReserved, Drop, Crash, durable
  <2> QED BY <1>4, <2>1, <2>2 DEF Drop, Crash, Gone
<1>5. CASE BackgroundFlush \/ UNCHANGED vars
  <2>1. TypeOK'
    BY <1>2, <1>5 DEF BackgroundFlush, vars, TypeOK, store, durable, history
  <2>2. ManifestsReserved'
    BY <1>1, <1>5 DEF ManifestsReserved, BackgroundFlush, vars, durable
  <2>3. up' => Reserved'
    BY <1>1, <1>5 DEF Reserved, NewHwm, BackgroundFlush, vars, store, durable, history
  <2> QED BY <1>5, <2>1, <2>2, <2>3 DEF BackgroundFlush, vars, history
<1> QED BY <1>3, <1>4, <1>5

\* The inductive invariant holds in every reachable state, whatever the order of the
\* tasks' steps, flushes, failed writes, drops and crashes.
THEOREM CounterInvariant == CounterAssumption => (Spec => []CounterInv)
<1> SUFFICES ASSUME CounterAssumption PROVE Spec => []CounterInv
  OBVIOUS
<1>1. Init => CounterInv
  BY CounterInit
<1>2. CounterInv /\ [Next]_vars => CounterInv'
  BY OpenStep, AllocateStep, StorageStep DEF Next
<1> QED BY <1>1, <1>2, PTL DEF Spec

\* The fields keep the types their declarations give them.
THEOREM CounterTypes == CounterAssumption => (Spec => []TypeOK)
<1>1. CounterInv => TypeOK
  BY DEF CounterInv
<1> QED BY <1>1, CounterInvariant, PTL

\* allocate_tx returns no id that this store has returned or that a stored manifest
\* names, across any number of restarts.
THEOREM FreshAmongManifests == CounterAssumption => (Spec => []FreshWhereScanned)
<1>1. CounterInv => FreshWhereScanned
  BY DEF CounterInv, Reserved, FreshWhereScanned
<1> QED BY <1>1, CounterInvariant, PTL

\* allocate_tx returns nothing above the mark that is on disk.
THEOREM MarkBeforeUse == CounterAssumption => (Spec => []ReservedFirst)
<1>1. CounterInv => ReservedFirst
  BY DEF CounterInv, Reserved, ReservedFirst
<1> QED BY <1>1, CounterInvariant, PTL

\* The regression check of open never fires on a store this code wrote, whether or
\* not the mark can be read.
THEOREM OpenNeverRefuses == CounterAssumption => (Spec => []OpenSucceeds)
<1>1. CounterInv => OpenSucceeds
  <2> SUFFICES ASSUME CounterInv PROVE ~OpenRefused
    BY DEF OpenSucceeds
  <2>1. GetHwm # None => GetHwm = PersistedHwm
    BY DEF GetHwm, PersistedHwm
  <2>2. PersistedHwm \in Int /\ ScannedMaxRaw \in RawOrNone /\ ScannedMaxRaw <= PersistedHwm
    BY PersistedType, ScanBelowHwm DEF CounterInv
  <2> QED BY <2>1, <2>2 DEF OpenRefused, RawOrNone, None
<1> QED BY <1>1, CounterInvariant, PTL
=============================================================================
