------------------------- MODULE DbTransactionProofs -------------------------
(***************************************************************************)
(* Proofs about DbTransaction: its inductive invariant, that it implements   *)
(* AtomicCommit, and that the indexes agree with the storage engine, for any *)
(* documents, transactions, failures and number of crashes.                  *)
(***************************************************************************)
EXTENDS DbTransaction, TLAPS

USE DEF storage, memory, txns, history, InDoubtPlaces, Finished, NotYetPlaces, None, Keep,
        max_attempts

(* A transaction writes versions, and only to documents. *)
LEMMA OverrideType ==
    ASSUME NEW t \in Txs, NEW f \in [Docs -> Versions], NEW g,
           \A d \in Written(t) : g[d] \in Versions
    PROVE  Override(f, t, g) \in [Docs -> Versions]
  BY DEF Override, Written

(* The writes of t, where it has any, are versions. *)
LEMMA WritesType ==
    ASSUME TypeOK, NEW t \in Txs
    PROVE  \A d \in Written(t) : writes[t][d] \in Versions
  BY DbAssumption DEF TypeOK, Written, Versions

(* The commit of the storage engine keeps the types of what it makes durable. *)
LEMMA DurableType ==
    ASSUME TypeOK, NEW t \in Txs, Durable(t)
    PROVE  /\ doc' \in [Docs -> Versions] /\ text' \in [Docs -> Versions]
           /\ entity' \subseteq Docs /\ deleted' \subseteq Docs /\ undone' \subseteq Docs
           /\ intent' \in [Txs -> Intents] /\ applied' \subseteq Txs
<1>1. doc' \in [Docs -> Versions] /\ text' \in [Docs -> Versions]
  BY OverrideType, WritesType DEF Durable, TypeOK
<1>2. QED
  BY <1>1 DEF Durable, TypeOK, Intents, Inserted, Removed
(* The documents of two transactions at work differ. *)
LEMMA OthersUntouched ==
    ASSUME DbInv, NEW t \in Txs, NEW u \in Txs, u # t, Active(t), Active(u),
           NEW e \in Docs, writes[u][e] # Keep
    PROVE  e \notin Written(t)
  BY DEF DbInv, Disjoint, Written

(* Every step keeps the types (phase, storage, indexes and the places in commit). *)
LEMMA TypeOKStep ==
    ASSUME Isolated, DbInv, [Next]_vars
    PROVE  TypeOK'
<1> USE DEF Active, InDoubt, Written, Goto
<1>env. "same document" \notin Environment /\ "partial compensation" \notin Environment
  BY DEF Isolated
<1>0. CASE UNCHANGED vars
  BY <1>0 DEF vars, DbInv, TypeOK
<1>1. ASSUME NEW t \in Txs, NEW d \in Docs, NEW v \in {t, None}, Write(t, d, v)
      PROVE TypeOK'
  BY <1>1, <1>env, DbAssumption DEF DbInv, TypeOK, Versions, Write
<1>2. ASSUME NEW t \in Txs, Rollback(t) PROVE TypeOK'
  BY <1>2 DEF DbInv, TypeOK, Places, Intents, Versions, Rollback
<1>3. ASSUME NEW t \in Txs, StageText(t) PROVE TypeOK'
  BY <1>3 DEF DbInv, TypeOK, Places, Intents, Versions, StageText
<1>4. ASSUME NEW t \in Txs, StageGraph(t) PROVE TypeOK'
  <2>1. graph' \subseteq Docs /\ erased' \in [Txs -> SUBSET Docs] /\ stale' \subseteq Docs
    BY <1>4, ZenonT(60) DEF DbInv, TypeOK, StageGraph, Inserted, Removed
  <2>2. pc' \in [Txs -> Places]
    BY <1>4 DEF DbInv, TypeOK, StageGraph, Places
  <2>3. QED
    BY <1>4, <2>1, <2>2 DEF DbInv, TypeOK, StageGraph
<1>5. ASSUME NEW t \in Txs, StorageCommit(t) PROVE TypeOK'
  <2>1. pc' \in [Txs -> Places]
    BY <1>5 DEF DbInv, TypeOK, StorageCommit, Places
  <2>2. QED
    BY <1>5, <2>1, DurableType DEF DbInv, TypeOK, StorageCommit
<1>6. ASSUME NEW t \in Txs, StorageFails(t) PROVE TypeOK'
  <2>1. pc' \in [Txs -> Places] /\ stale' \subseteq Docs
    BY <1>6 DEF DbInv, TypeOK, StorageFails, Places
  <2>2. CASE Durable(t)
    BY <1>6, <2>1, <2>2, DurableType DEF DbInv, TypeOK, StorageFails
  <2>3. CASE UNCHANGED <<storage, applied, undone>>
    BY <1>6, <2>1, <2>3 DEF DbInv, TypeOK, StorageFails
  <2>4. QED
    BY <1>6, <2>2, <2>3 DEF StorageFails
<1>7. ASSUME NEW t \in Txs, IndexCommit(t) PROVE TypeOK'
  <2>0. TypeOK
    BY DEF DbInv
  <2>1a. Override(index, t, writes[t]) \in [Docs -> Versions]
    BY <2>0, OverrideType, WritesType DEF TypeOK
  <2>1. index' \in [Docs -> Versions]
    BY <1>7, <2>0, <2>1a DEF TypeOK, IndexCommit
  <2>2. pc' \in [Txs -> Places] /\ undone' \subseteq Docs
    BY <1>7 DEF DbInv, TypeOK, IndexCommit, Places
  <2>3. QED
    BY <1>7, <2>1, <2>2 DEF DbInv, TypeOK, IndexCommit
<1>8. ASSUME NEW t \in Txs, TextCommit(t) PROVE TypeOK'
  BY <1>8 DEF DbInv, TypeOK, Places, Intents, Versions, TextCommit
<1>9. ASSUME NEW t \in Txs, GraphCommit(t) PROVE TypeOK'
  BY <1>9 DEF DbInv, TypeOK, Places, Intents, Versions, GraphCommit, Inserted
<1>10. ASSUME NEW t \in Txs, Marker(t) PROVE TypeOK'
  BY <1>10 DEF DbInv, TypeOK, Places, Intents, Versions, Marker
<1>11. ASSUME NEW t \in Txs, compensate_text(t) PROVE TypeOK'
  BY <1>11 DEF DbInv, TypeOK, Places, Intents, Versions, compensate_text, Override
<1>12. ASSUME NEW t \in Txs, compensate_hnsw(t) PROVE TypeOK'
  BY <1>12 DEF DbInv, TypeOK, Places, Intents, Versions, compensate_hnsw, Override
<1>13. ASSUME NEW t \in Txs, compensate_lsm(t) PROVE TypeOK'
  <2>1. \A d \in Written(t) : old[t][d] \in Versions
    BY DEF DbInv, TypeOK
  <2>2. doc' \in [Docs -> Versions]
    BY <1>13, <2>1, OverrideType DEF DbInv, TypeOK, compensate_lsm
  <2>3. pc' \in [Txs -> Places] /\ intent' \in [Txs -> Intents] /\ applied' \subseteq Txs
    BY <1>13 DEF DbInv, TypeOK, compensate_lsm, Places, Intents
  <2>4. QED
    BY <1>13, <2>2, <2>3 DEF DbInv, TypeOK, compensate_lsm
<1>14. ASSUME NEW t \in Txs, AttemptFails(t) PROVE TypeOK'
  <2>1. Recorded /\ TypeOK /\ pc[t] = "comp lsm"
    BY <1>14 DEF AttemptFails, DbInv
  <2>1a. attempts[t] \in 0..3
    BY <2>1 DEF TypeOK
  <2>1b. attempts[t] < 3
    BY <2>1 DEF Recorded
  <2>2. attempts[t] + 1 \in 0..3
    BY <2>1a, <2>1b
  <2>2a. attempts \in [Txs -> 0..3]
    BY <2>1 DEF TypeOK
  <2>2b. attempts' = [attempts EXCEPT ![t] = attempts[t] + 1]
    BY <1>14 DEF AttemptFails
  <2>3. attempts' \in [Txs -> 0..max_attempts]
    BY <2>2, <2>2a, <2>2b
  <2>4. pc' \in [Txs -> Places] /\ stale' \subseteq Docs
    BY <1>14 DEF DbInv, TypeOK, AttemptFails, Places
  <2>5. UNCHANGED <<doc, intent, applied>>
    BY <1>14, <1>env DEF AttemptFails
  <2>6. QED
    BY <1>14, <2>3, <2>4, <2>5 DEF DbInv, TypeOK, AttemptFails
<1>15. ASSUME NEW t \in Txs, Cancel(t) PROVE TypeOK'
  BY <1>15 DEF DbInv, TypeOK, Places, Intents, Versions, Cancel
<1>16. CASE Crash
  <2>1. pc' \in [Txs -> Places]
    BY <1>16 DEF DbInv, TypeOK, Crash, Places
  <2>2. crashes' \in 0..MAX_CRASHES
    BY <1>16, DbAssumption DEF DbInv, TypeOK, Crash
  <2>3. QED
    BY <1>16, <2>1, <2>2 DEF DbInv, TypeOK, Crash
<1>17. CASE Open
  BY <1>17 DEF DbInv, TypeOK, Places, Intents, Versions, Open
<1>18. CASE Repair
  BY <1>18 DEF DbInv, TypeOK, Places, Intents, Versions, Repair, Found
<1>19. CASE RepairFails
  BY <1>19 DEF DbInv, TypeOK, Places, Intents, Versions, RepairFails
<1>20. ASSUME NEW t \in Txs, Settle(t) PROVE TypeOK'
  BY <1>20 DEF DbInv, TypeOK, Places, Intents, Versions, Settle
<1>21. QED
  BY <1>0, <1>1, <1>2, <1>3, <1>4, <1>5, <1>6, <1>7, <1>8, <1>9, <1>10, <1>11, <1>12, <1>13,
     <1>14, <1>15, <1>16, <1>17, <1>18, <1>19, <1>20
     DEF Next, TxStep, CommitStep, insert_op, delete_op

(* Every step keeps the documents of the transactions at work apart: insert_op, update_op and
   delete_op are the only ones that add a document. *)
LEMMA DisjointStep ==
    ASSUME Isolated, DbInv, [Next]_vars
    PROVE  Disjoint'
<1> USE DEF Disjoint, Active, InDoubt, Written, Goto
<1>env. "same document" \notin Environment /\ "partial compensation" \notin Environment
  BY DEF Isolated
<1>0. CASE UNCHANGED vars
  BY <1>0 DEF vars, DbInv, TypeOK
<1>1. ASSUME NEW t \in Txs, NEW d \in Docs, NEW v \in {t, None}, Write(t, d, v)
      PROVE Disjoint'
  BY <1>1, <1>env, DbAssumption, ZenonT(60) DEF DbInv, TypeOK, Versions, Write
<1>2. ASSUME NEW t \in Txs, Rollback(t) PROVE Disjoint'
  BY <1>2 DEF DbInv, TypeOK, Rollback
<1>3. ASSUME NEW t \in Txs, StageText(t) PROVE Disjoint'
  BY <1>3 DEF DbInv, TypeOK, StageText
<1>4. ASSUME NEW t \in Txs, StageGraph(t) PROVE Disjoint'
  BY <1>4 DEF DbInv, TypeOK, StageGraph
<1>5. ASSUME NEW t \in Txs, StorageCommit(t) PROVE Disjoint'
  BY <1>5 DEF DbInv, TypeOK, StorageCommit
<1>6. ASSUME NEW t \in Txs, StorageFails(t) PROVE Disjoint'
  BY <1>6 DEF DbInv, TypeOK, StorageFails
<1>7. ASSUME NEW t \in Txs, IndexCommit(t) PROVE Disjoint'
  BY <1>7 DEF DbInv, TypeOK, IndexCommit
<1>8. ASSUME NEW t \in Txs, TextCommit(t) PROVE Disjoint'
  BY <1>8 DEF DbInv, TypeOK, TextCommit
<1>9. ASSUME NEW t \in Txs, GraphCommit(t) PROVE Disjoint'
  BY <1>9 DEF DbInv, TypeOK, GraphCommit
<1>10. ASSUME NEW t \in Txs, Marker(t) PROVE Disjoint'
  BY <1>10 DEF DbInv, TypeOK, Marker
<1>11. ASSUME NEW t \in Txs, compensate_text(t) PROVE Disjoint'
  BY <1>11 DEF DbInv, TypeOK, compensate_text
<1>12. ASSUME NEW t \in Txs, compensate_hnsw(t) PROVE Disjoint'
  BY <1>12 DEF DbInv, TypeOK, compensate_hnsw
<1>13. ASSUME NEW t \in Txs, compensate_lsm(t) PROVE Disjoint'
  BY <1>13 DEF DbInv, TypeOK, compensate_lsm
<1>14. ASSUME NEW t \in Txs, AttemptFails(t) PROVE Disjoint'
  BY <1>14, <1>env DEF DbInv, TypeOK, AttemptFails
<1>15. ASSUME NEW t \in Txs, Cancel(t) PROVE Disjoint'
  BY <1>15 DEF DbInv, TypeOK, Cancel
<1>16. CASE Crash
  BY <1>16 DEF DbInv, TypeOK, Crash
<1>17. CASE Open
  BY <1>17 DEF DbInv, TypeOK, Open
<1>18. CASE Repair
  BY <1>18 DEF DbInv, TypeOK, Repair
<1>19. CASE RepairFails
  BY <1>19 DEF DbInv, TypeOK, RepairFails
<1>20. ASSUME NEW t \in Txs, Settle(t) PROVE Disjoint'
  BY <1>20 DEF DbInv, TypeOK, Settle
<1>21. QED
  BY <1>0, <1>1, <1>2, <1>3, <1>4, <1>5, <1>6, <1>7, <1>8, <1>9, <1>10, <1>11, <1>12, <1>13,
     <1>14, <1>15, <1>16, <1>17, <1>18, <1>19, <1>20
     DEF Next, TxStep, CommitStep, insert_op, delete_op

(* A crash ends every transaction at work, and repair_on_open settles every intent it found. *)
LEMMA QuietStep ==
    ASSUME Isolated, DbInv, [Next]_vars
    PROVE  Quiet'
<1> USE DEF Quiet, Active, InDoubt, Written, Goto
<1>env. "same document" \notin Environment /\ "partial compensation" \notin Environment
  BY DEF Isolated
<1>0. CASE UNCHANGED vars
  BY <1>0 DEF vars, DbInv, TypeOK
<1>1. ASSUME NEW t \in Txs, NEW d \in Docs, NEW v \in {t, None}, Write(t, d, v)
      PROVE Quiet'
  <2>1. UNCHANGED <<phase, pc, pending>> /\ phase = "up"
    BY <1>1 DEF Write
  <2>2. v # Keep
    BY DbAssumption
  <2>3. \A u \in Txs : Written(u)' = {} => Written(u) = {} /\ u # t
    BY <1>1, <2>2 DEF Write, DbInv, TypeOK
  <2>4. QED
    BY <2>1, <2>3 DEF DbInv
<1>2. ASSUME NEW t \in Txs, Rollback(t) PROVE Quiet'
  BY <1>2 DEF DbInv, TypeOK, Rollback
<1>3. ASSUME NEW t \in Txs, StageText(t) PROVE Quiet'
  BY <1>3 DEF DbInv, TypeOK, StageText
<1>4. ASSUME NEW t \in Txs, StageGraph(t) PROVE Quiet'
  BY <1>4 DEF DbInv, TypeOK, StageGraph
<1>5. ASSUME NEW t \in Txs, StorageCommit(t) PROVE Quiet'
  BY <1>5 DEF DbInv, TypeOK, StorageCommit
<1>6. ASSUME NEW t \in Txs, StorageFails(t) PROVE Quiet'
  BY <1>6 DEF DbInv, TypeOK, StorageFails
<1>7. ASSUME NEW t \in Txs, IndexCommit(t) PROVE Quiet'
  BY <1>7 DEF DbInv, TypeOK, IndexCommit
<1>8. ASSUME NEW t \in Txs, TextCommit(t) PROVE Quiet'
  BY <1>8 DEF DbInv, TypeOK, TextCommit
<1>9. ASSUME NEW t \in Txs, GraphCommit(t) PROVE Quiet'
  BY <1>9 DEF DbInv, TypeOK, GraphCommit
<1>10. ASSUME NEW t \in Txs, Marker(t) PROVE Quiet'
  BY <1>10 DEF DbInv, TypeOK, Marker
<1>11. ASSUME NEW t \in Txs, compensate_text(t) PROVE Quiet'
  BY <1>11 DEF DbInv, TypeOK, compensate_text
<1>12. ASSUME NEW t \in Txs, compensate_hnsw(t) PROVE Quiet'
  BY <1>12 DEF DbInv, TypeOK, compensate_hnsw
<1>13. ASSUME NEW t \in Txs, compensate_lsm(t) PROVE Quiet'
  BY <1>13 DEF DbInv, TypeOK, compensate_lsm
<1>14. ASSUME NEW t \in Txs, AttemptFails(t) PROVE Quiet'
  BY <1>14, <1>env DEF DbInv, TypeOK, AttemptFails
<1>15. ASSUME NEW t \in Txs, Cancel(t) PROVE Quiet'
  BY <1>15 DEF DbInv, TypeOK, Cancel
<1>16. CASE Crash
  BY <1>16 DEF DbInv, TypeOK, Crash
<1>17. CASE Open
  BY <1>17 DEF DbInv, TypeOK, Open
<1>18. CASE Repair
  BY <1>18 DEF DbInv, TypeOK, Repair
<1>19. CASE RepairFails
  BY <1>19 DEF DbInv, TypeOK, RepairFails
<1>20. ASSUME NEW t \in Txs, Settle(t) PROVE Quiet'
  BY <1>20 DEF DbInv, TypeOK, Settle
<1>21. QED
  BY <1>0, <1>1, <1>2, <1>3, <1>4, <1>5, <1>6, <1>7, <1>8, <1>9, <1>10, <1>11, <1>12, <1>13,
     <1>14, <1>15, <1>16, <1>17, <1>18, <1>19, <1>20
     DEF Next, TxStep, CommitStep, insert_op, delete_op

(* Intents are written with the storage commit they speak of. *)
LEMMA RecordedStep ==
    ASSUME Isolated, DbInv, [Next]_vars
    PROVE  Recorded'
<1> USE DEF Recorded, Active, InDoubt, Written, Goto
<1>env. "same document" \notin Environment /\ "partial compensation" \notin Environment
  BY DEF Isolated
<1>0. CASE UNCHANGED vars
  BY <1>0 DEF vars, DbInv, TypeOK
<1>1. ASSUME NEW t \in Txs, NEW d \in Docs, NEW v \in {t, None}, Write(t, d, v)
      PROVE Recorded'
  BY <1>1, <1>env, DbAssumption DEF DbInv, TypeOK, Versions, Write
<1>2. ASSUME NEW t \in Txs, Rollback(t) PROVE Recorded'
  BY <1>2 DEF DbInv, TypeOK, Rollback
<1>3. ASSUME NEW t \in Txs, StageText(t) PROVE Recorded'
  BY <1>3 DEF DbInv, TypeOK, StageText
<1>4. ASSUME NEW t \in Txs, StageGraph(t) PROVE Recorded'
  BY <1>4, ZenonT(60) DEF DbInv, TypeOK, StageGraph, Inserted, Removed
<1>5. ASSUME NEW t \in Txs, StorageCommit(t) PROVE Recorded'
  BY <1>5 DEF DbInv, TypeOK, StorageCommit, Durable, Override, Inserted, Removed
<1>6. ASSUME NEW t \in Txs, StorageFails(t) PROVE Recorded'
  BY <1>6 DEF DbInv, TypeOK, StorageFails, Durable, Override, Inserted, Removed
<1>7. ASSUME NEW t \in Txs, IndexCommit(t) PROVE Recorded'
  BY <1>7, ZenonT(60) DEF DbInv, TypeOK, IndexCommit, Override
<1>8. ASSUME NEW t \in Txs, TextCommit(t) PROVE Recorded'
  BY <1>8 DEF DbInv, TypeOK, TextCommit
<1>9. ASSUME NEW t \in Txs, GraphCommit(t) PROVE Recorded'
  BY <1>9, ZenonT(60) DEF DbInv, TypeOK, GraphCommit, Inserted
<1>10. ASSUME NEW t \in Txs, Marker(t) PROVE Recorded'
  BY <1>10 DEF DbInv, TypeOK, Marker
<1>11. ASSUME NEW t \in Txs, compensate_text(t) PROVE Recorded'
  BY <1>11 DEF DbInv, TypeOK, compensate_text, Override
<1>12. ASSUME NEW t \in Txs, compensate_hnsw(t) PROVE Recorded'
  BY <1>12 DEF DbInv, TypeOK, compensate_hnsw, Override
<1>13. ASSUME NEW t \in Txs, compensate_lsm(t) PROVE Recorded'
  BY <1>13 DEF DbInv, TypeOK, Quiet, compensate_lsm, Places, Intents
<1>14. ASSUME NEW t \in Txs, AttemptFails(t) PROVE Recorded'
  <2>1. UNCHANGED <<doc, intent, applied>>
    BY <1>14, <1>env DEF AttemptFails
  <2>2. TypeOK /\ Recorded /\ pc[t] = "comp lsm"
    BY <1>14 DEF DbInv, AttemptFails
  <2>3. attempts'[t] = attempts[t] + 1 /\ \A u \in Txs \ {t} : attempts'[u] = attempts[u]
    BY <1>14, <2>2 DEF TypeOK, AttemptFails
  <2>4. Active(t)' => attempts'[t] < max_attempts
    BY <1>14, <2>2 DEF TypeOK, AttemptFails
  <2>5. /\ \A u \in Txs \ {t} : pc'[u] = pc[u]
        /\ pc'[t] \in {"comp lsm", "err"} /\ t \in applied
    BY <1>14, <2>2, ZenonT(60) DEF TypeOK, AttemptFails
  <2>6. UNCHANGED pending
    BY <1>14 DEF AttemptFails
  <2>7. QED
    BY <2>1, <2>2, <2>3, <2>4, <2>5, <2>6
<1>15. ASSUME NEW t \in Txs, Cancel(t) PROVE Recorded'
  BY <1>15 DEF DbInv, TypeOK, Cancel
<1>16. CASE Crash
  BY <1>16 DEF DbInv, TypeOK, Crash
<1>17. CASE Open
  BY <1>17 DEF DbInv, TypeOK, Open
<1>18. CASE Repair
  BY <1>18 DEF DbInv, TypeOK, Repair, Found
<1>19. CASE RepairFails
  BY <1>19 DEF DbInv, TypeOK, RepairFails
<1>20. ASSUME NEW t \in Txs, Settle(t) PROVE Recorded'
  BY <1>20 DEF DbInv, TypeOK, Settle
<1>21. QED
  BY <1>0, <1>1, <1>2, <1>3, <1>4, <1>5, <1>6, <1>7, <1>8, <1>9, <1>10, <1>11, <1>12, <1>13,
     <1>14, <1>15, <1>16, <1>17, <1>18, <1>19, <1>20
     DEF Next, TxStep, CommitStep, insert_op, delete_op

(* No other transaction touches the documents of a commit that may have to be undone. *)
LEMMA OldKeptStep ==
    ASSUME Isolated, DbInv, [Next]_vars
    PROVE  OldKept'
<1> USE DEF OldKept, Active, InDoubt, Written, Goto
<1>env. "same document" \notin Environment /\ "partial compensation" \notin Environment
  BY DEF Isolated
<1>0. CASE UNCHANGED vars
  BY <1>0 DEF vars, DbInv, TypeOK
<1>1. ASSUME NEW t \in Txs, NEW d \in Docs, NEW v \in {t, None}, Write(t, d, v)
      PROVE OldKept'
  BY <1>1, <1>env, DbAssumption, ZenonT(60) DEF DbInv, TypeOK, Versions, Write
<1>2. ASSUME NEW t \in Txs, Rollback(t) PROVE OldKept'
  BY <1>2 DEF DbInv, TypeOK, Rollback
<1>3. ASSUME NEW t \in Txs, StageText(t) PROVE OldKept'
  BY <1>3, ZenonT(60) DEF DbInv, TypeOK, StageText
<1>4. ASSUME NEW t \in Txs, StageGraph(t) PROVE OldKept'
  BY <1>4, ZenonT(60) DEF DbInv, TypeOK, StageGraph, Inserted, Removed
<1>5. ASSUME NEW t \in Txs, StorageCommit(t) PROVE OldKept'
  <2> SUFFICES ASSUME NEW u \in Txs, NEW e \in Docs, writes[u][e] # Keep
      PROVE  /\ pc'[u] \in NotYetPlaces => old[u][e] = doc'[e]
             /\ pc'[u] \in InDoubtPlaces => doc'[e] = writes[u][e]
    BY <1>5 DEF OldKept, StorageCommit
  <2>1. CASE u = t
    BY <1>5, <2>1 DEF DbInv, TypeOK, StorageCommit, Durable, Override
  <2>2. CASE u # t
    <3>1. CASE ~Active(u)
      BY <1>5, <2>2, <3>1 DEF DbInv, TypeOK, StorageCommit
    <3>2. CASE Active(u)
      <4>1. e \notin Written(t)
        BY <1>5, <2>2, <3>2, OthersUntouched DEF StorageCommit
      <4>2. doc'[e] = doc[e]
        BY <1>5, <4>1 DEF DbInv, TypeOK, StorageCommit, Durable, Override
      <4>3. QED
        BY <1>5, <2>2, <4>2 DEF DbInv, TypeOK, StorageCommit
    <3>3. QED
      BY <3>1, <3>2
  <2>3. QED
    BY <2>1, <2>2
<1>6. ASSUME NEW t \in Txs, StorageFails(t) PROVE OldKept'
  <2> SUFFICES ASSUME NEW u \in Txs, NEW e \in Docs, writes[u][e] # Keep
      PROVE  /\ pc'[u] \in NotYetPlaces => old[u][e] = doc'[e]
             /\ pc'[u] \in InDoubtPlaces => doc'[e] = writes[u][e]
    BY <1>6 DEF OldKept, StorageFails
  <2>1. CASE u = t
    BY <1>6, <2>1 DEF DbInv, TypeOK, StorageFails, Durable, Override
  <2>2. CASE u # t
    <3>1. CASE ~Active(u)
      BY <1>6, <2>2, <3>1 DEF DbInv, TypeOK, StorageFails
    <3>2. CASE Active(u)
      <4>1. e \notin Written(t)
        BY <1>6, <2>2, <3>2, OthersUntouched DEF StorageFails
      <4>2. doc'[e] = doc[e]
        BY <1>6, <4>1, ZenonT(60) DEF DbInv, TypeOK, StorageFails, Durable, Override
      <4>3. QED
        BY <1>6, <2>2, <4>2 DEF DbInv, TypeOK, StorageFails
    <3>3. QED
      BY <3>1, <3>2
  <2>3. QED
    BY <2>1, <2>2
<1>7. ASSUME NEW t \in Txs, IndexCommit(t) PROVE OldKept'
  BY <1>7, ZenonT(60) DEF DbInv, TypeOK, IndexCommit, Override
<1>8. ASSUME NEW t \in Txs, TextCommit(t) PROVE OldKept'
  BY <1>8, ZenonT(60) DEF DbInv, TypeOK, TextCommit
<1>9. ASSUME NEW t \in Txs, GraphCommit(t) PROVE OldKept'
  BY <1>9, ZenonT(60) DEF DbInv, TypeOK, GraphCommit, Inserted
<1>10. ASSUME NEW t \in Txs, Marker(t) PROVE OldKept'
  BY <1>10 DEF DbInv, TypeOK, Marker
<1>11. ASSUME NEW t \in Txs, compensate_text(t) PROVE OldKept'
  BY <1>11 DEF DbInv, TypeOK, compensate_text, Override
<1>12. ASSUME NEW t \in Txs, compensate_hnsw(t) PROVE OldKept'
  BY <1>12 DEF DbInv, TypeOK, compensate_hnsw, Override
<1>13. ASSUME NEW t \in Txs, compensate_lsm(t) PROVE OldKept'
  <2> SUFFICES ASSUME NEW u \in Txs, NEW e \in Docs, writes[u][e] # Keep
      PROVE  /\ pc'[u] \in NotYetPlaces => old[u][e] = doc'[e]
             /\ pc'[u] \in InDoubtPlaces => doc'[e] = writes[u][e]
    BY <1>13 DEF OldKept, compensate_lsm
  <2>1. CASE u = t
    BY <1>13, <2>1 DEF DbInv, TypeOK, compensate_lsm, Override
  <2>2. CASE u # t
    <3>1. CASE ~Active(u)
      BY <1>13, <2>2, <3>1 DEF DbInv, TypeOK, compensate_lsm
    <3>2. CASE Active(u)
      <4>1. e \notin Written(t)
        BY <1>13, <2>2, <3>2, OthersUntouched DEF compensate_lsm
      <4>2. doc'[e] = doc[e]
        BY <1>13, <4>1 DEF DbInv, TypeOK, compensate_lsm, Override
      <4>3. QED
        BY <1>13, <2>2, <4>2 DEF DbInv, TypeOK, compensate_lsm
    <3>3. QED
      BY <3>1, <3>2
  <2>3. QED
    BY <2>1, <2>2
<1>14. ASSUME NEW t \in Txs, AttemptFails(t) PROVE OldKept'
  <2>1. UNCHANGED <<doc, writes, old>>
    BY <1>14, <1>env DEF AttemptFails
  <2>2. \A u \in Txs : pc'[u] = pc[u] \/ pc'[u] = "err"
    BY <1>14 DEF DbInv, TypeOK, AttemptFails
  <2>3. QED
    BY <2>1, <2>2 DEF DbInv
<1>15. ASSUME NEW t \in Txs, Cancel(t) PROVE OldKept'
  BY <1>15 DEF DbInv, TypeOK, Cancel
<1>16. CASE Crash
  BY <1>16 DEF DbInv, TypeOK, Crash
<1>17. CASE Open
  BY <1>17 DEF DbInv, TypeOK, Open
<1>18. CASE Repair
  BY <1>18 DEF DbInv, TypeOK, Repair, Found
<1>19. CASE RepairFails
  BY <1>19 DEF DbInv, TypeOK, RepairFails
<1>20. ASSUME NEW t \in Txs, Settle(t) PROVE OldKept'
  BY <1>20 DEF DbInv, TypeOK, Settle
<1>21. QED
  BY <1>0, <1>1, <1>2, <1>3, <1>4, <1>5, <1>6, <1>7, <1>8, <1>9, <1>10, <1>11, <1>12, <1>13,
     <1>14, <1>15, <1>16, <1>17, <1>18, <1>19, <1>20
     DEF Next, TxStep, CommitStep, insert_op, delete_op

(* A step that leaves the documents and the writes alone, aborts no intent and makes
   no finished transaction active, keeps the origin of every version. *)
LEMMA OriginKept ==
    ASSUME DbInv, UNCHANGED <<doc, writes, old, applied>>,
           \A u \in Txs : intent'[u] = "Aborted" => intent[u] = "Aborted",
           \A u \in Txs : Active(u)' => Active(u)
    PROVE  Origin'
<1> USE DEF Valid
<1>1. \A e \in Docs : \A v : Valid(v, e) => Valid(v, e)'
  OBVIOUS
<1> SUFFICES ASSUME NEW e \in Docs
    PROVE  /\ Valid(doc[e], e)'
           /\ \A u \in Txs : Active(u)' /\ writes'[u][e] # Keep =>
                Valid(old[u][e], e)' /\ (old'[u][e] \in Txs => ~Active(old[u][e])')
  BY DEF Origin
<1>2. Valid(doc[e], e)'
  BY <1>1 DEF DbInv, Origin
<1>3. ASSUME NEW u \in Txs, Active(u)', writes'[u][e] # Keep
      PROVE  Valid(old[u][e], e)' /\ (old'[u][e] \in Txs => ~Active(old[u][e])')
  <2>1. Valid(old[u][e], e) /\ (old[u][e] \in Txs => ~Active(old[u][e]))
    BY <1>3 DEF DbInv, Origin
  <2>2. Valid(old[u][e], e)'
    BY <1>1, <2>1
  <2>3. old[u][e] \in Txs => ~Active(old[u][e])'
    BY <2>1 DEF Active
  <2>4. QED
    BY <2>2, <2>3
<1>4. QED
  BY <1>2, <1>3

(* What compensate_lsm puts back was committed by a transaction that is over. *)
LEMMA OriginStep ==
    ASSUME Isolated, DbInv, [Next]_vars
    PROVE  Origin'
<1> USE DEF Origin, Active, InDoubt, Written, Goto, Valid
<1>env. "same document" \notin Environment /\ "partial compensation" \notin Environment
  BY DEF Isolated
<1>0. CASE UNCHANGED vars
  BY <1>0 DEF vars, DbInv, TypeOK
<1>1. ASSUME NEW t \in Txs, NEW d \in Docs, NEW v \in {t, None}, Write(t, d, v)
      PROVE Origin'
  <2> SUFFICES ASSUME NEW e \in Docs
      PROVE  /\ Valid(doc[e], e)'
             /\ \A u \in Txs : Active(u) /\ writes'[u][e] # Keep =>
                  Valid(old[u][e], e)' /\ (old'[u][e] \in Txs => ~Active(old'[u][e]))
    BY <1>1 DEF Origin, Write
  <2>0. Keep \notin Txs
    BY DbAssumption
  <2>1. writes[t][d] = Keep
    BY <1>1 DEF Write
  <2>2. \A w \in Txs : Valid(w, e) => Valid(w, e)'
    <3> SUFFICES ASSUME NEW w \in Txs, Valid(w, e) PROVE Valid(w, e)'
      OBVIOUS
    <3>1. writes'[w][e] = w
      BY <1>1, <2>0, <2>1, ZenonT(60) DEF Write, DbInv, TypeOK
    <3>2. QED
      BY <1>1, <3>1 DEF Write
  <2>3. Valid(doc[e], e)'
    BY <1>1, <2>2 DEF Write, DbInv
  <2>4. ASSUME NEW u \in Txs, Active(u), writes'[u][e] # Keep
        PROVE  Valid(old[u][e], e)' /\ (old'[u][e] \in Txs => ~Active(old'[u][e]))
    <3>1. CASE u = t /\ e = d
      <4>1. old'[u][e] = doc[d]
        BY <1>1, <3>1 DEF Write, DbInv, TypeOK
      <4>2. ASSUME doc[d] \in Txs PROVE ~Active(doc[d])
        <5>1. writes[doc[d]][d] = doc[d]
          BY <4>2 DEF DbInv
        <5>2. doc[d] # t /\ d \in Written(doc[d])
          BY <2>0, <2>1, <4>2, <5>1
        <5>3. QED
          BY <1>1, <1>env, <4>2, <5>2 DEF Write
      <4>3. QED
        BY <1>1, <2>3, <3>1, <4>1, <4>2 DEF Write
    <3>2. CASE ~(u = t /\ e = d)
      <4>1. old'[u][e] = old[u][e] /\ writes'[u][e] = writes[u][e]
        BY <1>1, <3>2 DEF Write, DbInv, TypeOK
      <4>2. Valid(old[u][e], e) /\ (old[u][e] \in Txs => ~Active(old[u][e]))
        BY <2>4, <4>1 DEF DbInv
      <4>3. QED
        BY <2>2, <4>1, <4>2
    <3>3. QED
      BY <3>1, <3>2
  <2>5. QED
    BY <2>3, <2>4
<1>2. ASSUME NEW t \in Txs, Rollback(t) PROVE Origin'
  <2>1. /\ UNCHANGED <<doc, writes, old, applied>>
        /\ \A u \in Txs : intent'[u] = "Aborted" => intent[u] = "Aborted"
    BY <1>2 DEF Rollback
  <2>2. \A u \in Txs : Active(u)' => Active(u)
    BY <1>2 DEF DbInv, TypeOK, Rollback
  <2>3. QED
    BY <2>1, <2>2, OriginKept
<1>3. ASSUME NEW t \in Txs, StageText(t) PROVE Origin'
  <2>1. /\ UNCHANGED <<doc, writes, old, applied>>
        /\ \A u \in Txs : intent'[u] = "Aborted" => intent[u] = "Aborted"
    BY <1>3 DEF StageText
  <2>2. \A u \in Txs : Active(u)' => Active(u)
    BY <1>3 DEF DbInv, TypeOK, StageText
  <2>3. QED
    BY <2>1, <2>2, OriginKept
<1>4. ASSUME NEW t \in Txs, StageGraph(t) PROVE Origin'
  <2>1. /\ UNCHANGED <<doc, writes, old, applied>>
        /\ \A u \in Txs : intent'[u] = "Aborted" => intent[u] = "Aborted"
    BY <1>4 DEF StageGraph
  <2>2. \A u \in Txs : Active(u)' => Active(u)
    BY <1>4 DEF DbInv, TypeOK, StageGraph
  <2>3. QED
    BY <2>1, <2>2, OriginKept
<1>5. ASSUME NEW t \in Txs, StorageCommit(t) PROVE Origin'
  <2>1. CASE Durable(t)
    <3> SUFFICES ASSUME NEW e \in Docs
        PROVE  /\ Valid(doc[e], e)'
               /\ \A u \in Txs : Active(u)' /\ writes[u][e] # Keep =>
                    Valid(old[u][e], e)' /\ (old[u][e] \in Txs => ~Active(old[u][e])')
      BY <1>5 DEF Origin, StorageCommit
    <3>1. \A w \in Txs : Valid(w, e) => Valid(w, e)'
      BY <1>5, <2>1 DEF DbInv, TypeOK, StorageCommit, Durable
    <3>2. \A w \in Txs : ~Active(w) => ~Active(w)'
      BY <1>5 DEF DbInv, TypeOK, StorageCommit
    <3>2a. ASSUME NEW u \in Txs, Active(u)', writes[u][e] # Keep
           PROVE  Valid(old[u][e], e)' /\ (old[u][e] \in Txs => ~Active(old[u][e])')
      <4>1. Active(u) /\ UNCHANGED old
        BY <1>5, <3>2, <3>2a DEF StorageCommit
      <4>2. QED
        BY <3>1, <3>2, <3>2a, <4>1 DEF DbInv
    <3>3. CASE e \in Written(t)
      <4>1. doc'[e] = writes[t][e] /\ writes[t][e] \in {t, None}
        BY <2>1, <3>3 DEF Durable, Override, DbInv, Disjoint
      <4>2. intent'[t] = "Pending" /\ t \in applied'
        BY <2>1 DEF Durable, DbInv, TypeOK
      <4>3. Valid(doc[e], e)'
        BY <1>5, <4>1, <4>2, DbAssumption DEF StorageCommit
      <4>4. QED
        BY <3>2a, <4>3
    <3>4. CASE e \notin Written(t)
      <4>1. doc'[e] = doc[e]
        BY <2>1, <3>4 DEF Durable, Override
      <4>2. Valid(doc[e], e)'
        BY <1>5, <3>1, <4>1 DEF DbInv, StorageCommit
      <4>3. QED
        BY <3>2a, <4>2
    <3>5. QED
      BY <3>3, <3>4
  <2>2. CASE UNCHANGED <<storage, applied, undone>>
    <3>1. \A u \in Txs : Active(u)' => Active(u)
      BY <1>5 DEF DbInv, TypeOK, StorageCommit
    <3>2. QED
      BY <1>5, <2>2, <3>1, OriginKept DEF StorageCommit
  <2>3. QED
    BY <1>5, <2>1, <2>2 DEF StorageCommit
<1>6. ASSUME NEW t \in Txs, StorageFails(t) PROVE Origin'
  <2>1. CASE Durable(t)
    <3> SUFFICES ASSUME NEW e \in Docs
        PROVE  /\ Valid(doc[e], e)'
               /\ \A u \in Txs : Active(u)' /\ writes[u][e] # Keep =>
                    Valid(old[u][e], e)' /\ (old[u][e] \in Txs => ~Active(old[u][e])')
      BY <1>6 DEF Origin, StorageFails
    <3>1. \A w \in Txs : Valid(w, e) => Valid(w, e)'
      BY <1>6, <2>1 DEF DbInv, TypeOK, StorageFails, Durable
    <3>2. \A w \in Txs : ~Active(w) => ~Active(w)'
      BY <1>6 DEF DbInv, TypeOK, StorageFails
    <3>2a. ASSUME NEW u \in Txs, Active(u)', writes[u][e] # Keep
           PROVE  Valid(old[u][e], e)' /\ (old[u][e] \in Txs => ~Active(old[u][e])')
      <4>1. Active(u) /\ UNCHANGED old
        BY <1>6, <3>2, <3>2a DEF StorageFails
      <4>2. QED
        BY <3>1, <3>2, <3>2a, <4>1 DEF DbInv
    <3>3. CASE e \in Written(t)
      <4>1. doc'[e] = writes[t][e] /\ writes[t][e] \in {t, None}
        BY <2>1, <3>3 DEF Durable, Override, DbInv, Disjoint
      <4>2. intent'[t] = "Pending" /\ t \in applied'
        BY <2>1 DEF Durable, DbInv, TypeOK
      <4>3. Valid(doc[e], e)'
        BY <1>6, <4>1, <4>2, DbAssumption DEF StorageFails
      <4>4. QED
        BY <3>2a, <4>3
    <3>4. CASE e \notin Written(t)
      <4>1. doc'[e] = doc[e]
        BY <2>1, <3>4 DEF Durable, Override
      <4>2. Valid(doc[e], e)'
        BY <1>6, <3>1, <4>1 DEF DbInv, StorageFails
      <4>3. QED
        BY <3>2a, <4>2
    <3>5. QED
      BY <3>3, <3>4
  <2>2. CASE UNCHANGED <<storage, applied, undone>>
    <3>1. \A u \in Txs : Active(u)' => Active(u)
      BY <1>6 DEF DbInv, TypeOK, StorageFails
    <3>2. QED
      BY <1>6, <2>2, <3>1, OriginKept DEF StorageFails
  <2>3. QED
    BY <1>6, <2>1, <2>2 DEF StorageFails
<1>7. ASSUME NEW t \in Txs, IndexCommit(t) PROVE Origin'
  <2>1. /\ UNCHANGED <<doc, writes, old, applied>>
        /\ \A u \in Txs : intent'[u] = "Aborted" => intent[u] = "Aborted"
    BY <1>7 DEF IndexCommit
  <2>2. \A u \in Txs : Active(u)' => Active(u)
    BY <1>7 DEF DbInv, TypeOK, IndexCommit
  <2>3. QED
    BY <2>1, <2>2, OriginKept
<1>8. ASSUME NEW t \in Txs, TextCommit(t) PROVE Origin'
  <2>1. /\ UNCHANGED <<doc, writes, old, applied>>
        /\ \A u \in Txs : intent'[u] = "Aborted" => intent[u] = "Aborted"
    BY <1>8 DEF TextCommit
  <2>2. \A u \in Txs : Active(u)' => Active(u)
    BY <1>8 DEF DbInv, TypeOK, TextCommit
  <2>3. QED
    BY <2>1, <2>2, OriginKept
<1>9. ASSUME NEW t \in Txs, GraphCommit(t) PROVE Origin'
  <2>1. /\ UNCHANGED <<doc, writes, old, applied>>
        /\ \A u \in Txs : intent'[u] = "Aborted" => intent[u] = "Aborted"
    BY <1>9 DEF GraphCommit
  <2>2. \A u \in Txs : Active(u)' => Active(u)
    BY <1>9 DEF DbInv, TypeOK, GraphCommit
  <2>3. QED
    BY <2>1, <2>2, OriginKept
<1>10. ASSUME NEW t \in Txs, Marker(t) PROVE Origin'
  <2>1. /\ UNCHANGED <<doc, writes, old, applied>>
        /\ \A u \in Txs : intent'[u] = "Aborted" => intent[u] = "Aborted"
    BY <1>10 DEF DbInv, TypeOK, Marker
  <2>2. \A u \in Txs : Active(u)' => Active(u)
    BY <1>10 DEF DbInv, TypeOK, Marker
  <2>3. QED
    BY <2>1, <2>2, OriginKept
<1>11. ASSUME NEW t \in Txs, compensate_text(t) PROVE Origin'
  <2>1. /\ UNCHANGED <<doc, writes, old, applied>>
        /\ \A u \in Txs : intent'[u] = "Aborted" => intent[u] = "Aborted"
    BY <1>11 DEF compensate_text
  <2>2. \A u \in Txs : Active(u)' => Active(u)
    BY <1>11 DEF DbInv, TypeOK, compensate_text
  <2>3. QED
    BY <2>1, <2>2, OriginKept
<1>12. ASSUME NEW t \in Txs, compensate_hnsw(t) PROVE Origin'
  <2>1. /\ UNCHANGED <<doc, writes, old, applied>>
        /\ \A u \in Txs : intent'[u] = "Aborted" => intent[u] = "Aborted"
    BY <1>12 DEF compensate_hnsw
  <2>2. \A u \in Txs : Active(u)' => Active(u)
    BY <1>12 DEF DbInv, TypeOK, compensate_hnsw
  <2>3. QED
    BY <2>1, <2>2, OriginKept
<1>13. ASSUME NEW t \in Txs, compensate_lsm(t) PROVE Origin'
  <2> SUFFICES ASSUME NEW e \in Docs
      PROVE  /\ Valid(doc[e], e)'
             /\ \A u \in Txs : Active(u)' /\ writes[u][e] # Keep =>
                  Valid(old[u][e], e)' /\ (old[u][e] \in Txs => ~Active(old[u][e])')
    BY <1>13 DEF Origin, compensate_lsm
  <2>1. Active(t) /\ \A u \in Txs : ~Active(u) => u # t /\ ~Active(u)'
    BY <1>13 DEF compensate_lsm, DbInv, TypeOK
  <2>2. \A w \in Txs : Valid(w, e) /\ w # t => Valid(w, e)'
    BY <1>13 DEF DbInv, TypeOK, compensate_lsm
  <2>3. \A u \in Txs : Active(u)' => Active(u)
    BY <1>13 DEF compensate_lsm, DbInv, TypeOK
  <2>4. Valid(doc[e], e)'
    <3>1. CASE e \in Written(t)
      <4>1. doc'[e] = old[t][e]
        BY <1>13, <3>1 DEF compensate_lsm, Override
      <4>2. Valid(old[t][e], e) /\ (old[t][e] \in Txs => old[t][e] # t)
        BY <2>1, <3>1 DEF DbInv
      <4>3. QED
        BY <2>2, <4>1, <4>2
    <3>2. CASE e \notin Written(t)
      <4>1. doc'[e] = doc[e]
        BY <1>13, <3>2 DEF compensate_lsm, Override
      <4>2. Valid(doc[e], e) /\ doc[e] # t
        BY <3>2, DbAssumption DEF DbInv
      <4>3. QED
        BY <2>2, <4>1, <4>2
    <3>3. QED
      BY <3>1, <3>2
  <2>5. QED
    BY <1>13, <2>1, <2>2, <2>3, <2>4 DEF DbInv, compensate_lsm
<1>14. ASSUME NEW t \in Txs, AttemptFails(t) PROVE Origin'
  <2>1. UNCHANGED <<doc, writes, old, intent, applied>>
    BY <1>14, <1>env DEF AttemptFails
  <2>2. \A u \in Txs : Active(u)' => Active(u)
    BY <1>14, ZenonT(60) DEF DbInv, TypeOK, AttemptFails
  <2>3. QED
    BY <2>1, <2>2, OriginKept
<1>15. ASSUME NEW t \in Txs, Cancel(t) PROVE Origin'
  <2>1. /\ UNCHANGED <<doc, writes, old, applied>>
        /\ \A u \in Txs : intent'[u] = "Aborted" => intent[u] = "Aborted"
    BY <1>15 DEF Cancel
  <2>2. \A u \in Txs : Active(u)' => Active(u)
    BY <1>15 DEF DbInv, TypeOK, Cancel
  <2>3. QED
    BY <2>1, <2>2, OriginKept
<1>16. CASE Crash
  <2>1. /\ UNCHANGED <<doc, writes, old, applied>>
        /\ \A u \in Txs : intent'[u] = "Aborted" => intent[u] = "Aborted"
    BY <1>16 DEF Crash
  <2>2. \A u \in Txs : Active(u)' => Active(u)
    BY <1>16 DEF DbInv, TypeOK, Crash
  <2>3. QED
    BY <2>1, <2>2, OriginKept
<1>17. CASE Open
  <2>1. /\ UNCHANGED <<doc, writes, old, applied>>
        /\ \A u \in Txs : intent'[u] = "Aborted" => intent[u] = "Aborted"
    BY <1>17 DEF Open
  <2>2. \A u \in Txs : Active(u)' => Active(u)
    BY <1>17 DEF DbInv, TypeOK, Open
  <2>3. QED
    BY <2>1, <2>2, OriginKept
<1>18. CASE Repair
  BY <1>18 DEF DbInv, TypeOK, Repair, Found
<1>19. CASE RepairFails
  BY <1>19 DEF DbInv, TypeOK, RepairFails
<1>20. ASSUME NEW t \in Txs, Settle(t) PROVE Origin'
  <2> SUFFICES ASSUME NEW e \in Docs
      PROVE  /\ Valid(doc[e], e)'
             /\ \A u \in Txs : Active(u) => writes[u][e] = Keep
    BY <1>20 DEF Origin, Settle
  <2>1. \A u \in Txs : Active(u) => writes[u][e] = Keep
    <3>1. phase # "up"
      BY <1>20 DEF Settle
    <3>2. Quiet
      BY DEF DbInv
    <3>3. \A u \in Txs : Active(u) => \A d \in Docs : writes[u][d] = Keep
      BY <3>1, <3>2 DEF Quiet
    <3>4. QED
      BY <3>3
  <2>2. ASSUME doc[e] \in Txs
        PROVE  doc[e] \in applied /\ writes[doc[e]][e] = doc[e] /\ intent'[doc[e]] # "Aborted"
    <3>1. doc[e] \in applied /\ writes[doc[e]][e] = doc[e] /\ intent[doc[e]] # "Aborted"
      BY <2>2 DEF DbInv
    <3>2. CASE doc[e] = t
      <4>1. e \in Written(t) /\ doc[e] # None
        BY <2>2, <3>1, <3>2, DbAssumption
      <4>2. intent'[t] = "Committed" \/ intent' = intent
        BY <1>20, <4>1 DEF Settle, DbInv, TypeOK
      <4>3. QED
        BY <3>1, <3>2, <4>2
    <3>3. CASE doc[e] # t
      BY <1>20, <2>2, <3>1, <3>3 DEF Settle, DbInv, TypeOK
    <3>4. QED
      BY <3>2, <3>3
  <2>3. QED
    BY <1>20, <2>1, <2>2 DEF Settle
<1>21. QED
  BY <1>0, <1>1, <1>2, <1>3, <1>4, <1>5, <1>6, <1>7, <1>8, <1>9, <1>10, <1>11, <1>12, <1>13,
     <1>14, <1>15, <1>16, <1>17, <1>18, <1>19, <1>20
     DEF Next, TxStep, CommitStep, insert_op, delete_op

-----------------------------------------------------------------------------
(* DbInv is an invariant of every commit, compensation, cancellation, crash and repair
   of transactions that write different documents. *)
THEOREM DbInvariant ==
    ASSUME Isolated PROVE Spec => []DbInv
<1>1. Init => DbInv
  <2> SUFFICES ASSUME Init PROVE DbInv
    OBVIOUS
  <2>1. TypeOK
    BY DbAssumption DEF Init, TypeOK, Versions, Intents, Places
  <2>2. Disjoint /\ Quiet /\ Recorded /\ OldKept
    BY DEF Init, Disjoint, Quiet, Recorded, OldKept, Active, InDoubt
  <2>3. Origin
    BY DbAssumption DEF Init, Origin, Valid, Active
  <2>4. QED
    BY <2>1, <2>2, <2>3 DEF DbInv
<1>2. DbInv /\ [Next]_vars => DbInv'
  BY TypeOKStep, DisjointStep, QuietStep, RecordedStep, OldKeptStep, OriginStep DEF DbInv
<1>3. QED
  BY <1>1, <1>2, PTL DEF Spec

(* Phase, storage, indexes and transactions keep their types. *)
THEOREM DbTypes ==
    ASSUME Isolated PROVE Spec => []TypeOK
<1>1. DbInv => TypeOK
  BY DEF DbInv
<1>2. QED
  BY <1>1, DbInvariant, PTL

(* An Aborted intent means that no document has the transaction's version, whether
   compensate_lsm or repair_on_open wrote it; a Committed one that it was not undone. *)
THEOREM IntentsUpheld ==
    ASSUME Isolated PROVE Spec => []IntentUpheld
<1>1. DbInv => IntentUpheld
  <2> SUFFICES ASSUME DbInv, NEW t \in Txs
      PROVE  /\ intent[t] = "Aborted" => \A d \in Docs : doc[d] # t
             /\ intent[t] = "Committed" => t \in applied
    BY DEF IntentUpheld
  <2>1. \A d \in Docs : Valid(doc[d], d)
    BY DEF DbInv, Origin
  <2>2. QED
    BY <2>1, ZenonT(60) DEF DbInv, Recorded, Valid
<1>2. QED
  BY <1>1, DbInvariant, PTL

-----------------------------------------------------------------------------
(* The refinement.                                                         *)

(* What value[d] is, without the CHOOSE. *)
ValueOk(d) ==
    /\ \A t \in Txs : InDoubt(t) /\ d \in Written(t) => value[d] = old[t][d]
    /\ (\A t \in Txs : ~(InDoubt(t) /\ d \in Written(t))) => value[d] = doc[d]

AllValuesOk == \A d \in Docs : ValueOk(d)

(* A document of a transaction in doubt has the value that compensation would put
   back; every other one has the value in the storage engine. *)
LEMMA ValueIs == DbInv => AllValuesOk
<1> SUFFICES ASSUME DbInv, NEW d \in Docs PROVE ValueOk(d)
  BY DEF AllValuesOk
<1>1. ASSUME NEW t \in Txs, InDoubt(t), d \in Written(t)
      PROVE  value[d] = old[t][d]
  <2> DEFINE c == CHOOSE u \in Txs : InDoubt(u) /\ d \in Written(u)
  <2>1. c \in Txs /\ InDoubt(c) /\ d \in Written(c)
    BY <1>1
  <2>2. c = t
    BY <1>1, <2>1, OthersUntouched DEF InDoubt, Active, Written
  <2>3. QED
    BY <1>1, <2>1, <2>2 DEF value
<1>2. QED
  BY <1>1 DEF value, ValueOk

(* Only transaction t moves, and only documents it writes change. *)
Moves(t) ==
    /\ t \in Txs /\ \A u \in Txs \ {t} : pc'[u] = pc[u] /\ (u \in applied' <=> u \in applied)
    /\ UNCHANGED <<writes, old>>
    /\ \A d \in Docs \ Written(t) : doc'[d] = doc[d]

(* What becomes of the values of the abstract specification when one transaction moves. *)
LEMMA MoveValue ==
    ASSUME DbInv, DbInv', NEW t, Moves(t), NEW d \in Docs
    PROVE  /\ d \notin Written(t) => value'[d] = value[d]
           /\ d \in Written(t) /\ pc[t] \in NotYetPlaces \union InDoubtPlaces
                => value[d] = old[t][d]
           /\ d \in Written(t) /\ Active(t) /\ pc'[t] \notin InDoubtPlaces
                => value'[d] = doc'[d]
           /\ d \in Written(t) /\ pc'[t] \in InDoubtPlaces => value'[d] = old[t][d]
<1>0. AllValuesOk /\ AllValuesOk'
  BY ValueIs, PTL
<1>1. ValueOk(d) /\ ValueOk(d)'
  BY <1>0 DEF AllValuesOk
<1>2. t \in Txs /\ UNCHANGED <<writes, old>> /\ \A u \in Txs \ {t} : pc'[u] = pc[u]
  BY DEF Moves
<1>3. ASSUME d \notin Written(t) PROVE value'[d] = value[d]
  <2>1. \A u \in Txs : /\ (d \in Written(u))' <=> d \in Written(u)
                       /\ d \in Written(u) => (InDoubt(u)' <=> InDoubt(u))
    BY <1>2, <1>3 DEF InDoubt, Written
  <2>2. CASE \E u \in Txs : InDoubt(u) /\ d \in Written(u)
    <3>1. PICK u \in Txs : InDoubt(u) /\ d \in Written(u)
      BY <2>2
    <3>2. value[d] = old[u][d] /\ value'[d] = old'[u][d]
      BY <1>1, <2>1, <3>1 DEF ValueOk
    <3>3. QED
      BY <1>2, <3>2
  <2>3. CASE \A u \in Txs : ~(InDoubt(u) /\ d \in Written(u))
    <3>1. value[d] = doc[d] /\ value'[d] = doc'[d]
      BY <1>1, <2>1, <2>3 DEF ValueOk
    <3>2. QED
      BY <1>3, <3>1 DEF Moves
  <2>4. QED
    BY <2>2, <2>3
<1>4. ASSUME d \in Written(t), Active(t)
      PROVE  \A u \in Txs \ {t} : ~(InDoubt(u) /\ d \in Written(u))
  BY <1>2, <1>4 DEF DbInv, Disjoint, InDoubt, Active, Written
<1>5. ASSUME d \in Written(t), pc[t] \in NotYetPlaces \union InDoubtPlaces
      PROVE  value[d] = old[t][d]
  BY <1>1, <1>2, <1>4, <1>5 DEF ValueOk, InDoubt, Active, Written, DbInv, OldKept
<1>6. ASSUME d \in Written(t), Active(t), pc'[t] \notin InDoubtPlaces
      PROVE  value'[d] = doc'[d]
  BY <1>1, <1>2, <1>4, <1>6 DEF ValueOk, InDoubt, Written
<1>7. ASSUME d \in Written(t), pc'[t] \in InDoubtPlaces PROVE value'[d] = old[t][d]
  BY <1>1, <1>2, <1>7 DEF ValueOk, InDoubt, Written
<1>8. QED
  BY <1>3, <1>5, <1>6, <1>7

(* The other transactions keep their outcome. *)
LEMMA MoveOutcome ==
    ASSUME NEW t, Moves(t)
    PROVE  \A u \in Txs \ {t} : outcome'[u] = outcome[u]
  BY DEF Moves, outcome

(* A step within commit, before anything is decided, is none of the abstract one. *)
LEMMA Undecided ==
    ASSUME DbInv, DbInv', NEW t, Moves(t),
           pc[t] \in NotYetPlaces \union InDoubtPlaces,
           pc'[t] \in NotYetPlaces \union InDoubtPlaces
    PROVE  UNCHANGED <<value, writes, outcome>>
<1>1. ASSUME NEW d \in Docs PROVE value'[d] = value[d]
  <2>1. CASE d \notin Written(t)
    BY <2>1, MoveValue
  <2>2. CASE d \in Written(t)
    <3>1. value[d] = old[t][d]
      BY <2>2, MoveValue
    <3>2. CASE pc'[t] \in InDoubtPlaces
      BY <2>2, <3>1, <3>2, MoveValue
    <3>3. CASE pc'[t] \in NotYetPlaces
      <4>1. Active(t)
        BY DEF Active
      <4>2. value'[d] = doc'[d]
        BY <2>2, <3>3, <4>1, MoveValue
      <4>3. writes'[t][d] # Keep /\ old'[t][d] = old[t][d]
        BY <2>2 DEF Moves, Written
      <4>4. doc'[d] = old'[t][d]
        BY <3>3, <4>3 DEF DbInv, OldKept, Moves
      <4>5. QED
        BY <3>1, <4>2, <4>3, <4>4
    <3>4. QED
      BY <3>2, <3>3
  <2>3. QED
    BY <2>1, <2>2
<1>2. value' = value
  BY <1>1 DEF value
<1>3. outcome'[t] = outcome[t]
  BY DEF outcome, Moves
<1>4. outcome' = outcome
  BY <1>3, MoveOutcome DEF outcome
<1>5. QED
  BY <1>2, <1>4 DEF Moves

(* A transaction that ends with its writes in the storage engine is committed. *)
LEMMA Commits ==
    ASSUME DbInv, DbInv', NEW t, Moves(t),
           pc[t] \in NotYetPlaces \union InDoubtPlaces,
           pc'[t] \in Finished \union {"marker"}, t \in applied',
           \A d \in Written(t) : doc'[d] = writes[t][d]
    PROVE  Atomic!Decide({t}, {})
<1>1. t \in Txs /\ Active(t) /\ UNCHANGED writes
  BY DEF Moves, Active
<1>2. outcome[t] = "open" /\ outcome'[t] = "committed"
  BY <1>1 DEF outcome
<1>3. outcome' = [u \in Txs |-> IF u \in {t} THEN "committed"
                               ELSE IF u \in {} THEN "aborted" ELSE outcome[u]]
  BY <1>2, MoveOutcome DEF outcome
<1>4. ASSUME NEW d \in Docs
      PROVE  IF \E u \in {t} : writes[u][d] # Keep
             THEN \E u \in {t} : /\ writes[u][d] # Keep
                                 /\ \A w \in {t} \ {u} : writes[w][d] = Keep
                                 /\ value'[d] = writes[u][d]
             ELSE value'[d] = value[d]
  <2>1. CASE d \in Written(t)
    <3>1. value'[d] = doc'[d]
      BY <1>1, <2>1, MoveValue
    <3>2. QED
      BY <2>1, <3>1 DEF Written
  <2>2. CASE d \notin Written(t)
    BY <2>2, MoveValue DEF Written
  <2>3. QED
    BY <2>1, <2>2
<1>5. DOMAIN value' = Docs
  BY DEF value
<1>6. QED
  BY <1>1, <1>2, <1>3, <1>4, <1>5 DEF Atomic!Decide, Atomic!Keep

(* A transaction that ends with the old values in the storage engine is aborted. *)
LEMMA Aborts ==
    ASSUME DbInv, DbInv', NEW t, Moves(t),
           pc[t] \in NotYetPlaces \union InDoubtPlaces,
           pc'[t] \in Finished, t \notin applied',
           \A d \in Written(t) : doc'[d] = old[t][d]
    PROVE  Atomic!Decide({}, {t})
<1>1. t \in Txs /\ Active(t) /\ UNCHANGED writes
  BY DEF Moves, Active
<1>2. outcome[t] = "open" /\ outcome'[t] = "aborted"
  BY <1>1 DEF outcome
<1>3. outcome' = [u \in Txs |-> IF u \in {} THEN "committed"
                               ELSE IF u \in {t} THEN "aborted" ELSE outcome[u]]
  BY <1>2, MoveOutcome DEF outcome
<1>4. ASSUME NEW d \in Docs PROVE value'[d] = value[d]
  <2>1. CASE d \in Written(t)
    <3>1. value'[d] = doc'[d] /\ value[d] = old[t][d]
      BY <1>1, <2>1, MoveValue
    <3>2. QED
      BY <2>1, <3>1
  <2>2. CASE d \notin Written(t)
    BY <2>2, MoveValue
  <2>3. QED
    BY <2>1, <2>2
<1>5. DOMAIN value' = Docs
  BY DEF value
<1>6. QED
  BY <1>1, <1>2, <1>3, <1>4, <1>5 DEF Atomic!Decide, Atomic!Keep

(* A crash commits the transactions in doubt and aborts the ones before. *)
LEMMA CrashDecides ==
    ASSUME DbInv, DbInv', Crash
    PROVE  Atomic!Decide({t \in Txs : InDoubt(t)},
                         {t \in Txs : pc[t] \in NotYetPlaces /\ Written(t) # {}})
<1> DEFINE C == {t \in Txs : InDoubt(t)}
           A == {t \in Txs : pc[t] \in NotYetPlaces /\ Written(t) # {}}
<1>0. AllValuesOk /\ AllValuesOk'
  BY ValueIs, PTL
<1>1. UNCHANGED <<doc, writes, old, applied>>
  BY DEF Crash
<1>2. \A t \in Txs : pc'[t] = IF Active(t) /\ Written(t) # {} THEN "lost" ELSE pc[t]
  BY DEF Crash
<1>3. \A t \in C : /\ outcome[t] = "open" /\ t \in applied /\ Written(t) # {}
                   /\ Active(t)
  BY DEF outcome, InDoubt, DbInv, Recorded, Quiet, Active
<1>4. \A t \in A : outcome[t] = "open" /\ t \notin applied /\ Active(t)
  BY DEF outcome, DbInv, Recorded, Active
<1>5. C \intersect A = {}
  BY DEF InDoubt
<1>6. ASSUME NEW t \in Txs
      PROVE  outcome'[t] = IF t \in C THEN "committed"
                           ELSE IF t \in A THEN "aborted" ELSE outcome[t]
  <2>1. CASE t \in C
    BY <1>1, <1>2, <1>3, <2>1 DEF outcome
  <2>2. CASE t \in A
    BY <1>1, <1>2, <1>4, <1>5, <2>2 DEF outcome
  <2>3. CASE t \notin C \union A
    <3>1. pc'[t] = pc[t] \/ (pc[t] = "marker" /\ pc'[t] = "lost")
      BY <1>2, <2>3 DEF Active, InDoubt, DbInv, TypeOK, Places
    <3>2. pc[t] = "marker" => t \in applied
      BY DEF DbInv, Recorded
    <3>3. QED
      BY <1>1, <2>3, <3>1, <3>2 DEF outcome
  <2>4. QED
    BY <2>1, <2>2, <2>3
<1>7. outcome' = [t \in Txs |-> IF t \in C THEN "committed"
                               ELSE IF t \in A THEN "aborted" ELSE outcome[t]]
  BY <1>6 DEF outcome
<1>8. ASSUME NEW d \in Docs PROVE value'[d] = doc[d]
  <2>1. \A t \in Txs : ~(InDoubt(t))'
    BY <1>2, <1>3 DEF InDoubt
  <2>2. ValueOk(d)'
    BY <1>0 DEF AllValuesOk
  <2>3. QED
    BY <1>1, <2>1, <2>2 DEF ValueOk
<1>9. ASSUME NEW d \in Docs
      PROVE  IF \E t \in C : writes[t][d] # Keep
             THEN \E t \in C : /\ writes[t][d] # Keep
                               /\ \A u \in C \ {t} : writes[u][d] = Keep
                               /\ value'[d] = writes[t][d]
             ELSE value'[d] = value[d]
  <2>1. CASE \E t \in C : writes[t][d] # Keep
    <3>1. PICK t \in C : writes[t][d] # Keep
      BY <2>1
    <3>2. \A u \in C \ {t} : writes[u][d] = Keep
      BY <1>3, <3>1 DEF DbInv, Disjoint
    <3>3. doc[d] = writes[t][d]
      BY <3>1 DEF DbInv, OldKept
    <3>4. QED
      BY <1>8, <3>1, <3>2, <3>3
  <2>2. CASE \A t \in C : writes[t][d] = Keep
    <3>1. value[d] = doc[d]
      BY <1>0, <2>2 DEF AllValuesOk, ValueOk, Written
    <3>2. QED
      BY <1>8, <2>2, <3>1
  <2>3. QED
    BY <2>1, <2>2
<1>10. DOMAIN value' = Docs
  BY DEF value
<1>11. QED
  BY <1>1, <1>3, <1>4, <1>5, <1>7, <1>9, <1>10 DEF Atomic!Decide, Atomic!Keep

(* Nothing that the abstract specification sees changes. *)
LEMMA Unseen ==
    ASSUME UNCHANGED <<doc, writes, old, pc, applied>>
    PROVE  UNCHANGED <<value, writes, outcome>>
  BY DEF value, outcome, InDoubt, Written

(* The values stay when the storage engine and the transactions in doubt do. *)
LEMMA ValueKept ==
    ASSUME DbInv, DbInv', UNCHANGED doc,
           \A u \in Txs : /\ InDoubt(u)' <=> InDoubt(u)
                          /\ InDoubt(u) => writes'[u] = writes[u] /\ old'[u] = old[u]
    PROVE  value' = value
<1>0. AllValuesOk /\ AllValuesOk'
  BY ValueIs, PTL
<1>1. ASSUME NEW d \in Docs PROVE value'[d] = value[d]
  <2>1. ValueOk(d) /\ ValueOk(d)'
    BY <1>0, <1>1 DEF AllValuesOk
  <2>2. CASE \E u \in Txs : InDoubt(u) /\ d \in Written(u)
    <3>1. PICK u \in Txs : InDoubt(u) /\ d \in Written(u)
      BY <2>2
    <3>2. (d \in Written(u))' /\ InDoubt(u)'
      BY <3>1 DEF Written
    <3>3. QED
      BY <2>1, <3>1, <3>2 DEF ValueOk
  <2>3. CASE \A u \in Txs : ~(InDoubt(u) /\ d \in Written(u))
    <3>1. \A u \in Txs : ~(InDoubt(u)' /\ (d \in Written(u))')
      BY <2>3 DEF Written
    <3>2. QED
      BY <2>1, <2>3, <3>1 DEF ValueOk
  <2>4. QED
    BY <2>2, <2>3
<1>2. QED
  BY <1>1 DEF value

(* A committed transaction that returns, or is dropped, is committed still. *)
LEMMA Returns ==
    ASSUME DbInv, DbInv', NEW t \in Txs, pc[t] = "marker", pc'[t] \in Finished,
           \A u \in Txs \ {t} : pc'[u] = pc[u], UNCHANGED <<doc, writes, old, applied>>
    PROVE  UNCHANGED <<value, writes, outcome>>
<1>1. value' = value
  BY ValueKept DEF InDoubt
<1>2. t \in applied
  BY DEF DbInv, Recorded
<1>3. outcome' = outcome
  BY <1>2 DEF outcome
<1>4. QED
  BY <1>1, <1>3

(* insert_op and delete_op are writes of the abstract specification. *)
LEMMA Writes ==
    ASSUME DbInv, DbInv', NEW t \in Txs, NEW d \in Docs, NEW v, Write(t, d, v)
    PROVE  Atomic!Write(t, d, v)
<1>1. UNCHANGED <<pc, doc, applied>> /\ pc[t] = "open"
  BY DEF Write
<1>2. \A u \in Txs : u # t => writes'[u] = writes[u] /\ old'[u] = old[u]
  BY DEF Write, DbInv, TypeOK
<1>3. \A u \in Txs : (InDoubt(u)' <=> InDoubt(u)) /\ (InDoubt(u) => u # t)
  BY <1>1 DEF InDoubt
<1>4. value' = value
  BY <1>1, <1>2, <1>3, ValueKept
<1>5. outcome' = outcome /\ outcome[t] = "open"
  BY <1>1 DEF outcome
<1>6. QED
  BY <1>4, <1>5 DEF Write, Atomic!Write

(* Every step of commit, compensation and cancellation moves one transaction. *)
LEMMA StepMoves ==
    ASSUME Isolated, DbInv, NEW t \in Txs,
           Rollback(t) \/ CommitStep(t) \/ Cancel(t)
    PROVE  Moves(t)
<1> USE DEF Moves, Goto, DbInv, TypeOK
<1>1. ASSUME Rollback(t) \/ StageText(t) \/ StageGraph(t) \/ IndexCommit(t) \/ TextCommit(t)
             \/ GraphCommit(t) \/ Marker(t) \/ compensate_text(t) \/ compensate_hnsw(t)
             \/ Cancel(t)
      PROVE  Moves(t)
  BY <1>1 DEF Rollback, StageText, StageGraph, IndexCommit, TextCommit, GraphCommit, Marker,
              compensate_text, compensate_hnsw, Cancel
<1>2. ASSUME StorageCommit(t) \/ StorageFails(t) PROVE Moves(t)
  BY <1>2 DEF StorageCommit, StorageFails, Durable, Override
<1>3. ASSUME compensate_lsm(t) PROVE Moves(t)
  BY <1>3 DEF compensate_lsm, Override
<1>4. ASSUME AttemptFails(t) PROVE Moves(t)
  BY <1>4 DEF AttemptFails, Isolated
<1>5. QED
  BY <1>1, <1>2, <1>3, <1>4 DEF CommitStep

(* A step of commit, compensation or cancellation decides its transaction, or nothing
   that the abstract specification sees. *)
LEMMA StepDecides ==
    ASSUME Isolated, DbInv, DbInv', NEW t \in Txs,
           Rollback(t) \/ CommitStep(t) \/ Cancel(t)
    PROVE  \/ Atomic!Decide({t}, {}) \/ Atomic!Decide({}, {t})
           \/ UNCHANGED <<value, writes, outcome>>
<1> USE DEF Goto
<1>0. Moves(t) /\ TypeOK /\ pc \in [Txs -> Places]
  BY StepMoves DEF DbInv, TypeOK
<1>a. pc[t] \in NotYetPlaces => t \notin applied /\ \A d \in Written(t) : doc[d] = old[t][d]
  BY DEF DbInv, Recorded, OldKept, Written
<1>b. pc[t] \in InDoubtPlaces => t \in applied /\ \A d \in Written(t) : doc[d] = writes[t][d]
  BY DEF DbInv, Recorded, OldKept, Written, InDoubt
<1>1. ASSUME Rollback(t) PROVE Atomic!Decide({}, {t})
  BY <1>0, <1>1, <1>a, Aborts DEF Rollback
<1>2. ASSUME StageText(t) \/ StageGraph(t), pc'[t] = "err" PROVE Atomic!Decide({}, {t})
  BY <1>0, <1>2, <1>a, Aborts DEF StageText, StageGraph
<1>3. ASSUME StageText(t) \/ StageGraph(t), pc'[t] # "err"
      PROVE  UNCHANGED <<value, writes, outcome>>
  BY <1>0, <1>3, Undecided DEF StageText, StageGraph
<1>4. ASSUME StorageCommit(t) PROVE UNCHANGED <<value, writes, outcome>>
  BY <1>0, <1>4, Undecided DEF StorageCommit
<1>5. ASSUME StorageFails(t)
      PROVE  Atomic!Decide({t}, {}) \/ Atomic!Decide({}, {t})
  <2>0. pc[t] = "storage" /\ pc'[t] = "err"
    BY <1>0, <1>5 DEF StorageFails
  <2>1. CASE UNCHANGED <<storage, applied, undone>>
    BY <1>0, <1>a, <2>0, <2>1, Aborts
  <2>2. CASE Durable(t)
    <3>1. t \in applied' /\ \A d \in Written(t) : doc'[d] = writes[t][d]
      BY <2>2 DEF Durable, Override, Written
    <3>2. QED
      BY <1>0, <2>0, <3>1, Commits
  <2>3. QED
    BY <1>5, <2>1, <2>2 DEF StorageFails
<1>6. ASSUME IndexCommit(t) \/ TextCommit(t) \/ compensate_text(t) \/ compensate_hnsw(t)
      PROVE  UNCHANGED <<value, writes, outcome>>
  BY <1>0, <1>6, Undecided DEF IndexCommit, TextCommit, compensate_text, compensate_hnsw
<1>7. ASSUME GraphCommit(t)
      PROVE  Atomic!Decide({t}, {}) \/ UNCHANGED <<value, writes, outcome>>
  <2>0. pc[t] = "graph" /\ pc'[t] \in {"marker", "comp text"} /\ UNCHANGED <<doc, applied>>
    BY <1>0, <1>7 DEF GraphCommit
  <2>1. CASE pc'[t] = "marker"
    BY <1>0, <1>b, <2>0, <2>1, Commits
  <2>2. CASE pc'[t] = "comp text"
    BY <1>0, <2>0, <2>2, Undecided
  <2>3. QED
    BY <2>0, <2>1, <2>2
<1>8. ASSUME Marker(t) PROVE UNCHANGED <<value, writes, outcome>>
  <2>1. pc[t] = "marker" /\ pc'[t] = "ok" /\ UNCHANGED <<doc, writes, old, applied>>
    BY <1>0, <1>8 DEF Marker
  <2>2. QED
    BY <1>0, <2>1, Returns DEF Moves
<1>9. ASSUME compensate_lsm(t) PROVE Atomic!Decide({}, {t})
  <2>1. pc[t] = "comp lsm" /\ pc'[t] = "err" /\ t \notin applied'
    BY <1>0, <1>9 DEF compensate_lsm
  <2>2. \A d \in Written(t) : doc'[d] = old[t][d]
    BY <1>9 DEF compensate_lsm, Override, Written
  <2>3. QED
    BY <1>0, <2>1, <2>2, Aborts
<1>10. ASSUME AttemptFails(t)
       PROVE  Atomic!Decide({t}, {}) \/ UNCHANGED <<value, writes, outcome>>
  <2>0. /\ pc[t] = "comp lsm" /\ pc'[t] \in {"comp lsm", "err"}
        /\ UNCHANGED <<doc, applied>>
    BY <1>0, <1>10 DEF AttemptFails, Isolated
  <2>1. CASE pc'[t] = "err"
    BY <1>0, <1>b, <2>0, <2>1, Commits
  <2>2. CASE pc'[t] = "comp lsm"
    BY <1>0, <2>0, <2>2, Undecided
  <2>3. QED
    BY <2>0, <2>1, <2>2
<1>11. ASSUME Cancel(t)
       PROVE  \/ Atomic!Decide({t}, {}) \/ Atomic!Decide({}, {t})
              \/ UNCHANGED <<value, writes, outcome>>
  <2>0. pc'[t] = "lost" /\ UNCHANGED <<doc, writes, old, applied>> /\ Active(t)
    BY <1>0, <1>11 DEF Cancel
  <2>1. CASE pc[t] \in NotYetPlaces
    BY <1>0, <1>a, <2>0, <2>1, Aborts
  <2>2. CASE pc[t] \in InDoubtPlaces
    BY <1>0, <1>b, <2>0, <2>2, Commits
  <2>3. CASE pc[t] = "marker"
    BY <1>0, <2>0, <2>3, Returns DEF Moves
  <2>4. QED
    BY <1>0, <2>0, <2>1, <2>2, <2>3 DEF Active, Places
<1>12. QED
  BY <1>1, <1>2, <1>3, <1>4, <1>5, <1>6, <1>7, <1>8, <1>9, <1>10, <1>11 DEF CommitStep

(* A crash, the opening and the repair after it are steps of AtomicCommit, or none. *)
LEMMA RecoveryDecides ==
    ASSUME DbInv, DbInv',
           Crash \/ Open \/ Repair \/ RepairFails \/ (\E t \in Txs : Settle(t))
    PROVE  \/ \E C, A \in SUBSET Txs : Atomic!Decide(C, A)
           \/ UNCHANGED <<value, writes, outcome>>
<1>1. CASE Crash
  <2> DEFINE C == {t \in Txs : InDoubt(t)}
             A == {t \in Txs : pc[t] \in NotYetPlaces /\ Written(t) # {}}
  <2>1. C \in SUBSET Txs /\ A \in SUBSET Txs
    OBVIOUS
  <2>2. Atomic!Decide(C, A)
    BY <1>1, CrashDecides
  <2>3. QED
    BY <2>1, <2>2, Zenon
<1>2. CASE Open \/ Repair \/ RepairFails \/ (\E t \in Txs : Settle(t))
  <2>1. UNCHANGED <<doc, writes, old, pc, applied>>
    BY <1>2 DEF Open, Repair, RepairFails, Settle
  <2>2. QED
    BY <2>1, Unseen
<1>3. QED
  BY <1>1, <1>2

(* "Commits the transaction atomically" (db_transaction_commit.rs): transactions that
   have no document in common implement AtomicCommit in the storage engine, whatever
   index fails, whenever the future is dropped and wherever the process crashes. *)
THEOREM AtomicRefinement ==
    ASSUME Isolated PROVE Spec => AtomicSpec
<1>1. Init => Atomic!Init
  <2> SUFFICES ASSUME Init PROVE Atomic!Init
    OBVIOUS
  <2>1. value = [d \in Docs |-> None]
    BY DEF Init, value, InDoubt
  <2>2. outcome = [t \in Txs |-> "open"]
    BY DEF Init, outcome
  <2>3. QED
    BY <2>1, <2>2 DEF Init, Atomic!Init, Atomic!None, Atomic!Keep
<1>2. DbInv /\ DbInv' /\ [Next]_vars => [Atomic!Next]_(Atomic!vars)
  <2> SUFFICES ASSUME DbInv, DbInv', [Next]_vars
      PROVE  Atomic!Next \/ UNCHANGED <<value, writes, outcome>>
    BY DEF Atomic!vars
  <2>1. ASSUME NEW t \in Txs, NEW d \in Docs, NEW v \in {t, None}, Write(t, d, v)
        PROVE  Atomic!Next
    BY <2>1, Writes DEF Atomic!Next, Atomic!None
  <2>2. ASSUME NEW t \in Txs, Rollback(t) \/ CommitStep(t) \/ Cancel(t)
        PROVE  Atomic!Next \/ UNCHANGED <<value, writes, outcome>>
    <3>1. {t} \in SUBSET Txs /\ {} \in SUBSET Txs
      OBVIOUS
    <3>2. \/ Atomic!Decide({t}, {}) \/ Atomic!Decide({}, {t})
          \/ UNCHANGED <<value, writes, outcome>>
      BY <2>2, StepDecides
    <3>3. QED
      BY <3>1, <3>2, Zenon DEF Atomic!Next
  <2>3. ASSUME Crash \/ Open \/ Repair \/ RepairFails \/ (\E t \in Txs : Settle(t))
        PROVE  Atomic!Next \/ UNCHANGED <<value, writes, outcome>>
    BY <2>3, RecoveryDecides DEF Atomic!Next
  <2>4. CASE UNCHANGED vars
    <3>1. UNCHANGED <<doc, writes, old, pc, applied>>
      BY <2>4 DEF vars
    <3>2. QED
      BY <3>1, Unseen
  <2>5. QED
    BY <2>1, <2>2, <2>3, <2>4 DEF Next, TxStep, insert_op, delete_op
<1>3. QED
  BY <1>1, <1>2, DbInvariant, PTL DEF Spec, AtomicSpec, Atomic!Spec

-----------------------------------------------------------------------------
(* Transaction t moves while the database is up, and only its documents change. *)
Confined(t) ==
    /\ Moves(t) /\ phase = "up" /\ phase' = "up" /\ Active(t)
    /\ \A u \in Txs \ {t} : erased'[u] = erased[u]
    /\ \A d \in Docs \ Written(t) :
         /\ text'[d] = text[d] /\ index'[d] = index[d]
         /\ (d \in graph' <=> d \in graph) /\ (d \in entity' <=> d \in entity)
         /\ (d \in deleted' <=> d \in deleted)
         /\ (d \in stale' <=> d \in stale) /\ (d \in undone' <=> d \in undone)

(* It is enough to look at the transaction that moves, and at its documents. *)
LEMMA ConfinedKeeps ==
    ASSUME DbInv, AgreeInv, NEW t \in Txs, Confined(t), TxStored(t)', TxIndexed(t)',
           \A d \in Written(t) : DocStored(d)' /\ DocIndexed(d)'
    PROVE  AgreeInv'
<1>0. /\ UNCHANGED <<writes, old>> /\ Active(t)
      /\ \A u \in Txs \ {t} : pc'[u] = pc[u] /\ erased'[u] = erased[u]
      /\ \A d \in Docs \ Written(t) : doc'[d] = doc[d]
  BY DEF Confined, Moves
<1>1. \A u \in Txs : /\ Written(u)' = Written(u) /\ Removed(u)' = Removed(u)
                     /\ Inserted(u)' = Inserted(u)
                     /\ Removed(u) \subseteq Written(u) /\ Inserted(u) \subseteq Written(u)
                     /\ Written(u) \subseteq Docs
  BY <1>0, DbAssumption DEF Written, Removed, Inserted
<1>2. \A u \in Txs \ {t} : Active(u) => Written(u) \intersect Written(t) = {}
  BY <1>0 DEF DbInv, Disjoint, Written
<1>3. \A d \in Docs \ Written(t) :
         /\ text'[d] = text[d] /\ index'[d] = index[d]
         /\ (d \in graph' <=> d \in graph) /\ (d \in entity' <=> d \in entity)
         /\ (d \in deleted' <=> d \in deleted)
         /\ (d \in stale' <=> d \in stale) /\ (d \in undone' <=> d \in undone)
  BY DEF Confined
<1>4. /\ \A u \in Txs : TxStored(u) /\ TxIndexed(u)
      /\ \A d \in Docs : DocStored(d) /\ DocIndexed(d)
  BY DEF AgreeInv, Confined
<1>5. ASSUME NEW u \in Txs, u # t PROVE TxStored(u)'
  <2>1. pc[u] \in Doing \union Undoing \union {"storage"} => Active(u)
    BY DEF Doing, Undoing, Active
  <2>2. TxStored(u)
    BY <1>4
  <2>3. CASE pc[u] \in Doing
    <3>1. erased[u] \subseteq Docs \ Written(t) /\ Written(u) \subseteq Docs \ Written(t)
      BY <1>1, <1>2, <1>5, <2>1, <2>2, <2>3 DEF TxStored
    <3>2. QED
      BY <1>0, <1>1, <1>3, <1>5, <2>2, <2>3, <3>1 DEF TxStored, Doing, Undoing
  <2>4. CASE pc[u] \in Undoing
    BY <1>0, <1>1, <1>2, <1>3, <1>5, <2>1, <2>2, <2>4 DEF TxStored, Doing, Undoing
  <2>5. CASE pc[u] \notin Doing \union Undoing
    BY <1>0, <1>1, <1>5, <2>2, <2>5 DEF TxStored
  <2>6. QED
    BY <2>3, <2>4, <2>5
<1>6. ASSUME NEW u \in Txs, u # t PROVE TxIndexed(u)'
  <2>1. pc[u] \in Doing \union Undoing => Active(u)
    BY DEF Doing, Undoing, Active
  <2>2. TxIndexed(u)
    BY <1>4
  <2>3. CASE pc[u] \in Doing \union Undoing
    BY <1>0, <1>1, <1>2, <1>3, <1>6, <2>1, <2>2, <2>3 DEF TxIndexed
  <2>4. CASE pc[u] \notin Doing \union Undoing
    BY <1>0, <1>6, <2>4 DEF TxIndexed, Doing, Undoing
  <2>5. QED
    BY <2>3, <2>4
<1>7. ASSUME NEW d \in Docs, d \notin Written(t) PROVE DocStored(d)' /\ DocIndexed(d)'
  <2>1. DocStored(d) /\ DocIndexed(d) /\ d \notin Written(t)'
    BY <1>1, <1>4, <1>7
  <2>2. DocStored(d)'
    BY <1>0, <1>3, <1>7, <2>1 DEF DocStored
  <2>3. /\ \A u \in Txs : d \in Written(u) => pc'[u] = pc[u]
        /\ \A u \in Txs : d \in Written(u)' <=> d \in Written(u)
    BY <1>0, <1>1, <1>7
  <2>4. DocIndexed(d)'
    BY <1>0, <1>3, <1>7, <2>1, <2>3 DEF DocIndexed, InDoubt
  <2>5. QED
    BY <2>2, <2>4
<1>8. /\ (\A u \in Txs : TxStored(u) /\ TxIndexed(u))'
      /\ (\A d \in Docs : DocStored(d) /\ DocIndexed(d))'
  BY <1>5, <1>6, <1>7
<1>9. QED
  BY <1>8 DEF AgreeInv

(* What is known of a document d of a transaction t at work. *)
Own(t, d) ==
    /\ d \in Docs /\ DocStored(d) /\ writes[t][d] \in {t, None}
    /\ pc[t] \notin InDoubtPlaces => d \in stale \/ index[d] = doc[d]
    /\ pc[t] \notin InDoubtPlaces \union {"storage"} =>
         d \in stale \union undone \union deleted \/ (d \in graph <=> doc[d] # None)
    /\ pc[t] \in NotYetPlaces => old[t][d] = doc[d]
    /\ pc[t] \in InDoubtPlaces => doc[d] = writes[t][d]

(* Nobody else works on the documents of a transaction at work. *)
LEMMA OwnDocument ==
    ASSUME DbInv, AgreeInv, phase = "up", NEW t \in Txs, Active(t), NEW d \in Written(t)
    PROVE  Own(t, d)
<1>1. d \in Docs /\ writes[t][d] # Keep
  BY DEF Written
<1>2. \A u \in Txs : Active(u) /\ d \in Written(u) => u = t
  BY <1>1 DEF DbInv, Disjoint, Written
<1>3. \A u \in Txs : InDoubt(u) \/ pc[u] = "storage" => Active(u)
  BY DEF InDoubt, Active
<1>4. DocStored(d) /\ DocIndexed(d)
  BY <1>1 DEF AgreeInv
<1>5. /\ pc[t] \notin InDoubtPlaces => d \in stale \/ index[d] = doc[d]
      /\ pc[t] \notin InDoubtPlaces \union {"storage"} =>
                d \in stale \union undone \union deleted \/ (d \in graph <=> doc[d] # None)
  BY <1>2, <1>3, <1>4 DEF DocIndexed, InDoubt
<1>6. /\ pc[t] \in NotYetPlaces => old[t][d] = doc[d]
      /\ pc[t] \in InDoubtPlaces => doc[d] = writes[t][d]
  BY <1>1 DEF DbInv, OldKept, InDoubt
<1>7. writes[t][d] \in {t, None}
  BY <1>1 DEF DbInv, Disjoint
<1>8. QED
  BY <1>1, <1>4, <1>5, <1>6, <1>7 DEF Own

(* A transaction that moves and leaves its own documents in order keeps AgreeInv. *)
LEMMA MoveAgrees ==
    ASSUME DbInv, AgreeInv, NEW t \in Txs, Confined(t), TxStored(t)', TxIndexed(t)',
           \A d \in Written(t) :
             /\ DocStored(d)'
             /\ pc'[t] \notin InDoubtPlaces => d \in stale' \/ index'[d] = doc'[d]
             /\ pc'[t] \notin InDoubtPlaces \union {"storage"} =>
                  \/ d \in stale' \union undone' \union deleted'
                  \/ (d \in graph' <=> doc'[d] # None)
    PROVE  AgreeInv'
<1>1. \A d \in Written(t) : d \in Written(t)'
  BY DEF Confined, Moves, Written
<1>2. \A d \in Written(t) : DocIndexed(d)'
  BY <1>1 DEF DocIndexed, InDoubt
<1>3. QED
  BY <1>2, ConfinedKeeps

(* Every step keeps what the indexes have in common with the storage engine. *)
LEMMA AgreeStep ==
    ASSUME Isolated, DbInv, AgreeInv, [Next]_vars
    PROVE  AgreeInv'
<1> USE DEF Goto
<1>t. TypeOK /\ \A t \in Txs : t # None
  BY DbAssumption DEF DbInv
<1>s. \A t \in Txs : TxStored(t)
  BY DEF AgreeInv
<1>i. phase = "up" => \A t \in Txs : TxIndexed(t)
  BY DEF AgreeInv
<1>m. \A t \in Txs : Rollback(t) \/ CommitStep(t) \/ Cancel(t) => Moves(t)
  BY StepMoves
<1>w. \A t \in Txs : Moves(t) => /\ Written(t)' = Written(t) /\ Removed(t)' = Removed(t)
                                 /\ Inserted(t)' = Inserted(t)
  BY DEF Moves, Written, Removed, Inserted
<1>v. \A t \in Txs : /\ Removed(t) \subseteq Written(t) /\ Inserted(t) \subseteq Written(t)
                     /\ Written(t) \subseteq Docs
  BY DbAssumption DEF Written, Removed, Inserted
<1>0. CASE UNCHANGED vars
  <2>1. \A t \in Txs : /\ Written(t)' = Written(t) /\ Removed(t)' = Removed(t)
                       /\ Inserted(t)' = Inserted(t) /\ (InDoubt(t)' <=> InDoubt(t))
    BY <1>0 DEF vars, Written, Removed, Inserted, InDoubt
  <2>2. \A t \in Txs : (TxStored(t) => TxStored(t)') /\ (TxIndexed(t) => TxIndexed(t)')
    BY <1>0, <2>1 DEF vars, TxStored, TxIndexed
  <2>3. \A d \in Docs : DocStored(d) => DocStored(d)'
    BY <1>0 DEF vars, DocStored
  <2>4. \A d \in Docs : DocIndexed(d) => DocIndexed(d)'
    BY <1>0, <2>1 DEF vars, DocIndexed
  <2>5. QED
    BY <1>0, <2>2, <2>3, <2>4 DEF vars, AgreeInv
<1>1. ASSUME NEW t \in Txs, NEW d \in Docs, NEW v \in {t, None}, Write(t, d, v)
      PROVE  AgreeInv'
  <2>1. /\ pc[t] = "open" /\ phase = "up"
        /\ UNCHANGED <<phase, storage, memory, pc, erased, stale, undone>>
    BY <1>1 DEF Write
  <2>2. \A u \in Txs \ {t} : writes'[u] = writes[u] /\ old'[u] = old[u]
    BY <1>1, <1>t DEF Write, TypeOK
  <2>3. \A u \in Txs \ {t} : /\ Written(u)' = Written(u) /\ Removed(u)' = Removed(u)
                             /\ Inserted(u)' = Inserted(u)
    BY <2>2 DEF Written, Removed, Inserted
  <2>4. ASSUME NEW u \in Txs PROVE TxStored(u)' /\ TxIndexed(u)'
    <3>1. CASE u = t
      BY <2>1, <3>1 DEF TxStored, TxIndexed, Doing, Undoing
    <3>2. CASE u # t
      <4>1. /\ writes'[u] = writes[u] /\ old'[u] = old[u] /\ Written(u)' = Written(u)
            /\ Removed(u)' = Removed(u) /\ Inserted(u)' = Inserted(u)
        BY <2>2, <2>3, <3>2
      <4>2. TxStored(u) /\ TxIndexed(u)
        BY <1>s, <1>i, <2>1
      <4>3. QED
        BY <2>1, <4>1, <4>2 DEF TxStored, TxIndexed
    <3>3. QED
      BY <3>1, <3>2
  <2>5. \A u \in Txs : InDoubt(u) \/ pc[u] = "storage" => Written(u)' = Written(u)
    BY <2>1, <2>3 DEF InDoubt
  <2>6. \A e \in Docs : DocStored(e)' /\ DocIndexed(e)'
    BY <2>1, <2>5 DEF AgreeInv, DocStored, DocIndexed, InDoubt
  <2>7. QED
    BY <2>4, <2>6 DEF AgreeInv
<1>2. ASSUME NEW t \in Txs, Rollback(t) \/ StageText(t) PROVE AgreeInv'
  <2>1. /\ pc[t] = "open" /\ pc'[t] \in {"err", "stage graph"} /\ phase = "up" /\ Moves(t)
        /\ UNCHANGED <<phase, storage, memory, erased, stale, undone>>
    BY <1>2, <1>m, <1>t DEF Rollback, StageText, TypeOK, CommitStep
  <2>2. Confined(t) /\ Active(t)
    BY <2>1 DEF Confined, Active
  <2>o. \A d \in Written(t) : Own(t, d)
    BY <2>1, <2>2, OwnDocument
  <2>3. TxStored(t)' /\ TxIndexed(t)'
    BY <2>1 DEF TxStored, TxIndexed, Doing, Undoing
  <2>4. ASSUME NEW d \in Written(t)
        PROVE  /\ DocStored(d)'
               /\ d \in stale' \/ index'[d] = doc'[d]
               /\ \/ d \in stale' \union undone' \union deleted'
                  \/ (d \in graph' <=> doc'[d] # None)
    <3>1. /\ DocStored(d)
          /\ d \in stale \/ index[d] = doc[d]
          /\ d \in stale \union undone \union deleted \/ (d \in graph <=> doc[d] # None)
      BY <2>1, <2>o DEF Own
    <3>2. QED
      BY <2>1, <3>1 DEF DocStored
  <2>5. QED
    BY <2>2, <2>3, <2>4, MoveAgrees
<1>3. ASSUME NEW t \in Txs, StageGraph(t) PROVE AgreeInv'
  <2>1. /\ pc[t] = "stage graph" /\ pc'[t] \in {"err", "storage"} /\ phase = "up" /\ Moves(t)
        /\ UNCHANGED <<phase, storage, index, undone>>
    BY <1>3, <1>m, <1>t DEF StageGraph, TypeOK, CommitStep
  <2>2. /\ pc'[t] = "storage" => erased'[t] \subseteq Removed(t) /\ UNCHANGED stale
        /\ pc'[t] = "err" => stale' = stale \union Written(t)
        /\ \A u \in Txs \ {t} : erased'[u] = erased[u]
    <3>1. erased \in [Txs -> SUBSET Docs]
      BY <1>t DEF TypeOK
    <3>2. \/ erased' = [erased EXCEPT ![t] = Removed(t) \intersect graph] /\ pc'[t] = "storage"
             /\ UNCHANGED stale
          \/ UNCHANGED erased /\ pc'[t] = "err" /\ stale' = stale \union Written(t)
      BY <1>3, <1>t DEF StageGraph, TypeOK
    <3>3. QED
      BY <3>1, <3>2
  <2>3. \A d \in Docs \ Written(t) : d \in graph' <=> d \in graph
    BY <1>3, <1>v DEF StageGraph
  <2>4. Confined(t) /\ Active(t)
    BY <2>1, <2>2, <2>3 DEF Confined, Active
  <2>5. TxStored(t)' /\ TxIndexed(t)'
    BY <1>w, <2>1, <2>2 DEF TxStored, TxIndexed, Doing, Undoing
  <2>6. ASSUME NEW d \in Written(t)
        PROVE  /\ DocStored(d)'
               /\ d \in stale' \/ index'[d] = doc'[d]
               /\ pc'[t] = "err" => d \in stale'
    <3>1. Own(t, d)
      BY <2>1, <2>4, OwnDocument
    <3>2. QED
      BY <2>1, <2>2, <3>1 DEF DocStored, Own
  <2>7. QED
    BY <2>1, <2>4, <2>5, <2>6, MoveAgrees
<1>4. ASSUME NEW t \in Txs, StorageCommit(t) \/ StorageFails(t) PROVE AgreeInv'
  <2>1. /\ pc[t] = "storage" /\ phase = "up" /\ Moves(t) /\ pc'[t] \in {"index", "err"}
        /\ UNCHANGED <<phase, memory, erased>>
        /\ erased[t] \subseteq Removed(t)
    BY <1>4, <1>m, <1>s, <1>t DEF StorageCommit, StorageFails, TypeOK, CommitStep, TxStored
  <2>2. CASE pc'[t] = "err" /\ UNCHANGED <<storage, undone>> /\ stale' = stale \union Written(t)
    <3>1. Confined(t) /\ Active(t)
      BY <2>1, <2>2 DEF Confined, Active
    <3>2. TxStored(t)' /\ TxIndexed(t)'
      BY <2>2 DEF TxStored, TxIndexed, Doing, Undoing
    <3>3. \A d \in Written(t) : DocStored(d)' /\ d \in stale'
      BY <2>2, <1>v DEF AgreeInv, DocStored
    <3>4. QED
      BY <2>2, <3>1, <3>2, <3>3, MoveAgrees
  <2>3. CASE /\ Durable(t)
             /\ \/ pc'[t] = "index" /\ stale' = stale
                \/ pc'[t] = "err" /\ stale' = stale \union Written(t)
    <3>1. \A d \in Docs : /\ doc'[d] = IF d \in Written(t) THEN writes[t][d] ELSE doc[d]
                          /\ text'[d] = IF d \in Written(t) THEN writes[t][d] ELSE text[d]
      BY <2>3 DEF Durable, Override
    <3>2. /\ entity' = (entity \ erased[t]) \union Inserted(t)
          /\ deleted' = deleted \union erased[t]
          /\ undone' = undone \union (Removed(t) \ erased[t])
      BY <2>3 DEF Durable
    <3>3. Confined(t) /\ Active(t)
      BY <1>v, <2>1, <2>3, <3>1, <3>2 DEF Confined, Active
    <3>4. \A d \in Written(t) : /\ writes[t][d] \in {t, None} /\ d \in Docs
                                /\ (d \in Inserted(t) <=> writes[t][d] = t)
                                /\ (d \in Removed(t) <=> writes[t][d] = None)
                                /\ (d \in stale \/ index[d] = old[t][d])
      <4>1. \A d \in Written(t) : Own(t, d)
        BY <2>1, <3>3, OwnDocument
      <4>2. QED
        BY <2>1, <4>1 DEF Own, Inserted, Removed
    <3>5. TxStored(t)'
      <4>1. \A d \in Written(t) : text'[d] = doc'[d]
        BY <3>1, <3>4
      <4>2. erased'[t] = erased[t] /\ Written(t)' = Written(t) /\ Removed(t)' = Removed(t)
            /\ Inserted(t)' = Inserted(t)
        BY <1>w, <2>1
      <4>3. QED
        BY <2>1, <3>2, <4>1, <4>2 DEF TxStored, Undoing
    <3>6. TxIndexed(t)'
      BY <1>w, <2>1, <2>3, <3>4 DEF TxIndexed, Moves
    <3>7. \A d \in Written(t) : DocStored(d)'
      BY <1>t, <3>1, <3>2, <3>4 DEF DocStored
    <3>8. pc'[t] = "err" => \A d \in Written(t) : d \in stale'
      BY <2>3
    <3>9. QED
      BY <2>1, <3>3, <3>5, <3>6, <3>7, <3>8, MoveAgrees
  <2>4. QED
    BY <1>4, <1>t, <2>2, <2>3 DEF StorageCommit, StorageFails, TypeOK
<1>5. ASSUME NEW t \in Txs, IndexCommit(t) PROVE AgreeInv'
  <2>1. /\ pc[t] = "index" /\ phase = "up" /\ Moves(t) /\ pc'[t] \in {"text", "comp lsm"}
        /\ UNCHANGED <<phase, storage, graph, erased, stale>>
    BY <1>5, <1>m, <1>t DEF IndexCommit, TypeOK, CommitStep
  <2>2. \/ /\ pc'[t] = "text" /\ UNCHANGED undone
           /\ \A d \in Docs : index'[d] = IF d \in Written(t) THEN writes[t][d] ELSE index[d]
        \/ pc'[t] = "comp lsm" /\ undone' = undone \union Written(t) /\ UNCHANGED index
    BY <1>5, <1>t DEF IndexCommit, TypeOK, Override
  <2>3. Confined(t) /\ Active(t)
    BY <2>1, <2>2 DEF Confined, Active
  <2>4. \A d \in Written(t) : Own(t, d)
    BY <2>1, <2>3, OwnDocument
  <2>5. TxStored(t) /\ TxIndexed(t) /\ Written(t)' = Written(t) /\ Removed(t)' = Removed(t)
        /\ Inserted(t)' = Inserted(t)
    BY <1>s, <1>i, <1>w, <2>1
  <2>6. TxStored(t)'
    BY <2>1, <2>2, <2>5 DEF TxStored, Doing, Undoing
  <2>7. TxIndexed(t)'
    BY <2>1, <2>2, <2>4, <2>5 DEF TxIndexed, Own, Moves
  <2>8. \A d \in Written(t) : DocStored(d)'
    BY <2>1, <2>2, <2>4 DEF DocStored, Own
  <2>9. QED
    BY <2>1, <2>3, <2>6, <2>7, <2>8, MoveAgrees
<1>6. ASSUME NEW t \in Txs, TextCommit(t) PROVE AgreeInv'
  <2>1. /\ pc[t] = "text" /\ phase = "up" /\ Moves(t)
        /\ UNCHANGED <<phase, storage, memory, erased, stale>>
        /\ \/ pc'[t] = "graph" /\ UNCHANGED undone
           \/ pc'[t] = "comp hnsw" /\ undone' = undone \union Written(t)
    BY <1>6, <1>m, <1>t DEF TextCommit, TypeOK, CommitStep
  <2>2. Confined(t) /\ Active(t)
    BY <2>1 DEF Confined, Active
  <2>3. \A d \in Written(t) : Own(t, d)
    BY <2>1, <2>2, OwnDocument
  <2>4. TxStored(t) /\ TxIndexed(t) /\ Written(t)' = Written(t) /\ Removed(t)' = Removed(t)
        /\ Inserted(t)' = Inserted(t)
    BY <1>s, <1>i, <1>w, <2>1
  <2>5. TxStored(t)' /\ TxIndexed(t)'
    BY <2>1, <2>4 DEF TxStored, TxIndexed, Doing, Undoing
  <2>6. \A d \in Written(t) : DocStored(d)'
    BY <2>1, <2>3 DEF DocStored, Own
  <2>7. QED
    BY <2>1, <2>2, <2>5, <2>6, MoveAgrees
<1>7. ASSUME NEW t \in Txs, GraphCommit(t) PROVE AgreeInv'
  <2>1. /\ pc[t] = "graph" /\ phase = "up" /\ Moves(t) /\ TxStored(t) /\ TxIndexed(t)
        /\ UNCHANGED <<phase, storage, index, erased>>
        /\ \/ /\ pc'[t] = "marker" /\ graph' = graph \union Inserted(t)
              /\ stale' = stale \ Written(t)
              /\ undone' = undone \ (Inserted(t) \union erased[t])
           \/ /\ pc'[t] = "comp text" /\ undone' = undone \union Written(t)
              /\ UNCHANGED <<graph, stale>>
    BY <1>7, <1>m, <1>s, <1>i, <1>t DEF GraphCommit, TypeOK, CommitStep
  <2>2. /\ erased[t] \subseteq Removed(t) /\ erased[t] \subseteq deleted
        /\ Removed(t) \ erased[t] \subseteq undone /\ Inserted(t) \subseteq entity
        /\ \A d \in Written(t) : text[d] = doc[d] /\ index[d] = doc[d]
    BY <2>1 DEF TxStored, TxIndexed, Doing
  <2>3. Confined(t) /\ Active(t)
    BY <1>v, <2>1, <2>2 DEF Confined, Active
  <2>4. \A d \in Written(t) : Own(t, d)
    BY <2>1, <2>3, OwnDocument
  <2>5. TxStored(t)' /\ TxIndexed(t)'
    BY <1>w, <2>1 DEF TxStored, TxIndexed, Doing, Undoing
  <2>6. CASE pc'[t] = "comp text"
    BY <2>1, <2>3, <2>5, <2>6, MoveAgrees DEF DocStored
  <2>7. CASE pc'[t] = "marker"
    <3>1. ASSUME NEW d \in Written(t)
          PROVE  /\ DocStored(d)' /\ index'[d] = doc'[d]
                 /\ \/ d \in undone' \union deleted'
                    \/ (d \in graph' <=> doc'[d] # None)
      <4>1. CASE d \in Inserted(t)
        <5>1. doc[d] = t
          BY <2>1, <2>4, <4>1 DEF Own, Inserted
        <5>2. QED
          BY <1>t, <2>1, <2>2, <2>7, <4>1, <5>1 DEF DocStored
      <4>2. CASE d \in Removed(t)
        <5>1. d \notin Inserted(t)
          BY <1>t, <4>2 DEF Inserted, Removed
        <5>2. d \in undone' \union deleted'
          BY <2>1, <2>2, <2>7, <4>2, <5>1
        <5>3. QED
          BY <2>1, <2>2, <4>2, <5>2 DEF DocStored
      <4>3. QED
        BY <2>4, <4>1, <4>2 DEF Own, Inserted, Removed
    <3>2. QED
      BY <2>3, <2>5, <2>7, <3>1, MoveAgrees
  <2>8. QED
    BY <2>1, <2>6, <2>7
<1>8. ASSUME NEW t \in Txs, Marker(t) PROVE AgreeInv'
  <2>1. /\ pc[t] = "marker" /\ pc'[t] = "ok" /\ phase = "up" /\ Moves(t)
        /\ UNCHANGED <<phase, doc, text, entity, deleted, memory, erased, stale, undone>>
    BY <1>8, <1>m, <1>t DEF Marker, TypeOK, CommitStep
  <2>2. Confined(t) /\ Active(t)
    BY <2>1 DEF Confined, Active
  <2>3. TxStored(t)' /\ TxIndexed(t)'
    BY <2>1 DEF TxStored, TxIndexed, Doing, Undoing
  <2>4. \A d \in Written(t) : Own(t, d)
    BY <2>1, <2>2, OwnDocument
  <2>5. \A d \in Written(t) : /\ DocStored(d)'
                              /\ d \in stale' \/ index'[d] = doc'[d]
                              /\ \/ d \in stale' \union undone' \union deleted'
                                 \/ (d \in graph' <=> doc'[d] # None)
    BY <2>1, <2>4 DEF DocStored, Own
  <2>6. QED
    BY <2>2, <2>3, <2>5, MoveAgrees
<1>9. ASSUME NEW t \in Txs, compensate_text(t) \/ compensate_hnsw(t) PROVE AgreeInv'
  <2>1. /\ pc[t] \in {"comp text", "comp hnsw"} /\ phase = "up" /\ Moves(t) /\ TxStored(t)
        /\ pc'[t] \in {"comp hnsw", "comp lsm"}
        /\ UNCHANGED <<phase, doc, entity, deleted, graph, erased, old, undone>>
    BY <1>9, <1>m, <1>s, <1>t DEF compensate_text, compensate_hnsw, TypeOK, CommitStep
  <2>2. /\ \A d \in Docs \ Written(t) : /\ text'[d] = text[d] /\ index'[d] = index[d]
                                        /\ d \in stale' <=> d \in stale
        /\ pc'[t] = "comp lsm" => \A d \in Written(t) \ stale' : index'[d] = old[t][d]
    BY <1>9, <1>t, <1>v DEF compensate_text, compensate_hnsw, Override, TypeOK
  <2>3. Confined(t) /\ Active(t)
    BY <2>1, <2>2 DEF Confined, Active
  <2>4. Written(t) \subseteq undone'
    BY <2>1 DEF TxStored, Undoing
  <2>5. TxStored(t)' /\ TxIndexed(t)'
    BY <1>w, <2>1, <2>2, <2>4 DEF TxStored, TxIndexed, Doing, Undoing
  <2>6. QED
    BY <2>1, <2>3, <2>4, <2>5, MoveAgrees DEF DocStored
<1>10. ASSUME NEW t \in Txs, compensate_lsm(t) PROVE AgreeInv'
  <2>1. /\ pc[t] = "comp lsm" /\ pc'[t] = "err" /\ phase = "up" /\ Moves(t) /\ TxStored(t)
        /\ TxIndexed(t)
        /\ UNCHANGED <<phase, text, entity, deleted, memory, erased, stale, undone>>
    BY <1>10, <1>m, <1>s, <1>i, <1>t DEF compensate_lsm, TypeOK, CommitStep
  <2>2. \A d \in Written(t) : doc'[d] = old[t][d]
    BY <1>10, <1>v DEF compensate_lsm, Override
  <2>3. Confined(t)
    BY <2>1 DEF Confined, Active
  <2>4. Written(t) \subseteq undone'
    BY <2>1 DEF TxStored, Undoing
  <2>5. \A d \in Written(t) : d \in stale' \/ index'[d] = doc'[d]
    BY <2>1, <2>2 DEF TxIndexed
  <2>6. TxStored(t)' /\ TxIndexed(t)'
    BY <2>1 DEF TxStored, TxIndexed, Doing, Undoing
  <2>7. QED
    BY <2>3, <2>4, <2>5, <2>6, MoveAgrees DEF DocStored
<1>11. ASSUME NEW t \in Txs, AttemptFails(t) PROVE AgreeInv'
  <2>1. /\ pc[t] = "comp lsm" /\ phase = "up" /\ Moves(t) /\ TxStored(t) /\ TxIndexed(t)
        /\ UNCHANGED <<phase, doc, text, entity, deleted, memory, erased, undone>>
        /\ \/ pc'[t] = "comp lsm" /\ UNCHANGED stale
           \/ pc'[t] = "err" /\ stale' = stale \union Written(t)
    BY <1>11, <1>m, <1>s, <1>i, <1>t DEF AttemptFails, TypeOK, CommitStep, Isolated
  <2>2. Confined(t)
    BY <2>1 DEF Confined, Active
  <2>3. Written(t) \subseteq undone'
    BY <2>1 DEF TxStored, Undoing
  <2>4. TxStored(t)' /\ TxIndexed(t)'
    BY <1>w, <2>1, <2>3 DEF TxStored, TxIndexed, Doing, Undoing, Moves
  <2>5. QED
    BY <2>1, <2>2, <2>3, <2>4, MoveAgrees DEF DocStored
<1>12. ASSUME NEW t \in Txs, Cancel(t) PROVE AgreeInv'
  <2>1. /\ Active(t) /\ pc'[t] = "lost" /\ phase = "up" /\ Moves(t)
        /\ UNCHANGED <<phase, storage, memory, erased, undone>>
        /\ IF pc[t] \in InDoubtPlaces \union {"storage"}
           THEN stale' = stale \union Written(t) ELSE stale' = stale
    BY <1>12, <1>m, <1>t DEF Cancel, TypeOK
  <2>2. Confined(t)
    BY <2>1 DEF Confined
  <2>3. TxStored(t)' /\ TxIndexed(t)'
    BY <2>1 DEF TxStored, TxIndexed, Doing, Undoing
  <2>4. \A d \in Written(t) : Own(t, d)
    BY <2>1, OwnDocument
  <2>5. \A d \in Written(t) : /\ DocStored(d)'
                              /\ d \in stale' \/ index'[d] = doc'[d]
                              /\ \/ d \in stale' \union undone' \union deleted'
                                 \/ (d \in graph' <=> doc'[d] # None)
    BY <2>1, <2>4 DEF DocStored, Own
  <2>6. QED
    BY <2>2, <2>3, <2>5, MoveAgrees
<1>13. CASE Crash
  <2>1. /\ UNCHANGED <<storage, writes, erased, undone>> /\ phase' = "down"
        /\ \A t \in Txs : pc'[t] = pc[t] \/ pc'[t] = "lost"
    BY <1>13 DEF Crash
  <2>2. \A t \in Txs : TxStored(t)'
    BY <1>s, <2>1 DEF TxStored, Doing, Undoing, Written, Removed, Inserted
  <2>3. \A d \in Docs : DocStored(d)'
    BY <2>1 DEF AgreeInv, DocStored
  <2>4. QED
    BY <2>1, <2>2, <2>3 DEF AgreeInv
<1>q. phase # "up" => \A t \in Txs : pc[t] \in Finished \union {"open"}
  BY DEF DbInv, Quiet, Active
<1>14. CASE Open
  <2>1. /\ phase = "down" /\ index' = doc /\ graph' = entity \ deleted /\ stale' = {}
        /\ UNCHANGED <<storage, pc, writes, old, erased, undone>>
    BY <1>14 DEF Open
  <2>2. \A t \in Txs : TxStored(t)' /\ TxIndexed(t)'
    BY <1>q, <2>1 DEF TxStored, TxIndexed, Doing, Undoing
  <2>3. \A d \in Docs : DocStored(d)' /\ DocStored(d)
    BY <2>1 DEF AgreeInv, DocStored
  <2>4. \A d \in Docs : DocIndexed(d)'
    BY <2>1, <2>3 DEF DocStored, DocIndexed
  <2>5. QED
    BY <2>2, <2>3, <2>4 DEF AgreeInv
<1>15. CASE Repair
  <2>1. /\ phase = "repair" /\ graph' = graph \union Found /\ entity' = entity \union Found
        /\ UNCHANGED <<doc, deleted, index, pc, writes, old, erased, stale, undone>>
        /\ \A d \in Docs : text'[d] \in {text[d], doc[d]}
        /\ \A d \in Found : doc[d] # None
    BY <1>15 DEF Repair, Found
  <2>2. \A t \in Txs : TxStored(t)' /\ TxIndexed(t)'
    BY <1>q, <2>1 DEF TxStored, TxIndexed, Doing, Undoing
  <2>3. ASSUME NEW d \in Docs PROVE DocStored(d)' /\ DocIndexed(d)'
    <3>1. DocStored(d) /\ DocIndexed(d)
      BY <2>1 DEF AgreeInv
    <3>2. DocStored(d)'
      BY <2>1, <3>1 DEF DocStored
    <3>3. /\ (\A t \in Txs : InDoubt(t) => d \notin Written(t))
          /\ (\A t \in Txs : InDoubt(t) \/ pc[t] = "storage" => d \notin Written(t))
      BY <1>q, <2>1 DEF InDoubt
    <3>4. DocIndexed(d)'
      BY <2>1, <3>1, <3>3 DEF DocIndexed
    <3>5. QED
      BY <3>2, <3>4
  <2>4. QED
    BY <2>2, <2>3 DEF AgreeInv
<1>16. ASSUME RepairFails \/ \E t \in Txs : Settle(t) PROVE AgreeInv'
  <2>1. /\ phase \in {"repair", "settle"}
        /\ UNCHANGED <<doc, text, entity, deleted, memory, pc, writes, old, erased, stale, undone>>
    BY <1>16 DEF RepairFails, Settle
  <2>2. \A t \in Txs : TxStored(t)' /\ TxIndexed(t)'
    BY <1>q, <2>1 DEF TxStored, TxIndexed, Doing, Undoing
  <2>3. \A d \in Docs : DocStored(d)' /\ DocIndexed(d)'
    BY <2>1 DEF AgreeInv, DocStored, DocIndexed, InDoubt, Written
  <2>4. QED
    BY <2>2, <2>3 DEF AgreeInv
<1>17. QED
  BY <1>0, <1>1, <1>2, <1>3, <1>4, <1>5, <1>6, <1>7, <1>8, <1>9, <1>10, <1>11, <1>12, <1>13,
     <1>14, <1>15, <1>16 DEF Next, TxStep, CommitStep, insert_op, delete_op

(* Search sees what the storage engine has: when no transaction is at work on a document
   and nothing was left behind by a failure, HNSW, text index and graph agree with the
   storage engine, for any number of transactions and documents. *)
THEOREM IndexesAgree ==
    ASSUME Isolated PROVE Spec => []Agreement
<1>1. Init => AgreeInv
  BY DEF Init, AgreeInv, TxStored, TxIndexed, DocStored, DocIndexed, Doing, Undoing
<1>2. DbInv /\ AgreeInv /\ [Next]_vars => AgreeInv'
  BY AgreeStep
<1>3. AgreeInv => Agreement
  <2> SUFFICES ASSUME AgreeInv, phase = "up", NEW d \in Docs,
                      \A t \in Txs : Active(t) => d \notin Written(t)
      PROVE  /\ d \notin stale => index[d] = doc[d]
             /\ d \notin undone => text[d] = doc[d]
             /\ d \notin stale \union undone \union deleted => (d \in graph <=> doc[d] # None)
    BY DEF Agreement
  <2>1. DocStored(d) /\ DocIndexed(d)
    BY DEF AgreeInv
  <2>2. /\ \A t \in Txs : InDoubt(t) => d \notin Written(t)
        /\ \A t \in Txs : InDoubt(t) \/ pc[t] = "storage" => d \notin Written(t)
    BY DEF InDoubt, Active
  <2>3. QED
    BY <2>1, <2>2 DEF DocStored, DocIndexed
<1>4. QED
  BY <1>1, <1>2, <1>3, DbInvariant, PTL DEF Spec
=============================================================================
