-------------------------- MODULE GroupCommitProofs --------------------------
(***************************************************************************)
(* Proofs about GroupCommit, for any finite set of transactions, any        *)
(* memtable size and any timeouts and failures: the type invariant; that a  *)
(* transaction whose caller was told Err is nowhere unless a write was       *)
(* torn; that one whose caller was told Ok is readable, and durable until    *)
(* the first flush; and that logs are in order and pass the HMAC check.      *)
(***************************************************************************)
EXTENDS GroupCommit, NatSetLemmas, SequenceTheorems

-----------------------------------------------------------------------------
(* Sequences of transactions and of entries.                               *)

\* The greatest of finitely many naturals is one of them.
LEMMA MaxIsNat ==
  ASSUME NEW S, S \subseteq Nat, S # {}, IsFiniteSet(S)
  PROVE  Max(S) \in Nat
<1>1. PICK m \in S : \A n \in S : n <= m
  BY FiniteGreatest
<1>2. \E x \in S : \A y \in S : x >= y
  BY <1>1
<1>3. Max(S) \in S
  BY <1>2 DEF Max
<1> QED BY <1>3

\* A batch holds finitely many transactions.
LEMMA BatchFinite ==
  ASSUME NEW ts \in Seq(Txs)
  PROVE  IsFiniteSet(Range(ts)) /\ Range(ts) \subseteq Txs
<1>1. Len(ts) \in Nat /\ DOMAIN ts = 1 .. Len(ts)
  OBVIOUS
<1>2. IsFiniteSet({ts[i] : i \in 1 .. Len(ts)})
  BY <1>1, PositionsFinite
<1> QED BY <1>2, RangeEquality, RangeOfSeq

\* A log holds finitely many sequence numbers.
LEMMA SeqNosFinite ==
  ASSUME NEW es \in Seq(Entry)
  PROVE  {e.seq : e \in Range(es)} \subseteq Nat /\ IsFiniteSet({e.seq : e \in Range(es)})
<1> DEFINE f == [i \in 1 .. Len(es) |-> es[i].seq]
<1>1. Len(es) \in Nat /\ DOMAIN f = 1 .. Len(es)
  OBVIOUS
<1>2. Range(es) = {es[i] : i \in 1 .. Len(es)} /\ Range(es) \subseteq Entry
  BY RangeEquality, RangeOfSeq
<1>3. {e.seq : e \in Range(es)} = {f[i] : i \in 1 .. Len(es)}
  BY <1>2
<1> HIDE DEF f
<1>4. IsFiniteSet({f[i] : i \in 1 .. Len(es)})
  BY <1>1, PositionsFinite
<1> QED BY <1>2, <1>3, <1>4 DEF Entry

\* The transactions of an appended log.
LEMMA TxsInConcat ==
  ASSUME NEW es \in Seq(Entry), NEW fs \in Seq(Entry)
  PROVE  es \o fs \in Seq(Entry) /\ TxsIn(es \o fs) = TxsIn(es) \cup TxsIn(fs)
<1>1. Range(es \o fs) = Range(es) \cup Range(fs)
  BY RangeConcatenation
<1> QED BY <1>1 DEF TxsIn

\* The transactions of a truncated log were in the log.
LEMMA TxsInPrefix ==
  ASSUME NEW es \in Seq(Entry), NEW n \in 0 .. Len(es)
  PROVE  /\ SubSeq(es, 1, n) \in Seq(Entry) /\ Len(SubSeq(es, 1, n)) = n
         /\ TxsIn(SubSeq(es, 1, n)) \subseteq TxsIn(es)
<1> DEFINE p == SubSeq(es, 1, n)
<1>1. p \in Seq(Entry) /\ Len(p) = n /\ \A i \in 1 .. n : p[i] = es[i]
  BY SubSeqProperties
<1>2. Range(p) = {p[i] : i \in 1 .. n} /\ Range(es) = {es[i] : i \in 1 .. Len(es)}
  BY <1>1, RangeEquality
<1> HIDE DEF p
<1>3. Range(p) \subseteq Range(es)
  BY <1>1, <1>2
<1> QED BY <1>1, <1>3 DEF TxsIn, p

\* The entries of a batch are its transactions' entries.
LEMMA TxsInEntries ==
  ASSUME NEW ts \in Seq(Txs), entry \in [Txs -> Entry]
  PROVE  /\ Entries(ts) \in Seq(Entry) /\ Len(Entries(ts)) = Len(ts)
         /\ (\A u \in Range(ts) : entry[u].tx = u) => TxsIn(Entries(ts)) = Range(ts)
<1>1. Len(ts) \in Nat /\ DOMAIN ts = 1 .. Len(ts) /\ \A i \in 1 .. Len(ts) : ts[i] \in Txs
  OBVIOUS
<1>2. Entries(ts) = [i \in 1 .. Len(ts) |-> entry[ts[i]]]
  BY <1>1 DEF Entries
<1>3. Entries(ts) \in Seq(Entry) /\ Len(Entries(ts)) = Len(ts)
  BY <1>1, <1>2
<1>4. /\ Range(ts) = {ts[i] : i \in 1 .. Len(ts)}
      /\ Range(Entries(ts)) = {Entries(ts)[i] : i \in 1 .. Len(ts)}
  BY <1>3, RangeEquality
<1>5. Range(Entries(ts)) = {entry[u] : u \in Range(ts)}
  BY <1>2, <1>4
<1> QED BY <1>3, <1>5 DEF TxsIn

\* The logs are numbered from 0.
LEMMA WalsType == Wals \subseteq Nat /\ 0 \in Wals
BY FS_CardinalityType, GroupAssumption DEF Wals

\* find_tx_offset keeps a prefix of the log.
LEMMA KeptPrefix ==
  ASSUME NEW es \in Seq(Entry), NEW target
  PROVE  Kept(es, target) \in 0 .. Len(es)
<1> DEFINE S == {n \in 0 .. Len(es) : \A i \in 1 .. n : es[i].tx <= target}
<1>1. Len(es) \in Nat /\ S \subseteq Nat /\ 0 \in S /\ \A n \in S : n <= Len(es)
  OBVIOUS
<1>2. S # {}
  BY <1>1
<1> HIDE DEF S
<1>3. PICK m \in S : \A n \in S : n <= m
  BY <1>1, <1>2, GreatestExists
<1>4. \E x \in S : \A y \in S : x >= y
  BY <1>1, <1>3
<1>5. Max(S) \in S
  BY <1>4 DEF Max
<1>6. Max(S) \in 0 .. Len(es)
  BY <1>5 DEF S
<1> QED BY <1>1, <1>6 DEF Kept, S

-----------------------------------------------------------------------------
(* The type invariant.                                                     *)

\* A store without a commit satisfies the invariant.
LEMMA CommitInit == Init => CommitInv
<1> SUFFICES ASSUME Init PROVE CommitInv
  OBVIOUS
<1>1. TypeOK
  BY WalsType DEF Init, TypeOK, Places, NoEntry, NoQueue, Entry, ZERO
<1>2. Range(<< >>) = {}
  BY DEF Range
<1>3. OneOwner
  BY <1>2 DEF Init, OneOwner, Queued, NoQueue, InFlight, Appended
<1>4. OneHolder
  BY DEF Init, OneHolder, Holding
<1>5. Written = {}
  BY <1>2 DEF Init, Written, Logged, Readable, TxsIn
<1>6. NotWritten
  BY <1>2, <1>5 DEF Init, NotWritten, InFlight, Appended
<1> QED BY <1>1, <1>3, <1>4, <1>6 DEF CommitInv

\* Preparing an entry keeps the types.
LEMMA PrepareType ==
  ASSUME TypeOK, NEW t \in Txs, Prepare(t)
  PROVE  /\ entry' \in [Txs -> Entry] /\ last_hmac' \in [Wals -> Txs \cup {ZERO}]
         /\ next_seq_no' \in Nat
BY DEF TypeOK, Prepare, Entry, ZERO

\* What a leader appends and applies is a sequence of entries.
LEMMA BatchType ==
  ASSUME TypeOK, NEW t \in Txs
  PROVE  batch[t] \in Seq(Txs) /\ Entries(batch[t]) \in Seq(Entry)
         /\ Len(Entries(batch[t])) = Len(batch[t])
<1>1. batch[t] \in Seq(Txs) /\ entry \in [Txs -> Entry]
  BY DEF TypeOK
<1> QED BY <1>1, TxsInEntries

\* A transaction's answer keeps the places.
LEMMA AnswerType ==
  ASSUME TypeOK, NEW t \in Txs, NEW result \in Answered, Answer(t, result)
  PROVE  pc' \in [Txs -> Places]
BY DEF TypeOK, Answer, Places

\* last_committed_tx stays a TxId.
LEMMA AppliedType ==
  ASSUME TypeOK, NEW t \in Txs, Applied(t)
  PROVE  last_committed_tx' \in Nat
<1> DEFINE S == {last_committed_tx} \cup Range(batch[t])
<1>1. IsFiniteSet(Range(batch[t])) /\ Range(batch[t]) \subseteq Txs
  BY BatchFinite, BatchType
<1>2. IsFiniteSet({last_committed_tx})
  BY FS_Singleton
<1>3. IsFiniteSet(S) /\ S # {} /\ S \subseteq Nat
  BY <1>1, <1>2, FS_Union, GroupAssumption DEF TypeOK
<1> HIDE DEF S
<1>4. Max(S) \in Nat
  BY <1>3, MaxIsNat
<1> QED BY <1>4 DEF S, Applied

\* Every step keeps the types; a truncation needs its point inside the log.
LEMMA TypeStep ==
  ASSUME TypeOK, OneHolder, [Next]_vars
  PROVE  TypeOK'
<1>0. Txs \subseteq Nat /\ 0 \in Wals /\ Wals \subseteq Nat
  BY GroupAssumption, WalsType
<1>1. ASSUME NEW t \in Txs, Lead(t) PROVE TypeOK'
  <2>1. Prepare(t)
    BY <1>1 DEF Lead
  <2>2. pending_commit_queue' \in
          [open : BOOLEAN, requests : Seq(Txs), first_prev_hmac : Txs \cup {ZERO}]
    BY <1>1 DEF Lead, TypeOK
  <2>3. pc' \in [Txs -> Places]
    BY <1>1 DEF Lead, Goto, TypeOK, Places
  <2> QED BY <2>1, <2>2, <2>3, PrepareType DEF TypeOK, Prepare, leader
<1>2. ASSUME NEW t \in Txs, Follow(t) PROVE TypeOK'
  <2>1. Prepare(t)
    BY <1>2 DEF Follow
  <2>2. pending_commit_queue' \in
          [open : BOOLEAN, requests : Seq(Txs), first_prev_hmac : Txs \cup {ZERO}]
    BY <1>2 DEF Follow, TypeOK
  <2>3. pc' \in [Txs -> Places]
    BY <1>2 DEF Follow, Goto, TypeOK, Places
  <2> QED BY <2>1, <2>2, <2>3, PrepareType DEF TypeOK, Prepare, leader
<1>3. ASSUME NEW t \in Txs, TakeQueue(t) PROVE TypeOK'
  <2>1. <<t>> \o pending_commit_queue.requests \in Seq(Txs)
    BY DEF TypeOK
  <2>2. batch' \in [Txs -> Seq(Txs)]
    BY <1>3, <2>1 DEF TakeQueue, TypeOK
  <2> QED BY <1>3, <2>2 DEF TakeQueue, TypeOK, Goto, Places, NoQueue, ZERO, logs, store
<1>4. ASSUME NEW t \in Txs, QueueMissing(t) \/ AppendFails(t) \/ FollowerTimeout(t)
      PROVE TypeOK'
  BY <1>4 DEF QueueMissing, AppendFails, FollowerTimeout, TypeOK, Goto, Places, Answered,
              leader, logs, store
<1>5. ASSUME NEW t \in Txs, AppendBatch(t) PROVE TypeOK'
  <2>1. its_wal[t] \in Wals /\ log[its_wal[t]] \in Seq(Entry)
    BY DEF TypeOK
  <2>2. log[its_wal[t]] \o Entries(batch[t]) \in Seq(Entry)
    BY <2>1, BatchType, TxsInConcat
  <2>3. log' \in [Wals -> Seq(Entry)]
    BY <1>5, <2>1, <2>2 DEF AppendBatch, TypeOK
  <2> QED BY <1>5, <2>3 DEF AppendBatch, TypeOK, Goto, Places, leader, store
<1>6. ASSUME NEW t \in Txs, AppendTorn(t) PROVE TypeOK'
  <2>1. its_wal[t] \in Wals /\ log[its_wal[t]] \in Seq(Entry)
    BY DEF TypeOK
  <2>2. PICK n \in 0 .. Len(batch[t]) :
          log' = [log EXCEPT ![its_wal[t]] = @ \o SubSeq(Entries(batch[t]), 1, n)]
    BY <1>6 DEF AppendTorn
  <2>3. SubSeq(Entries(batch[t]), 1, n) \in Seq(Entry)
    BY BatchType, TxsInPrefix
  <2>4. log[its_wal[t]] \o SubSeq(Entries(batch[t]), 1, n) \in Seq(Entry)
    BY <2>1, <2>3, TxsInConcat
  <2>5. log' \in [Wals -> Seq(Entry)]
    BY <2>1, <2>2, <2>4 DEF TypeOK
  <2> QED BY <1>6, <2>5 DEF AppendTorn, TypeOK, Goto, Places, leader, store
<1>7. ASSUME NEW t \in Txs, RollbackScan(t) PROVE TypeOK'
  <2>1. Kept(log[wal], last_committed_tx) \in Nat
    BY KeptPrefix DEF TypeOK
  <2>2. keep' \in [Txs -> Nat]
    BY <1>7, <2>1 DEF RollbackScan, TypeOK
  <2>3. pc' \in [Txs -> Places]
    <3>1. Answer(t, "err") \/ Goto(t, "truncate")
      BY <1>7 DEF RollbackScan
    <3>2. CASE Answer(t, "err")
      BY <3>2, AnswerType DEF Answered
    <3>3. CASE Goto(t, "truncate")
      BY <3>3 DEF Goto, TypeOK, Places
    <3> QED BY <3>1, <3>2, <3>3
  <2>4. last_hmac' \in [Wals -> Txs \cup {ZERO}]
    BY <1>7 DEF RollbackScan, TypeOK
  <2> QED BY <1>7, <2>2, <2>3, <2>4 DEF RollbackScan, TypeOK, store
<1>8. ASSUME NEW t \in Txs, RollbackTruncate(t) PROVE TypeOK'
  <2> DEFINE left == SubSeq(log[wal], 1, keep[t])
             seqs == {e.seq : e \in Range(left \o sstables)}
  <2>1. wal \in Wals /\ log[wal] \in Seq(Entry) /\ keep[t] \in 0 .. Len(log[wal])
    BY <1>8 DEF RollbackTruncate, TypeOK, OneHolder
  <2>2. left \in Seq(Entry) /\ Len(left) = keep[t]
    BY <2>1, TxsInPrefix
  <2>3. HmacAt(left, Len(left)) \in Txs \cup {ZERO}
    BY <2>1, <2>2 DEF HmacAt, Entry, ZERO
  <2>4. left \o sstables \in Seq(Entry)
    BY <2>2, TxsInConcat DEF TypeOK
  <2>5. IsFiniteSet(seqs) /\ seqs \subseteq Nat
    BY <2>4, SeqNosFinite
  <2> HIDE DEF seqs
  <2>6. IsFiniteSet({0} \cup seqs) /\ {0} \cup seqs # {} /\ {0} \cup seqs \subseteq Nat
    <3>1. IsFiniteSet({0})
      BY FS_Singleton
    <3>2. IsFiniteSet({0} \cup seqs)
      BY <2>5, <3>1, FS_Union
    <3> QED BY <2>5, <3>2
  <2>7. Max({0} \cup seqs) \in Nat
    BY <2>6, MaxIsNat
  <2>8. next_seq_no' \in Nat
    BY <1>8, <2>7 DEF RollbackTruncate, seqs
  <2>9. pc' \in [Txs -> Places]
    BY <1>8, AnswerType DEF RollbackTruncate, Answered
  <2> HIDE DEF left
  <2>10. /\ log' = [log EXCEPT ![wal] = left] /\ memtable' = left
         /\ last_hmac' = [last_hmac EXCEPT ![wal] = HmacAt(left, Len(left))]
    BY <1>8 DEF RollbackTruncate, left
  <2>11. log' \in [Wals -> Seq(Entry)] /\ last_hmac' \in [Wals -> Txs \cup {ZERO}]
    BY <2>1, <2>2, <2>3, <2>10 DEF TypeOK
  <2> QED BY <1>8, <2>2, <2>8, <2>9, <2>10, <2>11 DEF RollbackTruncate, TypeOK, leader
<1>9. ASSUME NEW t \in Txs, TruncateFails(t) PROVE TypeOK'
  <2>1. pc' \in [Txs -> Places]
    BY <1>9, AnswerType DEF TruncateFails, Answered
  <2> QED BY <1>9, <2>1 DEF TruncateFails, TypeOK, leader, logs, store
<1>10. ASSUME NEW t \in Txs, Apply(t) \/ ApplyAndFreeze(t) PROVE TypeOK'
  <2>1. Applied(t) /\ last_committed_tx' \in Nat
    BY <1>10, AppliedType DEF Apply, ApplyAndFreeze
  <2>2. memtable \o Entries(batch[t]) \in Seq(Entry)
    BY BatchType, TxsInConcat DEF TypeOK
  <2>3. CASE Apply(t)
    <3>1. pc' \in [Txs -> Places]
      BY <2>3, AnswerType DEF Apply, Answered
    <3> QED BY <2>1, <2>2, <2>3, <3>1 DEF Apply, Applied, TypeOK
  <2>4. CASE ApplyAndFreeze(t)
    <3>1. /\ pc' \in [Txs -> Places] /\ its_wal' \in [Txs -> Wals]
          /\ wal' \in Wals /\ wal_files' \subseteq Wals
      BY <2>4 DEF ApplyAndFreeze, TypeOK, Goto, Places
    <3>2. memtable' \in Seq(Entry) /\ frozen' \in Seq(Entry)
      BY <2>2, <2>4 DEF ApplyAndFreeze
    <3> QED BY <2>1, <2>4, <3>1, <3>2 DEF ApplyAndFreeze, Applied, TypeOK
  <2> QED BY <1>10, <2>3, <2>4
<1>11. ASSUME NEW t \in Txs, FlushDone(t) PROVE TypeOK'
  <2>1. sstables \o frozen \in Seq(Entry)
    BY TxsInConcat DEF TypeOK
  <2>2. pc' \in [Txs -> Places]
    BY <1>11, AnswerType DEF FlushDone, Answered
  <2>3. sstables' \in Seq(Entry) /\ frozen' \in Seq(Entry)
    BY <1>11, <2>1 DEF FlushDone
  <2>4. wal_files' \subseteq Wals
    BY <1>11 DEF FlushDone, TypeOK
  <2> QED BY <1>11, <2>2, <2>3, <2>4 DEF FlushDone, TypeOK, leader
<1>12. ASSUME NEW t \in Txs, DropQueue(t) PROVE TypeOK'
  <2>1. pc' \in [Txs -> Places]
    BY <1>12 DEF DropQueue, TypeOK, Places, Answered
  <2> QED BY <1>12, <2>1 DEF DropQueue, TypeOK, NoQueue, ZERO, leader, logs, store
<1>13. ASSUME UNCHANGED vars PROVE TypeOK'
  BY <1>13 DEF TypeOK, vars, leader, logs, store
<1> QED
  BY <1>1, <1>2, <1>3, <1>4, <1>5, <1>6, <1>7, <1>8, <1>9, <1>10, <1>11, <1>12, <1>13
  DEF Next, Commit, Done

-----------------------------------------------------------------------------
(* commit_mutex has one holder, and a truncation point is inside the log.  *)

\* Every step keeps OneHolder.
LEMMA HolderStep ==
  ASSUME TypeOK, OneHolder, [Next]_vars
  PROVE  OneHolder'
<1> DEFINE Enters(u) == pc'[u] \in Holding /\ pc[u] # pc'[u]
<1>1. ASSUME \A u \in Txs : ~Enters(u), wal' = wal,
             \A u \in Txs : pc'[u] = "truncate" =>
                keep'[u] = keep[u] /\ Len(log'[wal]) >= Len(log[wal])
      PROVE  OneHolder'
  <2>1. \A u \in Txs : keep[u] \in Nat /\ Len(log[wal]) \in Nat
    BY DEF TypeOK
  <2>2. \A u \in Txs : keep'[u] \in Nat /\ Len(log'[wal]) \in Nat
    BY TypeStep, <1>1 DEF TypeOK
  <2> QED BY <1>1, <2>1, <2>2 DEF OneHolder, Holding
<1>2. ASSUME NEW t \in Txs, Lead(t) \/ Follow(t) \/ TakeQueue(t) \/ QueueMissing(t)
                            \/ AppendFails(t) \/ FollowerTimeout(t)
      PROVE OneHolder'
  <2>1. keep' = keep /\ log' = log /\ wal' = wal
    BY <1>2 DEF Lead, Follow, Prepare, TakeQueue, QueueMissing, AppendFails,
       FollowerTimeout, leader, logs
  <2>2. \A u \in Txs : ~Enters(u)
    <3>1. \E place \in Places \ Holding : Goto(t, place)
      BY <1>2 DEF Lead, Follow, TakeQueue, QueueMissing, AppendFails, FollowerTimeout,
         Places, Holding, Answered
    <3> QED BY <3>1 DEF Goto, TypeOK
  <2>3. Len(log'[wal]) >= Len(log[wal])
    BY <2>1 DEF TypeOK
  <2> QED BY <1>1, <2>1, <2>2, <2>3
<1>3. ASSUME NEW t \in Txs, AppendBatch(t) \/ AppendTorn(t) PROVE OneHolder'
  <2>1. /\ its_wal[t] \in Wals /\ wal \in Wals /\ log \in [Wals -> Seq(Entry)]
        /\ \A u \in Txs : ~Enters(u) /\ wal' = wal /\ keep' = keep
    BY <1>3 DEF AppendBatch, AppendTorn, Goto, TypeOK, Holding, leader
  <2>2. \E es \in Seq(Entry) : log' = [log EXCEPT ![its_wal[t]] = @ \o es]
    <3>1. CASE AppendBatch(t)
      BY <3>1, BatchType DEF AppendBatch
    <3>2. CASE AppendTorn(t)
      <4>1. PICK n \in 0 .. Len(batch[t]) :
              log' = [log EXCEPT ![its_wal[t]] = @ \o SubSeq(Entries(batch[t]), 1, n)]
        BY <3>2 DEF AppendTorn
      <4>2. SubSeq(Entries(batch[t]), 1, n) \in Seq(Entry)
        BY BatchType, TxsInPrefix
      <4> QED BY <4>1, <4>2
    <3> QED BY <1>3, <3>1, <3>2
  <2>3. Len(log'[wal]) >= Len(log[wal])
    BY <2>1, <2>2
  <2> QED BY <1>1, <2>1, <2>3
<1>4. ASSUME NEW t \in Txs, RollbackScan(t) PROVE OneHolder'
  <2>1. CASE Answer(t, "err") /\ UNCHANGED keep
    BY <1>1, <1>4, <2>1 DEF RollbackScan, Answer, TypeOK, Holding
  <2>2. CASE /\ Goto(t, "truncate")
             /\ keep' = [keep EXCEPT ![t] = Kept(log[wal], last_committed_tx)]
    <3>1. Kept(log[wal], last_committed_tx) \in 0 .. Len(log[wal])
      BY KeptPrefix DEF TypeOK
    <3>2. \A u \in Txs : pc'[u] \in Holding => u = t
      BY <1>4, <2>2 DEF RollbackScan, CommitMutexFree, Goto, TypeOK, Holding
    <3>3. keep'[t] <= Len(log'[wal'])
      BY <1>4, <2>2, <3>1 DEF RollbackScan, TypeOK
    <3> QED BY <3>2, <3>3 DEF OneHolder, Holding
  <2> QED BY <1>4, <2>1, <2>2 DEF RollbackScan
<1>5. ASSUME NEW t \in Txs, RollbackTruncate(t) \/ TruncateFails(t) \/ FlushDone(t)
      PROVE OneHolder'
  <2>1. \A u \in Txs : pc'[u] \notin Holding
    BY <1>5 DEF RollbackTruncate, TruncateFails, FlushDone, Answer, OneHolder, Holding, TypeOK
  <2> QED BY <2>1 DEF OneHolder, Holding
<1>6. ASSUME NEW t \in Txs, Apply(t) PROVE OneHolder'
  BY <1>1, <1>6 DEF Apply, Applied, Answer, TypeOK, Holding
<1>7. ASSUME NEW t \in Txs, ApplyAndFreeze(t) PROVE OneHolder'
  <2>1. \A u \in Txs : pc'[u] \in Holding => u = t /\ pc'[u] = "flush"
    BY <1>7 DEF ApplyAndFreeze, Applied, CommitMutexFree, Goto, TypeOK, Holding
  <2> QED BY <2>1 DEF OneHolder, Holding
<1>8. ASSUME NEW t \in Txs, DropQueue(t) PROVE OneHolder'
  BY <1>1, <1>8 DEF DropQueue, TypeOK, Holding, leader, logs
<1>9. ASSUME UNCHANGED vars PROVE OneHolder'
  BY <1>9 DEF OneHolder, vars, leader, logs
<1> QED
  BY <1>2, <1>3, <1>4, <1>5, <1>6, <1>7, <1>8, <1>9 DEF Next, Commit, Done

-----------------------------------------------------------------------------
(* A transaction has one owner.                                            *)

\* Batches and the queue hold transactions.
LEMMA Members ==
  ASSUME TypeOK
  PROVE  Queued \subseteq Txs /\ \A t \in Txs : Range(batch[t]) \subseteq Txs
BY RangeOfSeq DEF TypeOK, Queued

\* A leader's next place leaves the owners alone.
LEMMA MoveOwner ==
  ASSUME TypeOK, OneOwner, NEW t \in Txs, NEW place \in InFlight, pc[t] \in InFlight,
         Goto(t, place), UNCHANGED <<entry, batch, pending_commit_queue>>
  PROVE  OneOwner'
<1>1. /\ \A u \in Txs : pc'[u] = IF u = t THEN place ELSE pc[u]
      /\ Queued' = Queued /\ batch' = batch /\ entry' = entry
  BY DEF TypeOK, Goto, Queued
<1>2. \A u \in Txs : pc'[u] \in InFlight <=> pc[u] \in InFlight
  BY <1>1
<1>3. \A u \in Txs : pc[u] \in Waiting => pc'[u] \in Waiting
  BY <1>1 DEF InFlight, Appended, Waiting
<1>4. \A u \in Txs : pc'[u] # "start" => entry'[u].tx = u
  BY <1>1 DEF OneOwner, InFlight, Appended
<1> QED BY <1>1, <1>2, <1>3, <1>4, Members DEF OneOwner

\* Neither does a leader's answer to its batch.
LEMMA AnswerOwner ==
  ASSUME TypeOK, OneOwner, NEW t \in Txs, NEW result \in {"ok", "err"}, pc[t] \in InFlight,
         Answer(t, result), UNCHANGED <<entry, batch, pending_commit_queue>>
  PROVE  OneOwner'
<1>1. /\ \A u \in Txs : \/ pc'[u] = pc[u] /\ u # t
                        \/ pc'[u] = result /\ u \in Range(batch[t])
      /\ pc'[t] = result /\ t \in Range(batch[t])
      /\ Queued' = Queued /\ batch' = batch /\ entry' = entry
  BY DEF TypeOK, Answer, Queued, OneOwner
<1>2. \A u \in Txs : pc'[u] \in InFlight => pc[u] \in InFlight /\ u # t
  BY <1>1 DEF InFlight, Appended
<1>3. \A u \in Txs : pc'[u] # "start" => entry'[u].tx = u
  <2> TAKE u \in Txs
  <2>1. CASE u \in Range(batch[t])
    BY <1>1, <2>1 DEF OneOwner, Waiting, InFlight, Appended
  <2>2. CASE u \notin Range(batch[t])
    BY <1>1, <2>2 DEF OneOwner
  <2> QED BY <2>1, <2>2
<1>4. \A u \in Queued : pc'[u] \in Waiting
  BY <1>1, Members DEF OneOwner
<1>5. \A v \in Txs : pc'[v] \in InFlight =>
         /\ v \in Range(batch[v])
         /\ \A u \in Range(batch[v]) : u \notin Queued /\ (u = v \/ pc'[u] \in Waiting)
  BY <1>1, <1>2, Members DEF OneOwner
<1>6. \A v, u \in Txs : v # u /\ pc'[v] \in InFlight /\ pc'[u] \in InFlight
         => Range(batch[v]) \cap Range(batch[u]) = {}
  BY <1>2 DEF OneOwner
<1> QED BY <1>1, <1>3, <1>4, <1>5, <1>6 DEF OneOwner

\* Nobody owns a transaction that has not started or leads.
LEMMA Unowned ==
  ASSUME TypeOK, OneOwner, NEW t \in Txs, pc[t] \in {"start", "leader"}
  PROVE  /\ t \notin Queued
         /\ \A v \in Txs : pc[v] \in InFlight => v # t /\ t \notin Range(batch[v])
BY DEF OneOwner, Waiting, InFlight, Appended

\* A queue grows by the transaction that joins it.
LEMMA RangeAppended ==
  ASSUME NEW ts \in Seq(Txs), NEW t \in Txs
  PROVE  Range(Append(ts, t)) = Range(ts) \cup {t}
<1>1. Append(ts, t) = ts \o <<t>> /\ <<t>> \in Seq(Txs)
  OBVIOUS
<1>2. Range(<<t>>) = {t}
  BY DEF Range
<1>3. Range(ts \o <<t>>) = Range(ts) \cup Range(<<t>>)
  BY <1>1, RangeConcatenation, Zenon
<1>4. Range(Append(ts, t)) = Range(ts \o <<t>>)
  BY <1>1
<1> QED BY <1>2, <1>3, <1>4

\* The batch a leader takes is itself and the queue.
LEMMA RangeTaken ==
  ASSUME TypeOK, NEW t \in Txs
  PROVE  Range(<<t>> \o pending_commit_queue.requests) = {t} \cup Queued
<1>1. <<t>> \in Seq(Txs) /\ pending_commit_queue.requests \in Seq(Txs)
  BY DEF TypeOK
<1>2. Range(<<t>>) = {t}
  BY DEF Range
<1>3. Range(<<t>> \o pending_commit_queue.requests)
         = Range(<<t>>) \cup Range(pending_commit_queue.requests)
  BY <1>1, RangeConcatenation, Zenon
<1>4. Queued = Range(pending_commit_queue.requests)
  BY DEF Queued
<1> QED BY <1>2, <1>3, <1>4

\* Every step keeps OneOwner.
LEMMA OwnerStep ==
  ASSUME TypeOK, OneOwner, [Next]_vars
  PROVE  OneOwner'
<1>0. Range(<< >>) = {}
  BY DEF Range
<1>1. ASSUME NEW t \in Txs, Lead(t) \/ Follow(t) PROVE OneOwner'
  <2>1. /\ pc[t] = "start" /\ batch' = batch
        /\ entry'[t].tx = t /\ \A u \in Txs \ {t} : entry'[u] = entry[u]
    BY <1>1 DEF Lead, Follow, Prepare, leader, TypeOK
  <2>2. \A u \in Txs : u # t => pc'[u] = pc[u]
    BY <1>1 DEF Lead, Follow, Goto, TypeOK
  <2>3. /\ pc'[t] \in {"leader", "follower"} /\ Queued' \subseteq Queued \cup {t}
        /\ t \in Queued' => pc'[t] = "follower"
    <3>1. CASE Lead(t)
      BY <1>0, <3>1 DEF Lead, Goto, TypeOK, Queued
    <3>2. CASE Follow(t)
      <4>1. pending_commit_queue.requests \in Seq(Txs)
        BY DEF TypeOK
      <4>2. Queued' = Range(pending_commit_queue.requests) \cup {t}
        BY <3>2, <4>1, RangeAppended DEF Follow, Queued
      <4> QED BY <3>2, <4>2 DEF Follow, Goto, TypeOK, Queued
    <3> QED BY <1>1, <3>1, <3>2
  <2>4. \A v \in Txs : pc'[v] \in InFlight => pc[v] \in InFlight /\ v # t
    BY <2>2, <2>3 DEF InFlight, Appended
  <2>5. t \notin Queued /\ \A v \in Txs : pc[v] \in InFlight => t \notin Range(batch[v])
    BY <2>1, Unowned
  <2>6. \A u \in Queued' : pc'[u] \in Waiting
    BY <2>2, <2>3, Members DEF OneOwner, Waiting
  <2>7. \A v \in Txs : pc'[v] \in InFlight =>
          /\ v \in Range(batch[v])
          /\ \A u \in Range(batch[v]) : u \notin Queued' /\ (u = v \/ pc'[u] \in Waiting)
    BY <2>2, <2>3, <2>4, <2>5, Members DEF OneOwner
  <2>8. \A u \in Txs : pc'[u] # "start" => entry'[u].tx = u
    BY <2>1, <2>2 DEF OneOwner
  <2> QED BY <2>1, <2>4, <2>6, <2>7, <2>8 DEF OneOwner
<1>2. ASSUME NEW t \in Txs, TakeQueue(t) PROVE OneOwner'
  <2>1. /\ pc[t] = "leader" /\ entry' = entry /\ Queued' = {}
        /\ \A u \in Txs : pc'[u] = IF u = t THEN "append" ELSE pc[u]
        /\ batch'[t] = <<t>> \o pending_commit_queue.requests
        /\ \A u \in Txs : u # t => batch'[u] = batch[u]
    BY <1>0, <1>2 DEF TakeQueue, Goto, TypeOK, Queued, NoQueue
  <2>2. Range(batch'[t]) = {t} \cup Queued
    BY <2>1, RangeTaken, Zenon
  <2>3. t \notin Queued /\ \A v \in Txs : pc[v] \in InFlight => v # t /\ t \notin Range(batch[v])
    BY <2>1, Unowned
  <2>4. \A v \in Txs : pc'[v] \in InFlight => v = t \/ pc[v] \in InFlight
    BY <2>1
  <2>5. \A u \in Txs : pc[u] \in Waiting => pc'[u] \in Waiting
    BY <2>1 DEF Waiting
  <2>6. \A v \in Txs : pc'[v] \in InFlight =>
          /\ v \in Range(batch'[v])
          /\ \A u \in Range(batch'[v]) : u = v \/ pc'[u] \in Waiting
    <3> TAKE v \in Txs
    <3>1. CASE v = t
      BY <2>2, <2>5, <3>1, Members DEF OneOwner
    <3>2. CASE v # t
      <4>1. Range(batch'[v]) = Range(batch[v])
        BY <2>1, <3>2
      <4> QED BY <2>4, <2>5, <3>2, <4>1, Members DEF OneOwner
    <3> QED BY <3>1, <3>2
  <2>7. \A v \in Txs : v # t /\ pc[v] \in InFlight
          => Range(batch'[v]) \cap Range(batch'[t]) = {}
    BY <2>1, <2>2, <2>3 DEF OneOwner
  <2>8. \A v, u \in Txs : v # u /\ pc'[v] \in InFlight /\ pc'[u] \in InFlight
          => Range(batch'[v]) \cap Range(batch'[u]) = {}
    BY <2>1, <2>4, <2>7 DEF OneOwner
  <2>9. \A u \in Txs : pc'[u] # "start" => entry'[u].tx = u
    BY <2>1 DEF OneOwner
  <2> QED BY <2>1, <2>6, <2>8, <2>9 DEF OneOwner
<1>3. ASSUME NEW t \in Txs, QueueMissing(t) PROVE OneOwner'
  <2>1. /\ pc[t] = "leader" /\ entry' = entry /\ Queued' = Queued /\ batch' = batch
        /\ \A u \in Txs : pc'[u] = IF u = t THEN "err" ELSE pc[u]
    BY <1>3 DEF QueueMissing, Goto, TypeOK, Queued, leader
  <2>2. \A v \in Txs : pc'[v] \in InFlight => pc[v] \in InFlight
    BY <2>1 DEF InFlight, Appended
  <2>3. \A u \in Txs : pc[u] \in Waiting => pc'[u] \in Waiting
    BY <2>1 DEF Waiting
  <2>4. \A u \in Txs : pc'[u] # "start" => entry'[u].tx = u
    BY <2>1 DEF OneOwner
  <2> QED BY <2>1, <2>2, <2>3, <2>4, Members DEF OneOwner
<1>4. ASSUME NEW t \in Txs, FollowerTimeout(t) PROVE OneOwner'
  <2>1. /\ pc[t] = "follower" /\ entry' = entry /\ Queued' = Queued /\ batch' = batch
        /\ \A u \in Txs : pc'[u] = IF u = t THEN "expired" ELSE pc[u]
    BY <1>4 DEF FollowerTimeout, Goto, TypeOK, Queued, leader
  <2>2. \A v \in Txs : pc'[v] \in InFlight => pc[v] \in InFlight
    BY <2>1 DEF InFlight, Appended
  <2>3. \A u \in Txs : pc[u] \in Waiting => pc'[u] \in Waiting
    BY <2>1 DEF Waiting
  <2>4. \A u \in Txs : pc'[u] # "start" => entry'[u].tx = u
    BY <2>1 DEF OneOwner
  <2> QED BY <2>1, <2>2, <2>3, <2>4, Members DEF OneOwner
<1>5. ASSUME NEW t \in Txs, DropQueue(t) PROVE OneOwner'
  <2>1. /\ pc[t] = "expired" /\ entry' = entry /\ Queued' = {} /\ batch' = batch
        /\ pc'[t] = "timeout"
        /\ \A u \in Txs : u # t => \/ pc'[u] = pc[u]
                                   \/ pc[u] = "follower" /\ u \in Queued /\ pc'[u] = "err"
    BY <1>0, <1>5 DEF DropQueue, TypeOK, Queued, NoQueue, leader
  <2>2. \A v \in Txs : pc'[v] \in InFlight => pc[v] \in InFlight
    BY <2>1 DEF InFlight, Appended
  <2>3. \A u \in Txs \ Queued : pc[u] \in Waiting => pc'[u] \in Waiting
    BY <2>1 DEF Waiting
  <2>4. \A u \in Txs : pc'[u] # "start" => entry'[u].tx = u
    BY <2>1 DEF OneOwner
  <2> QED BY <2>1, <2>2, <2>3, <2>4, Members DEF OneOwner
<1>6. ASSUME NEW t \in Txs, AppendBatch(t) \/ AppendFails(t) \/ AppendTorn(t)
      PROVE OneOwner'
  <2>1. /\ \E place \in InFlight : Goto(t, place)
        /\ pc[t] \in InFlight /\ UNCHANGED <<entry, batch, pending_commit_queue>>
    BY <1>6 DEF AppendBatch, AppendFails, AppendTorn, leader, InFlight, Appended
  <2> QED BY <2>1, MoveOwner
<1>7. ASSUME NEW t \in Txs, RollbackScan(t) PROVE OneOwner'
  <2>1. pc[t] \in InFlight /\ UNCHANGED <<entry, batch, pending_commit_queue>>
    BY <1>7 DEF RollbackScan, InFlight
  <2>2. Goto(t, "truncate") \/ Answer(t, "err")
    BY <1>7 DEF RollbackScan
  <2>3. "truncate" \in InFlight /\ "err" \in {"ok", "err"}
    BY DEF InFlight
  <2> QED BY <2>1, <2>2, <2>3, MoveOwner, AnswerOwner
<1>8. ASSUME NEW t \in Txs, ApplyAndFreeze(t) PROVE OneOwner'
  <2>1. /\ pc[t] \in InFlight /\ UNCHANGED <<entry, batch, pending_commit_queue>>
        /\ Goto(t, "flush") /\ "flush" \in InFlight
    BY <1>8 DEF ApplyAndFreeze, Applied, InFlight, Appended
  <2> QED BY <2>1, MoveOwner
<1>9. ASSUME NEW t \in Txs,
             RollbackTruncate(t) \/ TruncateFails(t) \/ Apply(t) \/ FlushDone(t)
      PROVE OneOwner'
  <2>1. /\ pc[t] \in InFlight /\ UNCHANGED <<entry, batch, pending_commit_queue>>
        /\ \E result \in {"ok", "err"} : Answer(t, result)
    BY <1>9 DEF RollbackTruncate, TruncateFails, Apply, Applied, FlushDone, InFlight,
       Appended, leader
  <2> QED BY <2>1, AnswerOwner
<1>10. ASSUME UNCHANGED vars PROVE OneOwner'
  BY <1>10 DEF OneOwner, Queued, vars, leader
<1> QED
  BY <1>1, <1>2, <1>3, <1>4, <1>5, <1>6, <1>7, <1>8, <1>9, <1>10 DEF Next, Commit, Done

-----------------------------------------------------------------------------
(* Who was told Err, or has not been appended, is written nowhere.         *)

\* A leader's batch that lands in a log or a memtable is the only news in them,
\* and nobody in it is told Err.
LEMMA BatchLands ==
  ASSUME TypeOK, OneOwner, NotWritten, NEW t \in Txs, pc[t] \in InFlight,
         pc'[t] \in Appended \cup {"ok"},
         \A u \in Txs : u # t => pc'[u] = pc[u] \/ pc'[u] = "ok",
         UNCHANGED <<batch, pending_commit_queue>>,
         Written' \subseteq Written \cup Range(batch[t])
  PROVE  NotWritten'
<1>1. Queued' = Queued /\ batch' = batch
  BY DEF Queued
<1>2. \A u \in Txs : pc'[u] \in {"start", "leader", "err"} => u \notin Written'
  <2> SUFFICES ASSUME NEW u \in Txs, pc'[u] \in {"start", "leader", "err"}
               PROVE  u \notin Written'
    OBVIOUS
  <2>1. u # t /\ pc[u] = pc'[u]
    BY DEF Appended
  <2>2. u \notin Range(batch[t])
    BY <2>1 DEF OneOwner, Waiting
  <2> QED BY <2>1, <2>2 DEF NotWritten
<1>3. \A v \in Txs : pc'[v] \in InFlight \ Appended => Range(batch[v]) \cap Written' = {}
  <2> SUFFICES ASSUME NEW v \in Txs, pc'[v] \in InFlight \ Appended
               PROVE  Range(batch[v]) \cap Written' = {}
    OBVIOUS
  <2>1. v # t /\ pc[v] = pc'[v]
    BY DEF InFlight, Appended
  <2>2. Range(batch[v]) \cap Range(batch[t]) = {}
    BY <2>1 DEF OneOwner
  <2> QED BY <2>1, <2>2 DEF NotWritten
<1>4. Queued \cap Written' = {}
  BY DEF OneOwner, NotWritten
<1> QED BY <1>1, <1>2, <1>3, <1>4 DEF NotWritten

\* A leader that has not appended may refuse its batch.
LEMMA BatchRefused ==
  ASSUME TypeOK, OneOwner, NotWritten, NEW t \in Txs, pc[t] \in InFlight \ Appended,
         pc'[t] \in {"failed", "truncate", "err"},
         \A u \in Txs : u # t => \/ pc'[u] = pc[u]
                                 \/ pc'[u] = "err" /\ u \in Range(batch[t]),
         UNCHANGED <<batch, pending_commit_queue>>, Written' \subseteq Written
  PROVE  NotWritten'
<1>1. Queued' = Queued /\ batch' = batch
  BY DEF Queued
<1>2. Range(batch[t]) \cap Written = {} /\ t \in Range(batch[t])
  BY DEF NotWritten, OneOwner
<1>3. \A u \in Txs : pc'[u] \in {"start", "leader", "err"} => u \notin Written
  BY <1>2 DEF NotWritten
<1>4. \A v \in Txs : pc'[v] \in InFlight \ Appended => Range(batch[v]) \cap Written = {}
  BY <1>2 DEF NotWritten, InFlight
<1> QED BY <1>1, <1>3, <1>4 DEF NotWritten

\* What an appended batch adds to the logs.
LEMMA BatchWritten ==
  ASSUME TypeOK, OneOwner, NEW t \in Txs, pc[t] \in InFlight
  PROVE  /\ Entries(batch[t]) \in Seq(Entry)
         /\ TxsIn(Entries(batch[t])) = Range(batch[t])
<1>1. batch[t] \in Seq(Txs) /\ entry \in [Txs -> Entry]
  BY DEF TypeOK
<1>2. \A u \in Range(batch[t]) : entry[u].tx = u
  <2>1. \A u \in Range(batch[t]) : u \in Txs /\ pc[u] # "start"
    BY Members DEF OneOwner, Waiting, InFlight, Appended
  <2> QED BY <2>1 DEF OneOwner
<1> QED BY <1>1, <1>2, TxsInEntries

\* Every step that leaves no log poisoned keeps NotWritten.
LEMMA WrittenStep ==
  ASSUME TypeOK, OneOwner, OneHolder, NotWritten, [Next]_vars, Unpoisoned'
  PROVE  NotWritten'
<1>0. Range(<< >>) = {} /\ TxsIn(<< >>) = {}
  BY DEF Range, TxsIn
<1>1. ASSUME UNCHANGED <<log, memtable, frozen, sstables>> PROVE Written' = Written
  BY <1>1 DEF Written, Logged, Readable
<1>2. ASSUME NEW t \in Txs, Lead(t) \/ Follow(t) PROVE NotWritten'
  <2>1. pc[t] = "start" /\ batch' = batch /\ UNCHANGED <<log, memtable, frozen, sstables>>
    BY <1>2 DEF Lead, Follow, Prepare, leader
  <2>2. /\ \A u \in Txs : u # t => pc'[u] = pc[u]
        /\ pc'[t] \in {"leader", "follower"}
    BY <1>2 DEF Lead, Follow, Goto, TypeOK
  <2>3. Queued' \subseteq Queued \cup {t}
    <3>1. CASE Lead(t)
      BY <1>0, <3>1 DEF Lead, Queued
    <3>2. CASE Follow(t)
      <4>1. pending_commit_queue.requests \in Seq(Txs)
        BY DEF TypeOK
      <4> QED BY <3>2, <4>1, RangeAppended DEF Follow, Queued
    <3> QED BY <1>2, <3>1, <3>2
  <2>4. t \notin Written /\ Written' = Written
    BY <1>1, <2>1 DEF NotWritten
  <2>5. \A v \in Txs : pc'[v] \in InFlight \ Appended => pc[v] = pc'[v]
    BY <2>2 DEF InFlight
  <2> QED BY <2>1, <2>2, <2>3, <2>4, <2>5 DEF NotWritten
<1>3. ASSUME NEW t \in Txs, TakeQueue(t) PROVE NotWritten'
  <2>1. /\ pc[t] = "leader" /\ Queued' = {} /\ UNCHANGED <<log, memtable, frozen, sstables>>
        /\ \A u \in Txs : pc'[u] = IF u = t THEN "append" ELSE pc[u]
        /\ batch'[t] = <<t>> \o pending_commit_queue.requests
        /\ \A u \in Txs : u # t => batch'[u] = batch[u]
    BY <1>0, <1>3 DEF TakeQueue, Goto, TypeOK, Queued, NoQueue, logs, store
  <2>2. Range(batch'[t]) = {t} \cup Queued
    BY <2>1, RangeTaken, Zenon
  <2>3. t \notin Written /\ Written' = Written
    BY <1>1, <2>1 DEF NotWritten
  <2>4. \A v \in Txs : pc'[v] \in InFlight \ Appended => Range(batch'[v]) \cap Written = {}
    <3> SUFFICES ASSUME NEW v \in Txs, pc'[v] \in InFlight \ Appended
                 PROVE  Range(batch'[v]) \cap Written = {}
      OBVIOUS
    <3>1. CASE v = t
      BY <2>2, <2>3, <3>1 DEF NotWritten
    <3>2. CASE v # t
      <4>1. Range(batch'[v]) = Range(batch[v]) /\ pc[v] = pc'[v]
        BY <2>1, <3>2
      <4> QED BY <4>1 DEF NotWritten
    <3> QED BY <3>1, <3>2
  <2> QED BY <2>1, <2>3, <2>4 DEF NotWritten
<1>4. ASSUME NEW t \in Txs, QueueMissing(t) \/ FollowerTimeout(t) PROVE NotWritten'
  <2>1. /\ Queued' = Queued /\ batch' = batch /\ UNCHANGED <<log, memtable, frozen, sstables>>
        /\ \A u \in Txs : u # t => pc'[u] = pc[u]
        /\ \/ pc[t] = "leader" /\ pc'[t] = "err"
           \/ pc'[t] = "expired"
    BY <1>4 DEF QueueMissing, FollowerTimeout, Goto, TypeOK, Queued, leader, logs, store
  <2>2. \A v \in Txs : pc'[v] \in InFlight \ Appended => pc[v] = pc'[v]
    BY <2>1 DEF InFlight
  <2> QED BY <1>1, <2>1, <2>2 DEF NotWritten
<1>5. ASSUME NEW t \in Txs, DropQueue(t) PROVE NotWritten'
  <2>1. /\ Queued' = {} /\ batch' = batch /\ UNCHANGED <<log, memtable, frozen, sstables>>
        /\ pc'[t] = "timeout"
        /\ \A u \in Txs : u # t => pc'[u] = pc[u] \/ (u \in Queued /\ pc'[u] = "err")
    BY <1>0, <1>5 DEF DropQueue, TypeOK, Queued, NoQueue, leader, logs, store
  <2>2. \A v \in Txs : pc'[v] \in InFlight \ Appended => pc[v] = pc'[v]
    BY <2>1 DEF InFlight
  <2> QED BY <1>1, <2>1, <2>2 DEF NotWritten
<1>6. ASSUME NEW t \in Txs, AppendFails(t) \/ TruncateFails(t) \/ RollbackScan(t)
      PROVE NotWritten'
  <2>1. /\ pc[t] \in InFlight \ Appended /\ UNCHANGED <<batch, pending_commit_queue>>
        /\ UNCHANGED <<log, memtable, frozen, sstables>>
    BY <1>6 DEF AppendFails, TruncateFails, RollbackScan, InFlight, Appended, leader, logs, store
  <2>2. Goto(t, "failed") \/ Goto(t, "truncate") \/ Answer(t, "err")
    BY <1>6 DEF AppendFails, TruncateFails, RollbackScan
  <2>3. /\ pc'[t] \in {"failed", "truncate", "err"}
        /\ \A u \in Txs : u # t => \/ pc'[u] = pc[u]
                                   \/ pc'[u] = "err" /\ u \in Range(batch[t])
    BY <2>2 DEF Goto, Answer, TypeOK
  <2> QED BY <1>1, <2>1, <2>3, BatchRefused
<1>7. ASSUME NEW t \in Txs, RollbackTruncate(t) PROVE NotWritten'
  <2> DEFINE left == SubSeq(log[wal], 1, keep[t])
  <2>1. wal \in Wals /\ log[wal] \in Seq(Entry) /\ keep[t] \in 0 .. Len(log[wal])
    BY <1>7 DEF RollbackTruncate, TypeOK, OneHolder
  <2>2. TxsIn(left) \subseteq TxsIn(log[wal])
    BY <2>1, TxsInPrefix
  <2> HIDE DEF left
  <2>3. /\ log' = [log EXCEPT ![wal] = left] /\ memtable' = left
        /\ UNCHANGED <<frozen, sstables>>
    BY <1>7 DEF RollbackTruncate, left
  <2>4. \A w \in Wals : TxsIn(log'[w]) \subseteq TxsIn(log[w])
    BY <2>1, <2>2, <2>3 DEF TypeOK
  <2>5. Written' \subseteq Written
    <3>1. Logged' \subseteq Logged
      BY <2>4 DEF Logged
    <3>2. TxsIn(left) \subseteq Logged
      BY <2>1, <2>2 DEF Logged
    <3>3. Readable' = TxsIn(left) \cup TxsIn(frozen) \cup TxsIn(sstables)
      BY <2>3 DEF Readable
    <3> QED BY <3>1, <3>2, <3>3 DEF Written, Readable
  <2>6. /\ pc[t] \in InFlight \ Appended /\ UNCHANGED <<batch, pending_commit_queue>>
        /\ pc'[t] = "err"
        /\ \A u \in Txs : u # t => \/ pc'[u] = pc[u]
                                   \/ pc'[u] = "err" /\ u \in Range(batch[t])
    BY <1>7 DEF RollbackTruncate, Answer, TypeOK, InFlight, Appended, leader
  <2> QED BY <2>5, <2>6, BatchRefused
<1>8. ASSUME NEW t \in Txs, AppendTorn(t) PROVE NotWritten'
  BY <1>8 DEF AppendTorn, TypeOK, Unpoisoned
<1>9. ASSUME NEW t \in Txs, AppendBatch(t) PROVE NotWritten'
  <2>1. /\ pc[t] \in InFlight /\ UNCHANGED <<batch, pending_commit_queue>>
        /\ UNCHANGED <<memtable, frozen, sstables>> /\ pc'[t] \in Appended
        /\ \A u \in Txs : u # t => pc'[u] = pc[u]
    BY <1>9 DEF AppendBatch, Goto, TypeOK, InFlight, Appended, leader, store
  <2>2. its_wal[t] \in Wals /\ log[its_wal[t]] \in Seq(Entry)
    BY DEF TypeOK
  <2>3. TxsIn(log[its_wal[t]] \o Entries(batch[t])) = TxsIn(log[its_wal[t]]) \cup Range(batch[t])
    BY <2>1, <2>2, BatchWritten, TxsInConcat
  <2>4. \A w \in Wals : TxsIn(log'[w]) \subseteq TxsIn(log[w]) \cup Range(batch[t])
    <3>1. /\ log'[its_wal[t]] = log[its_wal[t]] \o Entries(batch[t])
          /\ \A w \in Wals : w # its_wal[t] => log'[w] = log[w]
      BY <1>9, <2>2 DEF AppendBatch, TypeOK
    <3> QED BY <2>3, <3>1
  <2>5. Written' \subseteq Written \cup Range(batch[t])
    BY <2>1, <2>4 DEF Written, Logged, Readable
  <2> QED BY <2>1, <2>5, BatchLands
<1>10. ASSUME NEW t \in Txs, Apply(t) \/ ApplyAndFreeze(t) PROVE NotWritten'
  <2>1. /\ pc[t] \in InFlight /\ UNCHANGED <<batch, pending_commit_queue>>
        /\ UNCHANGED <<log, sstables>>
    BY <1>10 DEF Apply, ApplyAndFreeze, Applied, InFlight, Appended
  <2>2. Goto(t, "flush") \/ Answer(t, "ok")
    BY <1>10 DEF Apply, ApplyAndFreeze
  <2>3. pc'[t] \in Appended \cup {"ok"} /\ \A u \in Txs : u # t => pc'[u] = pc[u] \/ pc'[u] = "ok"
    BY <2>2 DEF Goto, Answer, TypeOK, Appended
  <2>4. TxsIn(memtable \o Entries(batch[t])) = TxsIn(memtable) \cup Range(batch[t])
    BY <2>1, BatchWritten, TxsInConcat DEF TypeOK
  <2>5. TxsIn(memtable') \cup TxsIn(frozen') \subseteq Readable \cup Range(batch[t])
    <3>1. CASE Apply(t)
      BY <2>4, <3>1 DEF Apply, Readable
    <3>2. CASE ApplyAndFreeze(t)
      BY <1>0, <2>4, <3>2 DEF ApplyAndFreeze, Readable
    <3> QED BY <1>10, <3>1, <3>2
  <2>6. Written' \subseteq Written \cup Range(batch[t])
    <3>1. Logged' = Logged
      BY <2>1 DEF Logged
    <3>2. TxsIn(sstables') = TxsIn(sstables)
      BY <2>1
    <3>3. Readable' \subseteq Readable \cup Range(batch[t])
      BY <2>5, <3>2 DEF Readable
    <3> QED BY <3>1, <3>3 DEF Written
  <2> QED BY <2>1, <2>3, <2>6, BatchLands
<1>11. ASSUME NEW t \in Txs, FlushDone(t) PROVE NotWritten'
  <2>1. /\ pc[t] \in InFlight /\ UNCHANGED <<batch, pending_commit_queue>>
        /\ UNCHANGED <<log, memtable>> /\ pc'[t] = "ok"
        /\ \A u \in Txs : u # t => pc'[u] = pc[u] \/ pc'[u] = "ok"
    BY <1>11 DEF FlushDone, Answer, TypeOK, InFlight, Appended, leader
  <2>2. TxsIn(sstables') = TxsIn(sstables) \cup TxsIn(frozen) /\ TxsIn(frozen') = {}
    BY <1>0, <1>11, TxsInConcat DEF FlushDone, TypeOK
  <2>3. Written' \subseteq Written
    BY <2>1, <2>2 DEF Written, Logged, Readable
  <2> QED BY <2>1, <2>3, BatchLands
<1>12. ASSUME UNCHANGED vars PROVE NotWritten'
  <2>1. Written' = Written /\ Queued' = Queued /\ pc' = pc /\ batch' = batch
    BY <1>1, <1>12 DEF vars, leader, logs, store, Queued
  <2> QED BY <2>1 DEF NotWritten
<1> QED
  BY <1>2, <1>3, <1>4, <1>5, <1>6, <1>7, <1>8, <1>9, <1>10, <1>11, <1>12
  DEF Next, Commit, Done

\* A log that is poisoned stays poisoned.
LEMMA PoisonStays ==
  ASSUME TypeOK, [Next]_vars, Unpoisoned'
  PROVE  Unpoisoned
<1>1. poisoned' = poisoned \/ \E t \in Txs : poisoned' = [poisoned EXCEPT ![its_wal[t]] = TRUE]
  BY DEF Next, Commit, Done, vars, logs, Lead, Follow, Prepare, TakeQueue, QueueMissing,
     AppendBatch, AppendFails, AppendTorn, RollbackScan, RollbackTruncate, TruncateFails,
     Apply, ApplyAndFreeze, Applied, FlushDone, FollowerTimeout, DropQueue
<1> QED BY <1>1 DEF TypeOK, Unpoisoned

-----------------------------------------------------------------------------
\* CommitInv is an invariant of commit: every transaction has one owner, one
\* holder has commit_mutex, a rollback never truncates past the end of its log,
\* and what is not appended is not written.
THEOREM CommitInvariant == Spec => []CommitInv
<1>1. ASSUME CommitInv, [Next]_vars PROVE CommitInv'
  <2>1. TypeOK' /\ OneHolder' /\ OneOwner'
    BY <1>1, TypeStep, HolderStep, OwnerStep DEF CommitInv
  <2>2. ASSUME Unpoisoned' PROVE NotWritten'
    BY <1>1, <2>2, PoisonStays, WrittenStep DEF CommitInv
  <2> QED BY <2>1, <2>2 DEF CommitInv
<1> QED BY <1>1, CommitInit, PTL DEF Spec

\* The fields of LsmStorage, Wal and PendingCommitQueue and the locals of
\* commit keep their types, for every finite set of transactions and every
\* memtable_size_limit.
THEOREM CommitTypes == Spec => []TypeOK
<1>1. CommitInv => TypeOK
  BY DEF CommitInv
<1> QED BY <1>1, CommitInvariant, PTL

\* A commit that returned Err has left nothing in a log file, a memtable or
\* an SSTable, whatever other leaders, followers and timeouts do, as long as no
\* torn write has left part of a batch behind.
THEOREM ErrMeansAbsent == Spec => []FailedAbsent
<1>1. CommitInv => FailedAbsent
  <2> SUFFICES ASSUME CommitInv, Unpoisoned, NEW t \in Txs, pc[t] = "err"
               PROVE  t \notin OnDisk \cup Readable
    BY DEF FailedAbsent
  <2>1. OnDisk \cup Readable \subseteq Written
    <3>1. wal_files \subseteq Wals
      BY DEF CommitInv, TypeOK
    <3>2. UNION {TxsIn(log[w]) : w \in wal_files} \subseteq Logged
      BY <3>1 DEF Logged
    <3> QED BY <3>2 DEF OnDisk, Readable, Written
  <2> QED BY <2>1 DEF CommitInv, NotWritten
<1> QED BY <1>1, CommitInvariant, PTL

-----------------------------------------------------------------------------
(* Who is told Ok is readable, and on disk until the first flush.          *)

\* A failed commit and a follower that gave up stay what they are, and the active log
\* is never an older one: the conditions of the properties, once lost, stay lost.
LEMMA ConditionsStay ==
  ASSUME TypeOK, [Next]_vars
  PROVE  /\ NoneIn(GaveUp)' => NoneIn(GaveUp)
         /\ NoneIn(Failing)' => NoneIn(Failing)
         /\ Untruncated' => Untruncated
         /\ wal' = 0 => wal = 0
<1>0. Wals \subseteq Nat /\ wal \in Nat
  BY WalsType DEF TypeOK
<1> DEFINE Stays == /\ \A u \in Txs : pc[u] \in GaveUp => pc'[u] \in GaveUp
                    /\ \A u \in Txs : pc[u] \in Failing => pc'[u] \in Failing
<1>1. Stays
  <2>1. ASSUME NEW t \in Txs, NEW place, Goto(t, place), pc[t] \notin GaveUp,
               pc[t] \in Failing => place \in Failing
        PROVE  Stays
    BY <2>1 DEF Goto, TypeOK
  <2>2. ASSUME NEW t \in Txs, NEW result, Answer(t, result), pc[t] \notin GaveUp,
               pc[t] \in Failing => result \in Failing
        PROVE  Stays
    BY <2>2 DEF Answer, TypeOK, GaveUp, Failing
  <2>3. ASSUME NEW t \in Txs, Lead(t) \/ Follow(t) \/ TakeQueue(t) \/ QueueMissing(t)
                              \/ AppendBatch(t) \/ AppendFails(t) \/ AppendTorn(t)
                              \/ ApplyAndFreeze(t) \/ FollowerTimeout(t)
        PROVE  Stays
    <3>1. pc[t] \notin GaveUp \cup Failing /\ \E place \in Places : Goto(t, place)
      BY <2>3 DEF Lead, Follow, Prepare, TakeQueue, QueueMissing, AppendBatch, AppendFails,
         AppendTorn, ApplyAndFreeze, Applied, FollowerTimeout, GaveUp, Failing, Places, Answered
    <3> QED BY <2>1, <3>1
  <2>4. ASSUME NEW t \in Txs, Apply(t) \/ FlushDone(t) PROVE Stays
    <3>1. pc[t] \notin GaveUp \cup Failing /\ Answer(t, "ok")
      BY <2>4 DEF Apply, Applied, FlushDone, GaveUp, Failing
    <3> QED BY <2>2, <3>1
  <2>5. ASSUME NEW t \in Txs, RollbackScan(t) \/ RollbackTruncate(t) \/ TruncateFails(t)
        PROVE  Stays
    <3>1. /\ pc[t] \notin GaveUp /\ "err" \in Failing /\ "truncate" \in Failing
          /\ Answer(t, "err") \/ Goto(t, "truncate")
      BY <2>5 DEF RollbackScan, RollbackTruncate, TruncateFails, GaveUp, Failing
    <3> QED BY <2>1, <2>2, <3>1
  <2>6. ASSUME NEW t \in Txs, DropQueue(t) PROVE Stays
    BY <2>6 DEF DropQueue, TypeOK, GaveUp, Failing
  <2>7. ASSUME UNCHANGED vars PROVE Stays
    BY <2>7 DEF vars
  <2> QED BY <2>3, <2>4, <2>5, <2>6, <2>7 DEF Next, Commit, Done
<1>2. wal' = wal \/ wal' = wal + 1
  BY DEF Next, Commit, Done, vars, logs, Lead, Follow, Prepare, TakeQueue, QueueMissing,
     AppendBatch, AppendFails, AppendTorn, RollbackScan, RollbackTruncate, TruncateFails,
     Apply, ApplyAndFreeze, Applied, FlushDone, FollowerTimeout, DropQueue
<1>3. wal' = 0 => wal = 0
  BY <1>0, <1>2
<1>4. NoneIn(GaveUp)' => NoneIn(GaveUp)
  BY <1>1 DEF NoneIn
<1>5. NoneIn(Failing)' => NoneIn(Failing)
  BY <1>1 DEF NoneIn
<1> QED BY <1>3, <1>4, <1>5 DEF Untruncated

\* A rollback that truncates the active log ends Untruncated: the log that failed was
\* not poisoned, or is not the active one any more.
LEMMA TruncationShows ==
  ASSUME TypeOK, AckInv, NEW t \in Txs, RollbackTruncate(t)
  PROVE  ~Untruncated'
<1>1. pc'[t] = "err" /\ wal' = wal
  BY DEF RollbackTruncate, Answer, TypeOK
<1>2. ~NoneIn(Failing)'
  BY <1>1 DEF NoneIn, Failing
<1>3. "append error" \in Environment \/ poisoned[its_wal[t]]
  BY DEF RollbackTruncate, AckInv
<1>4. its_wal[t] <= wal /\ its_wal[t] \in Nat /\ wal \in Nat /\ ~poisoned[wal]
  BY WalsType DEF RollbackTruncate, AckInv, TypeOK
<1>5. wal = 0 => its_wal[t] = wal
  BY <1>4
<1> QED BY <1>1, <1>2, <1>3, <1>4, <1>5 DEF Untruncated

\* The greatest of finitely many naturals is not below any of them.
LEMMA MaxAbove ==
  ASSUME NEW S, S \subseteq Nat, S # {}, IsFiniteSet(S), NEW n \in S
  PROVE  n <= Max(S)
<1>1. PICK m \in S : \A k \in S : k <= m
  BY FiniteGreatest
<1>2. \E x \in S : \A y \in S : x >= y
  BY <1>1
<1>3. \A y \in S : Max(S) >= y
  BY <1>2 DEF Max
<1>4. Max(S) \in Nat
  BY MaxIsNat
<1> QED BY <1>3, <1>4

\* Applying a batch makes it and all before it visible.
LEMMA AppliedAbove ==
  ASSUME TypeOK, NEW t \in Txs, Applied(t)
  PROVE  /\ last_committed_tx <= last_committed_tx'
         /\ \A u \in Range(batch[t]) : u <= last_committed_tx'
<1> DEFINE S == {last_committed_tx} \cup Range(batch[t])
<1>1. IsFiniteSet(Range(batch[t])) /\ Range(batch[t]) \subseteq Txs
  BY BatchFinite, BatchType
<1>2. IsFiniteSet({last_committed_tx})
  BY FS_Singleton
<1>3. IsFiniteSet(S) /\ S # {} /\ S \subseteq Nat
  BY <1>1, <1>2, FS_Union, GroupAssumption DEF TypeOK
<1>4. \A n \in {last_committed_tx} \cup Range(batch[t]) : n \in S
  OBVIOUS
<1> HIDE DEF S
<1>5. \A n \in S : n <= Max(S)
  BY <1>3, MaxAbove
<1>6. last_committed_tx' = Max(S)
  BY DEF Applied, S
<1> QED BY <1>4, <1>5, <1>6

\* Nothing is acknowledged in a store without a commit.
LEMMA AckInit == Init => AckInv
BY WalsType DEF Init, AckInv

\* Every step keeps AckInv.
LEMMA AckStep ==
  ASSUME TypeOK, OneOwner, OneHolder, AckInv, [Next]_vars
  PROVE  AckInv'
<1>0. /\ wal \in Nat /\ Wals \subseteq Nat /\ Txs \subseteq Nat
      /\ last_committed_tx \in Nat /\ last_committed_tx' \in Nat
      /\ \A u \in Txs : its_wal[u] \in Nat
  BY WalsType, GroupAssumption, TypeStep DEF TypeOK
<1>a. Untruncated' => Untruncated
  BY ConditionsStay
<1>b. /\ wal \in wal_files /\ wal_files \subseteq 0 .. wal
      /\ (\A u \in Txs : pc[u] # "flush") => frozen = << >>
      /\ \A u \in Txs : its_wal[u] <= wal /\ (pc[u] = "flush" => its_wal[u] < wal)
  BY DEF AckInv
<1>c. \A u \in Txs : pc[u] = "ok" => u <= last_committed_tx
  BY DEF AckInv
<1>d. \A u \in Txs : pc[u] \in {"failed", "truncate"} =>
        "append error" \in Environment \/ poisoned[its_wal[u]]
  BY DEF AckInv
<1>1. ASSUME UNCHANGED <<wal, wal_files, log, poisoned, memtable, frozen, sstables,
                         last_committed_tx>>,
             \A u \in Txs : /\ pc[u] = "flush" => pc'[u] = "flush"
                            /\ pc'[u] \in {"ok", "flush", "apply"} =>
                                 pc'[u] = pc[u] /\ batch'[u] = batch[u] /\ its_wal'[u] = its_wal[u]
                            /\ its_wal'[u] <= wal
                            /\ pc'[u] \in {"failed", "truncate"} =>
                                 "append error" \in Environment \/ poisoned[its_wal'[u]]
      PROVE  AckInv'
  <2>1. Readable' = Readable
    BY <1>1 DEF Readable
  <2>2. (\A t \in Txs : pc'[t] # "flush") => frozen' = << >>
    BY <1>1 DEF AckInv
  <2>3. ASSUME NEW u \in Txs
        PROVE /\ its_wal'[u] <= wal' /\ (pc'[u] = "flush" => its_wal'[u] < wal')
              /\ pc'[u] = "ok" => u <= last_committed_tx'
              /\ pc'[u] = "flush" => \A v \in Range(batch'[u]) : v <= last_committed_tx'
              /\ pc'[u] \in {"failed", "truncate"} =>
                   "append error" \in Environment \/ poisoned'[its_wal'[u]]
    BY <1>1 DEF AckInv
  <2>4. Untruncated' =>
          \A t \in Txs : /\ pc'[t] = "ok" => t \in Readable'
                         /\ pc'[t] = "flush" => Range(batch'[t]) \subseteq Readable'
    BY <1>1, <1>a, <2>1 DEF AckInv
  <2>5. Untruncated' /\ wal' = 0 =>
          \A t \in Txs : /\ pc'[t] = "ok" => t \in TxsIn(log'[0])
                         /\ pc'[t] = "apply" => Range(batch'[t]) \subseteq TxsIn(log'[0])
    BY <1>1, <1>a DEF AckInv
  <2>6. wal' \in wal_files' /\ wal_files' \subseteq 0 .. wal'
    BY <1>1 DEF AckInv
  <2> QED BY <2>2, <2>3, <2>4, <2>5, <2>6 DEF AckInv
<1>2. ASSUME NEW t \in Txs, Lead(t) \/ Follow(t) \/ TakeQueue(t) PROVE AckInv'
  <2>1. UNCHANGED <<wal, wal_files, log, poisoned, memtable, frozen, sstables,
                    last_committed_tx>>
    BY <1>2 DEF Lead, Follow, Prepare, TakeQueue, logs, store
  <2>2. /\ \A u \in Txs : u # t => /\ pc'[u] = pc[u] /\ batch'[u] = batch[u]
                                   /\ its_wal'[u] = its_wal[u]
        /\ pc'[t] \in {"leader", "follower", "append"}
        /\ pc[t] \in {"start", "leader"}
        /\ its_wal'[t] = its_wal[t] \/ its_wal'[t] = wal
    BY <1>2 DEF Lead, Follow, Prepare, TakeQueue, Goto, leader, TypeOK
  <2>3. \A u \in Txs : /\ pc[u] = "flush" => pc'[u] = "flush"
                       /\ pc'[u] \in {"ok", "flush", "apply"} =>
                            pc'[u] = pc[u] /\ batch'[u] = batch[u] /\ its_wal'[u] = its_wal[u]
    BY <2>2
  <2>4. \A u \in Txs : its_wal'[u] <= wal
    BY <1>0, <1>b, <2>2
  <2>5. \A u \in Txs : pc'[u] \in {"failed", "truncate"} =>
          "append error" \in Environment \/ poisoned[its_wal'[u]]
    BY <1>d, <2>2
  <2> QED BY <1>1, <2>1, <2>3, <2>4, <2>5
<1>3. ASSUME NEW t \in Txs, QueueMissing(t) \/ FollowerTimeout(t) \/ AppendFails(t)
                            \/ DropQueue(t) \/ RollbackScan(t) \/ TruncateFails(t)
      PROVE AckInv'
  <2>1. UNCHANGED <<wal, wal_files, log, poisoned, memtable, frozen, sstables,
                    last_committed_tx, batch, its_wal>>
    BY <1>3 DEF QueueMissing, FollowerTimeout, AppendFails, DropQueue, RollbackScan,
       TruncateFails, leader, logs, store
  <2>2. ASSUME NEW u \in Txs
        PROVE  \/ pc'[u] = pc[u]
               \/ pc[u] # "flush" /\ pc'[u] \in {"expired", "timeout", "err"}
               \/ u = t /\ pc[u] = "failed" /\ pc'[u] = "truncate"
               \/ u = t /\ AppendFails(t) /\ pc[u] = "append" /\ pc'[u] = "failed"
    <3>1. CASE QueueMissing(t) \/ FollowerTimeout(t) \/ AppendFails(t)
      BY <3>1 DEF QueueMissing, FollowerTimeout, AppendFails, Goto, TypeOK
    <3>2. CASE DropQueue(t)
      BY <3>2 DEF DropQueue, TypeOK
    <3>3. CASE RollbackScan(t) \/ TruncateFails(t)
      <4>1. Answer(t, "err") \/ (Goto(t, "truncate") /\ pc[t] = "failed")
        BY <3>3 DEF RollbackScan, TruncateFails
      <4>2. pc[t] \in {"failed", "truncate"}
        BY <3>3 DEF RollbackScan, TruncateFails
      <4> QED BY <4>1, <4>2 DEF Answer, Goto, TypeOK
    <3> QED BY <1>3, <3>1, <3>2, <3>3
  <2>3. AppendFails(t) => "append error" \in Environment \/ poisoned[its_wal[t]]
    BY DEF AppendFails
  <2>4. \A u \in Txs : pc'[u] \in {"failed", "truncate"} =>
          "append error" \in Environment \/ poisoned[its_wal[u]]
    BY <2>2, <2>3 DEF AckInv
  <2>5. \A u \in Txs : its_wal'[u] <= wal
    BY <2>1 DEF AckInv
  <2>6. \A u \in Txs : /\ pc[u] = "flush" => pc'[u] = "flush"
                       /\ pc'[u] \in {"ok", "flush", "apply"} => pc'[u] = pc[u]
    BY <2>2
  <2> QED BY <1>1, <2>1, <2>4, <2>5, <2>6
<1>4. ASSUME NEW t \in Txs, AppendBatch(t) \/ AppendTorn(t) PROVE AckInv'
  <2>1. /\ UNCHANGED <<wal, wal_files, memtable, frozen, sstables, last_committed_tx, batch,
                       its_wal>>
        /\ \A u \in Txs : pc'[u] = IF u = t THEN pc'[t] ELSE pc[u]
        /\ pc[t] = "append"
        /\ \/ AppendBatch(t) /\ pc'[t] = "apply" /\ poisoned' = poisoned
           \/ AppendTorn(t) /\ pc'[t] = "failed" /\ poisoned' = [poisoned EXCEPT ![its_wal[t]] = TRUE]
    BY <1>4 DEF AppendBatch, AppendTorn, Goto, TypeOK, leader, logs, store
  <2>2. Readable' = Readable
    BY <2>1 DEF Readable
  <2>3. its_wal[t] \in Wals /\ log[its_wal[t]] \in Seq(Entry) /\ poisoned \in [Wals -> BOOLEAN]
        /\ \A u \in Txs : its_wal[u] \in Wals
    BY DEF TypeOK
  <2>4. \A w \in Wals : poisoned[w] => poisoned'[w]
    BY <2>1, <2>3
  <2>5. AppendTorn(t) => poisoned'[its_wal[t]]
    BY <2>3 DEF AppendTorn
  <2>6. \A w \in Wals : TxsIn(log[w]) \subseteq TxsIn(log'[w])
    <3>1. PICK es \in Seq(Entry) : log' = [log EXCEPT ![its_wal[t]] = @ \o es]
      <4>1. CASE AppendBatch(t)
        BY <4>1, BatchType DEF AppendBatch
      <4>2. CASE AppendTorn(t)
        <5>1. PICK n \in 0 .. Len(batch[t]) :
                log' = [log EXCEPT ![its_wal[t]] = @ \o SubSeq(Entries(batch[t]), 1, n)]
          BY <4>2 DEF AppendTorn
        <5>2. SubSeq(Entries(batch[t]), 1, n) \in Seq(Entry)
          BY BatchType, TxsInPrefix
        <5> QED BY <5>1, <5>2
      <4> QED BY <1>4, <4>1, <4>2
    <3>2. TxsIn(log[its_wal[t]] \o es) = TxsIn(log[its_wal[t]]) \cup TxsIn(es)
      BY <2>3, TxsInConcat
    <3>3. \A w \in Wals : log'[w] = IF w = its_wal[t] THEN log[its_wal[t]] \o es ELSE log[w]
      BY <2>3, <3>1 DEF TypeOK
    <3> QED BY <3>2, <3>3
  <2>7. pc'[t] = "apply" => Range(batch[t]) \subseteq TxsIn(log'[its_wal[t]])
    <3> SUFFICES ASSUME AppendBatch(t) PROVE Range(batch[t]) \subseteq TxsIn(log'[its_wal[t]])
      BY <2>1
    <3>1. log'[its_wal[t]] = log[its_wal[t]] \o Entries(batch[t])
      BY <2>3 DEF AppendBatch, TypeOK
    <3>2. Entries(batch[t]) \in Seq(Entry) /\ TxsIn(Entries(batch[t])) = Range(batch[t])
      BY <2>1, BatchWritten DEF InFlight
    <3> QED BY <2>3, <3>1, <3>2, TxsInConcat
  <2>8. wal' = 0 => its_wal[t] = 0 /\ 0 \in Wals
    BY <1>0, <1>b, <2>1, WalsType
  <2>9. (\A u \in Txs : pc'[u] # "flush") => frozen' = << >>
    BY <2>1 DEF AckInv
  <2>10. ASSUME NEW u \in Txs
         PROVE /\ its_wal'[u] <= wal' /\ (pc'[u] = "flush" => its_wal'[u] < wal')
               /\ pc'[u] = "ok" => u <= last_committed_tx'
               /\ pc'[u] = "flush" => \A v \in Range(batch'[u]) : v <= last_committed_tx'
               /\ pc'[u] \in {"failed", "truncate"} =>
                    "append error" \in Environment \/ poisoned'[its_wal'[u]]
    BY <2>1, <2>3, <2>4, <2>5 DEF AckInv
  <2>11. Untruncated' =>
          \A u \in Txs : /\ pc'[u] = "ok" => u \in Readable'
                         /\ pc'[u] = "flush" => Range(batch'[u]) \subseteq Readable'
    BY <1>a, <2>1, <2>2 DEF AckInv
  <2>12. Untruncated' /\ wal' = 0 =>
          \A u \in Txs : /\ pc'[u] = "ok" => u \in TxsIn(log'[0])
                         /\ pc'[u] = "apply" => Range(batch'[u]) \subseteq TxsIn(log'[0])
    BY <1>a, <2>1, <2>6, <2>7, <2>8 DEF AckInv
  <2> QED BY <2>1, <2>9, <2>10, <2>11, <2>12 DEF AckInv
<1>5. ASSUME NEW t \in Txs, RollbackTruncate(t) PROVE AckInv'
  <2>1. UNCHANGED <<wal, wal_files, frozen, last_committed_tx, batch, its_wal, poisoned>>
    BY <1>5 DEF RollbackTruncate, leader
  <2>2. \A u \in Txs : \/ pc'[u] = pc[u]
                       \/ pc[u] # "flush" /\ pc'[u] = "err"
    BY <1>5 DEF RollbackTruncate, Answer, TypeOK
  <2>3. ~Untruncated'
    BY <1>5, TruncationShows
  <2>4. (\A u \in Txs : pc'[u] # "flush") => frozen' = << >>
    BY <2>1, <2>2 DEF AckInv
  <2>5. \A u \in Txs :
          /\ its_wal'[u] <= wal' /\ (pc'[u] = "flush" => its_wal'[u] < wal')
          /\ pc'[u] = "ok" => u <= last_committed_tx'
          /\ pc'[u] = "flush" => \A v \in Range(batch'[u]) : v <= last_committed_tx'
          /\ pc'[u] \in {"failed", "truncate"} =>
               "append error" \in Environment \/ poisoned'[its_wal'[u]]
    BY <2>1, <2>2 DEF AckInv
  <2> QED BY <2>1, <2>3, <2>4, <2>5 DEF AckInv
<1>6. ASSUME NEW t \in Txs, Apply(t) \/ ApplyAndFreeze(t) PROVE AckInv'
  <2> DEFINE new == memtable \o Entries(batch[t])
  <2>1. /\ pc[t] = "apply" /\ Applied(t) /\ \A u \in Txs : pc[u] # "flush"
        /\ UNCHANGED <<batch, log, poisoned, sstables>>
    BY <1>6 DEF Apply, ApplyAndFreeze, Applied, CommitMutexFree
  <2>2. /\ Entries(batch[t]) \in Seq(Entry) /\ TxsIn(Entries(batch[t])) = Range(batch[t])
        /\ memtable \in Seq(Entry)
    BY <2>1, BatchWritten DEF InFlight, Appended, TypeOK
  <2>3. TxsIn(new) = TxsIn(memtable) \cup Range(batch[t])
    BY <2>2, TxsInConcat
  <2>4. /\ last_committed_tx <= last_committed_tx'
        /\ \A u \in Range(batch[t]) : u <= last_committed_tx'
    BY <2>1, AppliedAbove
  <2>5. frozen = << >> /\ TxsIn(<< >>) = {}
    BY <1>b, <2>1 DEF TxsIn, Range
  <2>6. t \in Range(batch[t]) /\ Range(batch[t]) \subseteq Txs
    BY <2>1, Members DEF OneOwner, InFlight, Appended
  <2>7. Readable' = Readable \cup Range(batch[t])
    <3>1. CASE Apply(t)
      <4>1. memtable' = new /\ frozen' = frozen
        BY <3>1 DEF Apply
      <4> QED BY <2>1, <2>3, <4>1 DEF Readable
    <3>2. CASE ApplyAndFreeze(t)
      <4>1. frozen' = new /\ memtable' = << >>
        BY <3>2 DEF ApplyAndFreeze
      <4> QED BY <2>1, <2>3, <2>5, <4>1 DEF Readable
    <3> QED BY <1>6, <3>1, <3>2
  <2> HIDE DEF new
  <2>8. CASE Apply(t)
    <3>1. UNCHANGED <<its_wal, wal, wal_files, frozen>>
      BY <2>8 DEF Apply
    <3>2. \A u \in Txs : \/ pc'[u] = pc[u] /\ u # t
                         \/ pc'[u] = "ok" /\ u \in Range(batch[t])
      BY <2>6, <2>8 DEF Apply, Answer, TypeOK
    <3>3. \A u \in Txs :
            /\ its_wal'[u] <= wal' /\ (pc'[u] = "flush" => its_wal'[u] < wal')
            /\ pc'[u] = "ok" => u <= last_committed_tx'
            /\ pc'[u] = "flush" => \A v \in Range(batch'[u]) : v <= last_committed_tx'
            /\ pc'[u] \in {"failed", "truncate"} =>
                 "append error" \in Environment \/ poisoned'[its_wal'[u]]
      <4> TAKE u \in Txs
      <4>1. pc'[u] = "ok" => u <= last_committed_tx'
        BY <1>0, <1>c, <2>4, <3>2
      <4>2. pc'[u] # "flush"
        BY <2>1, <3>2
      <4> QED BY <1>b, <1>d, <2>1, <3>1, <3>2, <4>1, <4>2
    <3>4. Untruncated' =>
            \A u \in Txs : /\ pc'[u] = "ok" => u \in Readable'
                           /\ pc'[u] = "flush" => Range(batch'[u]) \subseteq Readable'
      BY <1>a, <2>1, <2>7, <3>2 DEF AckInv
    <3>5. Untruncated' /\ wal' = 0 =>
            \A u \in Txs : /\ pc'[u] = "ok" => u \in TxsIn(log'[0])
                           /\ pc'[u] = "apply" => Range(batch'[u]) \subseteq TxsIn(log'[0])
      BY <1>a, <2>1, <3>1, <3>2 DEF AckInv
    <3> QED BY <2>5, <3>1, <3>3, <3>4, <3>5 DEF AckInv
  <2>9. CASE ApplyAndFreeze(t)
    <3>1. /\ wal' = wal + 1 /\ wal' \in wal_files' /\ wal' # 0
          /\ wal_files' \subseteq 0 .. wal'
          /\ its_wal' = [its_wal EXCEPT ![t] = wal]
      BY <1>0, <1>b, <2>9 DEF ApplyAndFreeze
    <3>2. \A u \in Txs : pc'[u] = IF u = t THEN "flush" ELSE pc[u]
      BY <2>9 DEF ApplyAndFreeze, Goto, TypeOK
    <3>3. \A u \in Txs : its_wal'[u] = (IF u = t THEN wal ELSE its_wal[u]) /\ its_wal[u] <= wal
      BY <3>1 DEF AckInv, TypeOK
    <3>4. \A u \in Txs : u # t /\ pc[u] \in {"failed", "truncate"} =>
            "append error" \in Environment \/ poisoned[its_wal[u]]
      BY DEF AckInv
    <3>5. \A u \in Txs : pc[u] = "ok" => u <= last_committed_tx'
      BY <1>0, <1>c, <2>4
    <3>6. \A u \in Txs :
            /\ its_wal'[u] <= wal' /\ (pc'[u] = "flush" => its_wal'[u] < wal')
            /\ pc'[u] = "ok" => u <= last_committed_tx'
            /\ pc'[u] = "flush" => \A v \in Range(batch'[u]) : v <= last_committed_tx'
            /\ pc'[u] \in {"failed", "truncate"} =>
                 "append error" \in Environment \/ poisoned'[its_wal'[u]]
      <4> TAKE u \in Txs
      <4>1. its_wal'[u] <= wal' /\ its_wal'[u] < wal'
        BY <1>0, <3>1, <3>3
      <4>2. pc'[u] = "flush" => u = t /\ batch'[u] = batch[t]
        BY <2>1, <3>2
      <4>3. pc'[u] \in {"failed", "truncate"} => u # t /\ pc[u] = pc'[u] /\ its_wal'[u] = its_wal[u]
        BY <3>2, <3>3
      <4>4. pc'[u] = "ok" => pc[u] = "ok"
        BY <3>2
      <4> QED BY <2>1, <2>4, <3>4, <3>5, <4>1, <4>2, <4>3, <4>4
    <3>7. Untruncated' =>
            \A u \in Txs : /\ pc'[u] = "ok" => u \in Readable'
                           /\ pc'[u] = "flush" => Range(batch'[u]) \subseteq Readable'
      BY <1>a, <2>1, <2>7, <3>2 DEF AckInv
    <3> QED BY <3>1, <3>2, <3>6, <3>7 DEF AckInv
  <2> QED BY <1>6, <2>8, <2>9
<1>7. ASSUME NEW t \in Txs, FlushDone(t) PROVE AckInv'
  <2>1. /\ pc[t] = "flush" /\ frozen' = << >>
        /\ UNCHANGED <<batch, its_wal, wal, log, poisoned, memtable, last_committed_tx>>
        /\ wal_files' = wal_files \ {its_wal[t]}
    BY <1>7 DEF FlushDone, leader
  <2>2. its_wal[t] < wal /\ its_wal[t] \in Nat
    BY <1>0, <2>1 DEF AckInv
  <2>3. \A u \in Txs : \/ pc'[u] = pc[u] /\ u # t
                       \/ pc'[u] = "ok" /\ u \in Range(batch[t])
    BY <1>7, <2>1 DEF FlushDone, Answer, TypeOK, OneOwner, InFlight, Appended
  <2>4. \A u \in Txs : pc'[u] # "flush"
    BY <2>1, <2>3 DEF OneHolder, Holding
  <2>5. Readable' = Readable
    <3>1. TxsIn(sstables') = TxsIn(sstables) \cup TxsIn(frozen)
      BY <1>7, TxsInConcat DEF FlushDone, TypeOK
    <3>2. TxsIn(frozen') = {}
      BY <2>1 DEF TxsIn, Range
    <3> QED BY <2>1, <3>1, <3>2 DEF Readable
  <2>6. wal' # 0
    BY <1>0, <2>1, <2>2
  <2>7. \A u \in Txs :
          /\ its_wal'[u] <= wal'
          /\ pc'[u] = "ok" => u <= last_committed_tx'
          /\ pc'[u] \in {"failed", "truncate"} =>
               "append error" \in Environment \/ poisoned'[its_wal'[u]]
    BY <2>1, <2>3 DEF AckInv
  <2>8. Untruncated' => \A u \in Txs : pc'[u] = "ok" => u \in Readable'
    BY <1>a, <2>1, <2>3, <2>5 DEF AckInv
  <2>9. wal' \in wal_files' /\ wal_files' \subseteq 0 .. wal'
    <3>1. wal # its_wal[t]
      BY <1>0, <2>2
    <3> QED BY <1>b, <2>1, <3>1
  <2> QED BY <2>1, <2>4, <2>6, <2>7, <2>8, <2>9 DEF AckInv
<1>8. ASSUME UNCHANGED vars PROVE AckInv'
  BY <1>8 DEF AckInv, Untruncated, NoneIn, Readable, vars, leader, logs, store
<1> QED
  BY <1>2, <1>3, <1>4, <1>5, <1>6, <1>7, <1>8 DEF Next, Commit, Done

\* AckInv is an invariant of commit.
LEMMA AckInvariant == Spec => []AckInv
<1>1. CommitInv /\ AckInv /\ [Next]_vars => AckInv'
  BY AckStep DEF CommitInv
<1> QED BY <1>1, AckInit, CommitInvariant, PTL DEF Spec

\* A commit that returned Ok is visible, and readable in a memtable or an SSTable, until
\* a rollback has truncated a log, whatever other leaders, flushes and timeouts do.
THEOREM OkMeansReadable == Spec => []AckedReadable
<1>1. AckInv => AckedReadable
  BY DEF AckInv, AckedReadable
<1> QED BY <1>1, AckInvariant, PTL

\* A commit that returned Ok is in a log that a restart replays, until a flush has
\* replaced the first log or a rollback has truncated it.
THEOREM OkMeansDurable == Spec => []DurableUntilFlush
<1>1. AckInv => DurableUntilFlush
  BY DEF AckInv, DurableUntilFlush, AckedDurable, OnDisk
<1> QED BY <1>1, AckInvariant, PTL

-----------------------------------------------------------------------------
(* Numbers increase along a log.                                           *)

\* What follows with greater numbers keeps a log in order.
LEMMA OrderedConcat ==
  ASSUME NEW es \in Seq(Entry), NEW fs \in Seq(Entry), SeqsIncrease(es), SeqsIncrease(fs),
         \A e \in Range(es) : \A f \in Range(fs) : e.seq < f.seq
  PROVE  SeqsIncrease(es \o fs)
<1>1. /\ Len(es \o fs) = Len(es) + Len(fs) /\ DOMAIN (es \o fs) = 1 .. Len(es) + Len(fs)
      /\ Len(es) \in Nat /\ Len(fs) \in Nat /\ DOMAIN es = 1 .. Len(es) /\ DOMAIN fs = 1 .. Len(fs)
      /\ \A i \in 1 .. Len(es) + Len(fs) :
           (es \o fs)[i] = IF i <= Len(es) THEN es[i] ELSE fs[i - Len(es)]
  OBVIOUS
<1>2. SUFFICES ASSUME NEW i \in 1 .. Len(es) + Len(fs), NEW j \in 1 .. Len(es) + Len(fs), i < j
               PROVE  (es \o fs)[i].seq < (es \o fs)[j].seq
  BY <1>1 DEF SeqsIncrease
<1>3. CASE j <= Len(es)
  BY <1>1, <1>2, <1>3 DEF SeqsIncrease
<1>4. CASE i > Len(es)
  <2>1. /\ i - Len(es) \in DOMAIN fs /\ j - Len(es) \in DOMAIN fs /\ i - Len(es) < j - Len(es)
        /\ (es \o fs)[i] = fs[i - Len(es)] /\ (es \o fs)[j] = fs[j - Len(es)]
    BY <1>1, <1>2, <1>4
  <2> QED BY <2>1 DEF SeqsIncrease
<1>5. CASE i <= Len(es) /\ j > Len(es)
  <2>1. /\ i \in DOMAIN es /\ j - Len(es) \in DOMAIN fs
        /\ (es \o fs)[i] = es[i] /\ (es \o fs)[j] = fs[j - Len(es)]
    BY <1>1, <1>2, <1>5
  <2>2. es[i] \in Range(es) /\ fs[j - Len(es)] \in Range(fs)
    BY <2>1 DEF Range
  <2> QED BY <2>1, <2>2
<1> QED BY <1>2, <1>3, <1>4, <1>5

\* A torn batch is in order like the whole one.
LEMMA OrderedPrefix ==
  ASSUME NEW es \in Seq(Entry), NEW n \in 0 .. Len(es), SeqsIncrease(es)
  PROVE  SeqsIncrease(SubSeq(es, 1, n)) /\ Range(SubSeq(es, 1, n)) \subseteq Range(es)
<1> DEFINE p == SubSeq(es, 1, n)
<1>1. p \in Seq(Entry) /\ Len(p) = n /\ \A i \in 1 .. n : p[i] = es[i]
  BY SubSeqProperties
<1>2. DOMAIN p = 1 .. n /\ DOMAIN es = 1 .. Len(es) /\ 1 .. n \subseteq 1 .. Len(es)
  BY <1>1
<1> HIDE DEF p
<1>3. SeqsIncrease(p)
  BY <1>1, <1>2 DEF SeqsIncrease
<1>4. Range(p) \subseteq Range(es)
  BY <1>1, <1>2 DEF Range
<1> QED BY <1>3, <1>4 DEF p

\* The entries of an ordered batch are in order.
LEMMA OrderedEntries ==
  ASSUME NEW ts \in Seq(Txs), Increasing(Seqs(ts)), entry \in [Txs -> Entry]
  PROVE  /\ SeqsIncrease(Entries(ts)) /\ Entries(ts) \in Seq(Entry)
         /\ Range(Entries(ts)) = {entry[u] : u \in Range(ts)}
<1>1. DOMAIN Entries(ts) = DOMAIN ts /\ DOMAIN Seqs(ts) = DOMAIN ts
  BY DEF Entries, Seqs
<1>2. \A i \in DOMAIN ts : Entries(ts)[i] = entry[ts[i]] /\ Seqs(ts)[i] = entry[ts[i]].seq
  BY DEF Entries, Seqs
<1>3. Range(Entries(ts)) = {entry[u] : u \in Range(ts)}
  BY <1>1, <1>2 DEF Range
<1> QED BY <1>1, <1>2, <1>3, TxsInEntries DEF SeqsIncrease, Increasing

\* A queue stays in order when its new last member has the greatest number.
LEMMA OrderedAppend ==
  ASSUME NEW ts \in Seq(Txs), NEW t \in Txs, NEW f,
         Increasing([i \in DOMAIN ts |-> f[ts[i]].seq]),
         \A u \in Range(ts) : f[u].seq < f[t].seq
  PROVE  Increasing([i \in DOMAIN Append(ts, t) |-> f[Append(ts, t)[i]].seq])
<1>1. /\ Len(ts) \in Nat /\ DOMAIN ts = 1 .. Len(ts)
      /\ DOMAIN Append(ts, t) = 1 .. Len(ts) + 1
      /\ \A i \in 1 .. Len(ts) : Append(ts, t)[i] = ts[i]
      /\ Append(ts, t)[Len(ts) + 1] = t
  OBVIOUS
<1>2. SUFFICES ASSUME NEW i \in 1 .. Len(ts) + 1, NEW j \in 1 .. Len(ts) + 1, i < j
               PROVE  f[Append(ts, t)[i]].seq < f[Append(ts, t)[j]].seq
  BY <1>1 DEF Increasing
<1>3. CASE j <= Len(ts)
  <2>1. i \in DOMAIN ts /\ j \in DOMAIN ts /\ Append(ts, t)[i] = ts[i] /\ Append(ts, t)[j] = ts[j]
    BY <1>1, <1>2, <1>3
  <2> QED BY <1>2, <2>1 DEF Increasing
<1>4. CASE j = Len(ts) + 1
  <2>1. i \in DOMAIN ts /\ Append(ts, t)[i] = ts[i] /\ Append(ts, t)[j] = t
    BY <1>1, <1>2, <1>4
  <2>2. ts[i] \in Range(ts)
    BY <2>1 DEF Range
  <2> QED BY <2>1, <2>2
<1>5. j <= Len(ts) \/ j = Len(ts) + 1
  BY <1>1, <1>2
<1> QED BY <1>3, <1>4, <1>5

\* A batch is in order when its leader has the least number.
LEMMA OrderedCons ==
  ASSUME NEW ts \in Seq(Txs), NEW t \in Txs, Increasing(Seqs(ts)),
         \A u \in Range(ts) : entry[t].seq < entry[u].seq
  PROVE  Increasing(Seqs(<<t>> \o ts))
<1>1. /\ Len(ts) \in Nat /\ DOMAIN ts = 1 .. Len(ts)
      /\ DOMAIN (<<t>> \o ts) = 1 .. Len(ts) + 1
      /\ (<<t>> \o ts)[1] = t
      /\ \A i \in 2 .. Len(ts) + 1 : (<<t>> \o ts)[i] = ts[i - 1] /\ i - 1 \in DOMAIN ts
  OBVIOUS
<1>2. SUFFICES ASSUME NEW i \in 1 .. Len(ts) + 1, NEW j \in 1 .. Len(ts) + 1, i < j
               PROVE  entry[(<<t>> \o ts)[i]].seq < entry[(<<t>> \o ts)[j]].seq
  BY <1>1 DEF Increasing, Seqs
<1>3. j \in 2 .. Len(ts) + 1
  BY <1>1, <1>2
<1>4. CASE i = 1
  <2>1. ts[j - 1] \in Range(ts) /\ (<<t>> \o ts)[j] = ts[j - 1]
    BY <1>1, <1>3 DEF Range
  <2> QED BY <1>1, <1>4, <2>1
<1>5. CASE i # 1
  <2>1. /\ i - 1 \in DOMAIN ts /\ j - 1 \in DOMAIN ts /\ i - 1 < j - 1
        /\ (<<t>> \o ts)[i] = ts[i - 1] /\ (<<t>> \o ts)[j] = ts[j - 1]
    BY <1>1, <1>2, <1>3, <1>5
  <2>2. Seqs(ts)[i - 1] < Seqs(ts)[j - 1]
    BY <2>1 DEF Increasing, Seqs
  <2> QED BY <2>1, <2>2 DEF Seqs
<1> QED BY <1>4, <1>5

\* No number is used in a store without a commit.
LEMMA OrderInit == Init => OrderInv
<1> SUFFICES ASSUME Init PROVE OrderInv
  OBVIOUS
<1>1. Range(<< >>) = {} /\ DOMAIN << >> = {}
  BY DEF Range
<1>2. ToAppend = {}
  BY <1>1 DEF Init, ToAppend, Queued, NoQueue
<1>3. Increasing(Seqs(pending_commit_queue.requests))
  BY <1>1 DEF Init, NoQueue, Increasing, Seqs
<1>4. \A w \in Wals : log[w] = << >>
  BY DEF Init
<1> QED BY <1>1, <1>2, <1>3, <1>4 DEF Init, OrderInv, NumbersUsed, OneLeader, EachInOrder,
   LaterGreater, SeqsIncrease

\* Every step after which nobody has given up and no log was truncated keeps OrderInv.
LEMMA OrderStep ==
  ASSUME TypeOK, OneOwner, AckInv, OrderInv, [Next]_vars, NoneIn(GaveUp)', Untruncated'
  PROVE  OrderInv'
<1>0. /\ \A u \in Txs : entry[u].seq \in Nat
      /\ next_seq_no \in Nat /\ entry \in [Txs -> Entry] /\ log \in [Wals -> Seq(Entry)]
      /\ batch \in [Txs -> Seq(Txs)] /\ pending_commit_queue.requests \in Seq(Txs)
      /\ its_wal \in [Txs -> Wals]
  BY DEF TypeOK, Entry
<1>a. Queued \subseteq Txs /\ ToAppend \subseteq Txs /\ \A t \in Txs : Range(batch[t]) \subseteq Txs
  BY Members DEF ToAppend
<1>b. \A w \in Wals : Range(log[w]) \subseteq Entry
  BY <1>0, RangeOfSeq
<1>c. NumbersUsed /\ OneLeader /\ EachInOrder /\ LaterGreater
  BY DEF OrderInv
<1>1. ASSUME UNCHANGED <<entry, pending_commit_queue, log, batch, next_seq_no>>,
             \A u \in Txs : /\ pc'[u] \in {"start", "leader"} => pc'[u] = pc[u]
                            /\ pc[u] = "start" => pc'[u] = "start"
                            /\ pc'[u] = "append" => pc[u] = "append" /\ its_wal'[u] = its_wal[u]
      PROVE  OrderInv'
  <2>1. Queued' = Queued /\ ToAppend' \subseteq ToAppend
    BY <1>1 DEF Queued, ToAppend
  <2>2. NumbersUsed'
    BY <1>1, <1>c DEF NumbersUsed
  <2>3. OneLeader'
    BY <1>1, <1>c DEF OneLeader
  <2>4. EachInOrder'
    BY <1>1, <1>c, <2>1 DEF EachInOrder, Seqs
  <2>5. LaterGreater'
    BY <1>1, <1>c, <2>1 DEF LaterGreater
  <2> QED BY <2>2, <2>3, <2>4, <2>5 DEF OrderInv
<1>2. ASSUME NEW t \in Txs, QueueMissing(t) \/ AppendFails(t) \/ ApplyAndFreeze(t)
      PROVE OrderInv'
  <2>1. UNCHANGED <<entry, pending_commit_queue, log, batch, next_seq_no>>
    BY <1>2 DEF QueueMissing, AppendFails, ApplyAndFreeze, Applied, leader, logs, store
  <2>2. /\ \A u \in Txs : u # t => pc'[u] = pc[u] /\ its_wal'[u] = its_wal[u]
        /\ pc'[t] \in {"err", "failed", "flush"} /\ pc[t] # "start"
    BY <1>2 DEF QueueMissing, AppendFails, ApplyAndFreeze, Applied, Goto, TypeOK, leader
  <2> QED BY <1>1, <2>1, <2>2
<1>3. ASSUME NEW t \in Txs, RollbackScan(t) \/ TruncateFails(t) \/ Apply(t) \/ FlushDone(t)
      PROVE OrderInv'
  <2>1. UNCHANGED <<entry, pending_commit_queue, log, batch, next_seq_no, its_wal>>
    BY <1>3 DEF RollbackScan, TruncateFails, Apply, Applied, FlushDone, leader, logs, store
  <2>2. \/ Goto(t, "truncate") /\ pc[t] # "start"
        \/ \E result \in {"ok", "err"} : Answer(t, result) /\ pc[t] # "start"
    BY <1>3 DEF RollbackScan, TruncateFails, Apply, Applied, FlushDone
  <2>3. \A u \in Txs : pc'[u] = pc[u] \/ (pc'[u] \in {"truncate", "ok", "err"} /\ pc[u] # "start")
    BY <2>2 DEF Goto, Answer, TypeOK
  <2> QED BY <1>1, <2>1, <2>3
<1>4. ASSUME NEW t \in Txs, RollbackTruncate(t) PROVE OrderInv'
  BY <1>4, TruncationShows
<1>5. ASSUME NEW t \in Txs, FollowerTimeout(t) \/ DropQueue(t) PROVE OrderInv'
  <2>1. pc'[t] \in GaveUp
    BY <1>5 DEF FollowerTimeout, DropQueue, Goto, TypeOK, GaveUp
  <2> QED BY <2>1 DEF NoneIn
<1>6. ASSUME NEW t \in Txs, AppendBatch(t) \/ AppendTorn(t) PROVE OrderInv'
  <2>1. /\ UNCHANGED <<entry, pending_commit_queue, batch, next_seq_no, its_wal>>
        /\ pc[t] = "append" /\ pc'[t] \in {"apply", "failed"}
        /\ \A u \in Txs : u # t => pc'[u] = pc[u]
    BY <1>6 DEF AppendBatch, AppendTorn, Goto, TypeOK, leader, store
  <2>2. /\ SeqsIncrease(Entries(batch[t])) /\ Entries(batch[t]) \in Seq(Entry)
        /\ Range(Entries(batch[t])) = {entry[u] : u \in Range(batch[t])}
    BY <1>0, <1>c, <2>1, OrderedEntries DEF EachInOrder
  <2>3. PICK es \in Seq(Entry) : /\ log' = [log EXCEPT ![its_wal[t]] = @ \o es]
                                 /\ SeqsIncrease(es) /\ Range(es) \subseteq Range(Entries(batch[t]))
    <3>1. CASE AppendBatch(t)
      BY <2>2, <3>1 DEF AppendBatch
    <3>2. CASE AppendTorn(t)
      <4>1. PICK n \in 0 .. Len(batch[t]) :
              log' = [log EXCEPT ![its_wal[t]] = @ \o SubSeq(Entries(batch[t]), 1, n)]
        BY <3>2 DEF AppendTorn
      <4>2. n \in 0 .. Len(Entries(batch[t]))
        BY BatchType
      <4>3. SubSeq(Entries(batch[t]), 1, n) \in Seq(Entry)
        BY <2>2, <4>2, TxsInPrefix
      <4> QED BY <2>2, <4>1, <4>2, <4>3, OrderedPrefix
    <3> QED BY <1>6, <3>1, <3>2
  <2>4. its_wal[t] \in Wals /\ log[its_wal[t]] \in Seq(Entry)
    BY <1>0
  <2>5. \A w \in Wals : log'[w] = IF w = its_wal[t] THEN log[its_wal[t]] \o es ELSE log[w]
    BY <1>0, <2>3, <2>4
  <2>6. \A e \in Range(es) : \E v \in Range(batch[t]) : e = entry[v]
    BY <2>2, <2>3
  <2>7. \A w \in Wals : \A e \in Range(log'[w]) :
          e \in Range(log[w]) \/ (w = its_wal[t] /\ \E v \in Range(batch[t]) : e = entry[v])
    <3>1. Range(log[its_wal[t]] \o es) = Range(log[its_wal[t]]) \cup Range(es)
      BY <2>4, RangeConcatenation
    <3> QED BY <2>5, <2>6, <3>1
  <2>8. Queued' = Queued /\ ToAppend' = ToAppend
    BY <2>1 DEF Queued, ToAppend
  <2>9. NumbersUsed'
    <3>1. \A v \in Range(batch[t]) : entry[v].seq < next_seq_no
      BY <1>a, <1>c, <2>1 DEF NumbersUsed, OneOwner, InFlight, Waiting
    <3> QED BY <1>c, <2>1, <2>7, <3>1 DEF NumbersUsed
  <2>10. OneLeader'
    BY <1>c, <2>1 DEF OneLeader
  <2>11. EachInOrder'
    <3>1. \A e \in Range(log[its_wal[t]]) : \A f \in Range(es) : e.seq < f.seq
      BY <1>c, <2>1, <2>6 DEF LaterGreater
    <3>2. SeqsIncrease(log[its_wal[t]] \o es)
      BY <1>c, <2>3, <2>4, <3>1, OrderedConcat DEF EachInOrder
    <3>3. \A w \in Wals : SeqsIncrease(log'[w])
      BY <1>c, <2>5, <3>2 DEF EachInOrder
    <3> QED BY <1>c, <2>1, <2>8, <3>3 DEF EachInOrder, Seqs
  <2>12. LaterGreater'
    <3>1. \A u \in ToAppend : \A w \in Wals : \A e \in Range(log'[w]) : e.seq < entry[u].seq
      BY <1>c, <2>1, <2>7 DEF LaterGreater
    <3>2. ASSUME NEW v \in Txs, pc'[v] = "append"
          PROVE  pc[v] = "append" /\ log'[its_wal[v]] = log[its_wal[v]]
      <4>1. v # t /\ pc[v] = "append"
        BY <2>1, <3>2
      <4>2. its_wal[v] # its_wal[t]
        BY <1>c, <2>1, <4>1 DEF OneLeader
      <4> QED BY <1>0, <2>5, <4>1, <4>2
    <3> QED BY <1>c, <2>1, <2>8, <3>1, <3>2 DEF LaterGreater
  <2> QED BY <2>9, <2>10, <2>11, <2>12 DEF OrderInv
<1>7. ASSUME NEW t \in Txs, TakeQueue(t) PROVE OrderInv'
  <2>1. /\ UNCHANGED <<entry, log, next_seq_no>>
        /\ pc[t] = "leader" /\ pc'[t] = "append" /\ \A u \in Txs : u # t => pc'[u] = pc[u]
        /\ batch'[t] = <<t>> \o pending_commit_queue.requests
        /\ \A u \in Txs : u # t => batch'[u] = batch[u] /\ its_wal'[u] = its_wal[u]
        /\ its_wal'[t] = wal
        /\ pending_commit_queue' = NoQueue
        /\ \A u \in Txs : ~(pc[u] = "append" /\ its_wal[u] = wal)
    BY <1>7 DEF TakeQueue, TruncateLockFree, Goto, TypeOK, logs, store
  <2>2. Range(batch'[t]) = {t} \cup Queued
    BY <2>1, RangeTaken, Zenon
  <2>3. Range(<< >>) = {} /\ DOMAIN << >> = {}
    BY DEF Range
  <2>4. Queued' = {} /\ \A u \in Txs : pc'[u] # "leader"
    BY <1>c, <2>1, <2>3 DEF Queued, NoQueue, OneLeader
  <2>5. ToAppend' = {} /\ {t} \cup Queued \subseteq ToAppend
    BY <2>1, <2>4 DEF ToAppend
  <2>6. NumbersUsed'
    BY <1>c, <2>1 DEF NumbersUsed
  <2>7. OneLeader'
    BY <1>c, <2>1, <2>4 DEF OneLeader
  <2>8. EachInOrder'
    <3>1. Increasing(Seqs(<<t>> \o pending_commit_queue.requests))
      BY <1>0, <1>c, <2>1, OrderedCons DEF EachInOrder, Queued
    <3>2. \A u \in Txs : pc'[u] = "append" => Increasing(Seqs(batch[u])')
      <4> SUFFICES ASSUME NEW u \in Txs, pc'[u] = "append" PROVE Increasing(Seqs(batch[u])')
        OBVIOUS
      <4>1. CASE u = t
        <5>1. Seqs(batch[u])' = Seqs(<<t>> \o pending_commit_queue.requests)
          BY <2>1, <4>1 DEF Seqs
        <5> QED BY <3>1, <5>1
      <4>2. CASE u # t
        <5>1. Seqs(batch[u])' = Seqs(batch[u]) /\ pc[u] = "append"
          BY <2>1, <4>2 DEF Seqs
        <5> QED BY <1>c, <5>1 DEF EachInOrder
      <4> QED BY <4>1, <4>2
    <3>3. Increasing(Seqs(pending_commit_queue.requests)')
      BY <2>1, <2>3 DEF Seqs, NoQueue, Increasing
    <3> QED BY <1>c, <2>1, <2>4, <3>2, <3>3 DEF EachInOrder
  <2>9. LaterGreater'
    <3>1. ASSUME NEW u \in Txs, pc'[u] = "append", NEW v \in Range(batch'[u]),
                 NEW e \in Range(log[its_wal'[u]])
          PROVE  e.seq < entry[v].seq
      <4>1. CASE u = t
        <5>1. wal \in Wals
          BY DEF TypeOK
        <5> QED BY <1>c, <2>1, <2>2, <2>5, <3>1, <4>1, <5>1 DEF LaterGreater
      <4>2. CASE u # t
        BY <1>c, <2>1, <3>1, <4>2 DEF LaterGreater
      <4> QED BY <4>1, <4>2
    <3> QED BY <2>1, <2>5, <3>1 DEF LaterGreater
  <2> QED BY <2>6, <2>7, <2>8, <2>9 DEF OrderInv
<1>8. ASSUME NEW t \in Txs, Lead(t) \/ Follow(t) PROVE OrderInv'
  <2>1. /\ UNCHANGED <<log, batch, its_wal>> /\ next_seq_no' = next_seq_no + 1
        /\ pc[t] = "start" /\ entry'[t].seq = next_seq_no
        /\ \A u \in Txs : u # t => entry'[u] = entry[u]
    BY <1>8, <1>0 DEF Lead, Follow, Prepare, leader
  <2>2. /\ \A u \in Txs : u # t => pc'[u] = pc[u]
        /\ pc'[t] \in {"leader", "follower"}
    BY <1>8 DEF Lead, Follow, Goto, TypeOK
  <2>3. t \notin Queued /\ \A v \in Txs : pc[v] \in InFlight => v # t /\ t \notin Range(batch[v])
    BY <2>1, Unowned
  <2>4. Range(<< >>) = {} /\ DOMAIN << >> = {}
    BY DEF Range
  <2>5. \/ /\ Lead(t) /\ pending_commit_queue'.requests = << >> /\ pc'[t] = "leader"
           /\ Queued' = {} /\ \A u \in Txs : pc[u] # "leader"
        \/ /\ Follow(t) /\ pc'[t] = "follower" /\ Queued' = Queued \cup {t}
           /\ pending_commit_queue'.requests = Append(pending_commit_queue.requests, t)
    <3>1. CASE Lead(t)
      BY <1>c, <2>4, <3>1 DEF Lead, Goto, TypeOK, Queued, OneLeader
    <3>2. CASE Follow(t)
      <4>1. Queued' = Range(pending_commit_queue.requests) \cup {t}
        BY <1>0, <3>2, RangeAppended DEF Follow, Queued
      <4> QED BY <3>2, <4>1 DEF Follow, Goto, TypeOK, Queued
    <3> QED BY <1>8, <3>1, <3>2
  <2>6. pending_commit_queue'.open
    BY <1>8 DEF Lead, Follow
  <2>7. ToAppend' \subseteq ToAppend \cup {t}
    BY <2>2, <2>5 DEF ToAppend
  <2>8. t \notin ToAppend
    BY <2>1, <2>3 DEF ToAppend
  <2>9. NumbersUsed'
    <3>1. \A u \in Txs : pc'[u] # "start" => entry'[u].seq < next_seq_no'
      <4> TAKE u \in Txs
      <4>1. CASE u = t
        BY <1>0, <2>1, <4>1
      <4>2. CASE u # t
        <5>1. pc'[u] # "start" => entry'[u].seq < next_seq_no
          BY <1>c, <2>1, <2>2, <4>2 DEF NumbersUsed
        <5>2. entry'[u].seq \in Nat
          BY <1>0, <2>1, <4>2
        <5> QED BY <1>0, <2>1, <5>1, <5>2
      <4> QED BY <4>1, <4>2
    <3>2. \A w \in Wals : \A e \in Range(log'[w]) : e.seq < next_seq_no'
      BY <1>0, <1>b, <1>c, <2>1 DEF NumbersUsed, Entry
    <3> QED BY <3>1, <3>2 DEF NumbersUsed
  <2>10. OneLeader'
    BY <1>c, <2>1, <2>2, <2>5, <2>6 DEF OneLeader
  <2>11. \A u \in Queued \cup {v \in Txs : pc[v] # "start"} : entry[u].seq < next_seq_no
    BY <1>a, <1>c DEF NumbersUsed, OneOwner, Waiting
  <2>12. EachInOrder'
    <3>1. \A v \in Txs : pc'[v] = "append" => pc[v] = "append" /\ v # t
      BY <2>2
    <3>2. \A v \in Txs : pc'[v] = "append" => Seqs(batch[v])' = Seqs(batch[v])
      <4> SUFFICES ASSUME NEW v \in Txs, pc'[v] = "append" PROVE Seqs(batch[v])' = Seqs(batch[v])
        OBVIOUS
      <4>1. \A i \in DOMAIN batch[v] : batch[v][i] \in Range(batch[v])
        BY DEF Range
      <4>2. \A i \in DOMAIN batch[v] : entry'[batch[v][i]] = entry[batch[v][i]]
        BY <1>a, <2>1, <2>3, <3>1, <4>1 DEF InFlight
      <4> QED BY <2>1, <4>2 DEF Seqs
    <3>3. Increasing(Seqs(pending_commit_queue.requests)')
      <4>1. CASE Lead(t)
        BY <2>4, <2>5, <4>1 DEF Increasing, Seqs, Lead, Follow
      <4>2. CASE Follow(t)
        <5> DEFINE ts == pending_commit_queue.requests
        <5>1. \A i \in DOMAIN ts : ts[i] \in Range(ts)
          BY DEF Range
        <5>2. \A i \in DOMAIN ts : entry'[ts[i]] = entry[ts[i]]
          BY <1>a, <2>1, <2>3, <5>1 DEF Queued
        <5>3. Increasing([i \in DOMAIN ts |-> entry'[ts[i]].seq])
          BY <1>c, <5>2 DEF EachInOrder, Seqs
        <5>4. \A u \in Range(ts) : entry'[u].seq < entry'[t].seq
          BY <1>a, <2>1, <2>3, <2>11 DEF Queued
        <5>5. pending_commit_queue'.requests = Append(ts, t)
          BY <4>2 DEF Follow
        <5>6. Increasing([i \in DOMAIN Append(ts, t) |-> entry'[Append(ts, t)[i]].seq])
          <6> HIDE DEF ts
          <6>1. ts \in Seq(Txs)
            BY <1>0 DEF ts
          <6> QED BY <5>3, <5>4, <6>1, OrderedAppend
        <5> QED BY <5>5, <5>6 DEF Seqs
      <4> QED BY <1>8, <4>1, <4>2
    <3>4. \A v \in Txs : pc'[v] = "leader" => \A u \in Queued' : entry'[v].seq < entry'[u].seq
      <4>1. CASE Queued' = {}
        BY <4>1
      <4>2. CASE Queued' = Queued \cup {t} /\ pc'[t] = "follower"
        BY <1>a, <1>c, <2>1, <2>2, <2>3, <2>11, <4>2 DEF EachInOrder
      <4> QED BY <2>5, <4>1, <4>2
    <3> QED BY <1>c, <2>1, <3>1, <3>2, <3>3, <3>4 DEF EachInOrder
  <2>13. LaterGreater'
    <3>1. \A u \in ToAppend' : (u \in ToAppend /\ entry'[u] = entry[u]) \/ u = t
      BY <1>a, <2>1, <2>7, <2>8
    <3>2. \A u \in ToAppend' : \A w \in Wals : \A e \in Range(log[w]) : e.seq < entry'[u].seq
      BY <1>c, <2>1, <3>1 DEF LaterGreater, NumbersUsed
    <3>3. ASSUME NEW v \in Txs, pc'[v] = "append", NEW x \in Range(batch[v])
          PROVE  /\ \A u \in ToAppend' : entry'[x].seq < entry'[u].seq
                 /\ \A e \in Range(log[its_wal[v]]) : e.seq < entry'[x].seq
      <4>1. pc[v] = "append" /\ x # t /\ x \in Txs
        BY <1>a, <2>2, <2>3, <3>3 DEF InFlight
      <4>2. entry'[x] = entry[x] /\ entry[x].seq < next_seq_no
        <5>1. pc[x] # "start"
          BY <3>3, <4>1 DEF OneOwner, InFlight, Waiting
        <5> QED BY <2>1, <2>11, <4>1, <5>1
      <4> QED BY <1>c, <2>1, <3>1, <3>3, <4>1, <4>2 DEF LaterGreater
    <3> QED BY <2>1, <3>2, <3>3 DEF LaterGreater
  <2> QED BY <2>9, <2>10, <2>12, <2>13 DEF OrderInv
<1>9. ASSUME UNCHANGED vars PROVE OrderInv'
  BY <1>1, <1>9 DEF vars, leader, logs, store
<1> QED
  BY <1>2, <1>3, <1>4, <1>5, <1>6, <1>7, <1>8, <1>9 DEF Next, Commit, Done

\* Sequence numbers increase strictly along every log, however leaders and flushes
\* interleave, until a follower gives up or a rollback truncates a log.
THEOREM LogsInOrder == Spec => []LogInOrder
<1>1. Init => OrderInvariant
  BY OrderInit DEF OrderInvariant
<1>2. CommitInv /\ AckInv /\ OrderInvariant /\ [Next]_vars => OrderInvariant'
  BY OrderStep, ConditionsStay DEF OrderInvariant, CommitInv
<1>3. CommitInv /\ OrderInvariant => LogInOrder
  BY DEF CommitInv, TypeOK, OrderInvariant, OrderInv, EachInOrder, LogInOrder
<1> QED BY <1>1, <1>2, <1>3, CommitInvariant, AckInvariant, PTL DEF Spec

-----------------------------------------------------------------------------
(* The chain of HMACs.                                                     *)

\* A log that a linked batch is appended to stays chained, and ends with the batch.
LEMMA ChainedConcat ==
  ASSUME NEW es \in Seq(Entry), NEW ts \in Seq(Txs), entry \in [Txs -> Entry], Chained(es),
         Links(entry, HmacAt(es, Len(es)), ts), \A u \in Range(ts) : entry[u].tx = u
  PROVE  /\ Chained(es \o Entries(ts))
         /\ HmacAt(es \o Entries(ts), Len(es \o Entries(ts))) = LastOf(HmacAt(es, Len(es)), ts)
<1> DEFINE fs == Entries(ts)
           all == es \o fs
<1>0. fs \in Seq(Entry) /\ Len(fs) = Len(ts) /\ \A i \in 1 .. Len(ts) : fs[i] = entry[ts[i]]
  BY TxsInEntries DEF Entries
<1>1. /\ Len(es) \in Nat /\ Len(ts) \in Nat /\ DOMAIN es = 1 .. Len(es) /\ DOMAIN ts = 1 .. Len(ts)
      /\ \A i \in 1 .. Len(ts) : ts[i] \in Range(ts)
  BY DEF Range
<1> HIDE DEF fs
<1>2. /\ Len(all) = Len(es) + Len(ts) /\ DOMAIN all = 1 .. Len(es) + Len(ts)
      /\ \A i \in 1 .. Len(es) + Len(ts) :
           all[i] = IF i <= Len(es) THEN es[i] ELSE fs[i - Len(es)]
  <2>1. fs \in Seq(Entry) /\ Len(fs) = Len(ts)
    BY <1>0
  <2>2. /\ Len(es \o fs) = Len(es) + Len(fs) /\ DOMAIN (es \o fs) = 1 .. Len(es) + Len(fs)
        /\ \A i \in 1 .. Len(es) + Len(fs) :
             (es \o fs)[i] = IF i <= Len(es) THEN es[i] ELSE fs[i - Len(es)]
    BY <2>1
  <2> QED BY <2>1, <2>2
<1> HIDE DEF all
<1>3. \A i \in 1 .. Len(ts) : fs[i].tx = ts[i]
  BY <1>0, <1>1
<1>4. \A i \in 0 .. Len(es) : HmacAt(all, i) = HmacAt(es, i)
  BY <1>1, <1>2 DEF HmacAt
<1>5. \A i \in 1 .. Len(ts) : HmacAt(all, Len(es) + i) = ts[i]
  <2> TAKE i \in 1 .. Len(ts)
  <2>1. Len(es) + i \in 1 .. Len(es) + Len(ts) /\ ~(Len(es) + i <= Len(es))
        /\ Len(es) + i - Len(es) = i /\ Len(es) + i # 0
    BY <1>1
  <2> QED BY <1>2, <1>3, <2>1 DEF HmacAt
<1>6. ASSUME NEW i \in DOMAIN all PROVE all[i].prev = HmacAt(all, i - 1)
  <2>1. CASE i <= Len(es)
    <3>1. i \in DOMAIN es /\ all[i] = es[i] /\ i - 1 \in 0 .. Len(es)
      BY <1>1, <1>2, <2>1
    <3> QED BY <1>4, <3>1 DEF Chained
  <2>2. CASE ~(i <= Len(es))
    <3> DEFINE k == i - Len(es)
    <3>1. k \in 1 .. Len(ts) /\ all[i] = fs[k] /\ i = Len(es) + k
      BY <1>1, <1>2, <2>2
    <3>2. all[i].prev = IF k = 1 THEN HmacAt(es, Len(es)) ELSE ts[k - 1]
      BY <1>0, <1>1, <3>1 DEF Links
    <3>3. CASE k = 1
      <4>1. i - 1 = Len(es) /\ Len(es) \in 0 .. Len(es)
        BY <1>1, <3>1, <3>3
      <4> QED BY <1>4, <3>2, <3>3, <4>1
    <3>4. CASE k # 1
      <4>1. i - 1 = Len(es) + (k - 1) /\ k - 1 \in 1 .. Len(ts)
        BY <1>1, <3>1, <3>4
      <4> QED BY <1>5, <3>2, <3>4, <4>1
    <3> QED BY <3>3, <3>4
  <2> QED BY <2>1, <2>2
<1>7. Chained(all)
  BY <1>6 DEF Chained
<1>8. HmacAt(all, Len(all)) = LastOf(HmacAt(es, Len(es)), ts)
  <2>1. CASE ts = << >>
    <3>1. Len(ts) = 0 /\ Len(all) = Len(es) /\ Len(es) \in 0 .. Len(es)
      BY <1>1, <1>2, <2>1
    <3> QED BY <1>4, <2>1, <3>1 DEF LastOf
  <2>2. CASE ts # << >>
    <3>1. Len(ts) \in 1 .. Len(ts)
      BY <1>1, <2>2
    <3> QED BY <1>2, <1>5, <2>2, <3>1 DEF LastOf
  <2> QED BY <2>1, <2>2
<1> QED BY <1>7, <1>8 DEF all, fs

\* A queue is linked to its new last member.
LEMMA LinkedAppend ==
  ASSUME NEW ts \in Seq(Txs), NEW t \in Txs, NEW f, NEW prev, Links(f, prev, ts),
         f[t].prev = LastOf(prev, ts)
  PROVE  Links(f, prev, Append(ts, t)) /\ LastOf(prev, Append(ts, t)) = t
<1>1. /\ Len(ts) \in Nat /\ DOMAIN ts = 1 .. Len(ts)
      /\ DOMAIN Append(ts, t) = 1 .. Len(ts) + 1 /\ Len(Append(ts, t)) = Len(ts) + 1
      /\ \A i \in 1 .. Len(ts) : Append(ts, t)[i] = ts[i]
      /\ Append(ts, t)[Len(ts) + 1] = t /\ Append(ts, t) # << >>
  OBVIOUS
<1>2. ASSUME NEW i \in DOMAIN Append(ts, t)
      PROVE  f[Append(ts, t)[i]].prev = IF i = 1 THEN prev ELSE Append(ts, t)[i - 1]
  <2>1. CASE i <= Len(ts)
    BY <1>1, <2>1 DEF Links
  <2>2. CASE i = Len(ts) + 1
    <3>1. CASE Len(ts) = 0
      BY <1>1, <2>2, <3>1 DEF LastOf
    <3>2. CASE Len(ts) # 0
      <4>1. ts # << >> /\ i # 1 /\ i - 1 = Len(ts) /\ i - 1 \in 1 .. Len(ts)
        BY <1>1, <2>2, <3>2
      <4> QED BY <1>1, <2>2, <4>1 DEF LastOf
    <3> QED BY <3>1, <3>2
  <2> QED BY <1>1, <2>1, <2>2
<1> QED BY <1>1, <1>2 DEF LastOf, Links

\* The batch a leader takes is linked.
LEMMA LinkedCons ==
  ASSUME NEW ts \in Seq(Txs), NEW t \in Txs, Links(entry, t, ts)
  PROVE  /\ Links(entry, entry[t].prev, <<t>> \o ts) /\ <<t>> \o ts # << >>
         /\ \A h : LastOf(h, <<t>> \o ts) = LastOf(t, ts)
<1>1. /\ Len(ts) \in Nat /\ DOMAIN ts = 1 .. Len(ts)
      /\ DOMAIN (<<t>> \o ts) = 1 .. Len(ts) + 1 /\ Len(<<t>> \o ts) = Len(ts) + 1
      /\ (<<t>> \o ts)[1] = t
      /\ \A i \in 2 .. Len(ts) + 1 : (<<t>> \o ts)[i] = ts[i - 1] /\ i - 1 \in DOMAIN ts
  OBVIOUS
<1>2. ASSUME NEW i \in DOMAIN (<<t>> \o ts)
      PROVE  entry[(<<t>> \o ts)[i]].prev = IF i = 1 THEN entry[t].prev ELSE (<<t>> \o ts)[i - 1]
  <2>1. CASE i = 1
    BY <1>1, <2>1
  <2>2. CASE i = 2
    <3>1. i \in 2 .. Len(ts) + 1 /\ i - 1 = 1
      BY <1>1, <2>2
    <3> QED BY <1>1, <2>2, <3>1 DEF Links
  <2>3. CASE i > 2
    <3>1. i \in 2 .. Len(ts) + 1 /\ i - 1 \in 2 .. Len(ts) + 1 /\ i - 1 # 1
      BY <1>1, <2>3
    <3>2. entry[ts[i - 1]].prev = ts[i - 1 - 1]
      BY <1>1, <3>1 DEF Links
    <3> QED BY <1>1, <3>1, <3>2
  <2> QED BY <1>1, <2>1, <2>2, <2>3
<1>3. <<t>> \o ts # << >>
  BY <1>1
<1>4. ASSUME NEW h PROVE LastOf(h, <<t>> \o ts) = LastOf(t, ts)
  <2>1. CASE ts = << >>
    <3>1. Len(ts) = 0
      BY <2>1
    <3> QED BY <1>1, <1>3, <2>1, <3>1 DEF LastOf
  <2>2. CASE ts # << >>
    <3>1. Len(ts) # 0
      BY <2>2
    <3>2. Len(ts) + 1 \in 2 .. Len(ts) + 1 /\ Len(ts) + 1 - 1 = Len(ts)
      BY <1>1, <3>1
    <3> QED BY <1>1, <1>3, <2>2, <3>2 DEF LastOf
  <2> QED BY <2>1, <2>2
<1> QED BY <1>2, <1>3, <1>4 DEF Links

\* The chain of an empty log.
LEMMA ChainInit == Init => ChainInv
<1> SUFFICES ASSUME Init PROVE ChainUpTo(ZERO)
  BY DEF ChainInv
<1>1. 0 \in Wals
  BY WalsType
<1>2. log[0] = << >> /\ last_hmac[0] = ZERO
  BY <1>1 DEF Init
<1>3. Appending = {} /\ Leading = {}
  BY DEF Init, Appending, Leading
<1> QED BY <1>2, <1>3 DEF Init, ChainUpTo, NoQueue, LogEnd, HmacAt, Chained

\* Every step after which nobody has given up, no append has failed and the first log is
\* active keeps ChainInv.
LEMMA ChainStep ==
  ASSUME TypeOK, OneOwner, AckInv, ChainInv, [Next]_vars, NoneIn(GaveUp \cup Failing)',
         NoneIn(GaveUp \cup Failing), wal = 0, wal' = 0
  PROVE  ChainInv'
<1>0. /\ 0 \in Wals /\ log[0] \in Seq(Entry) /\ log \in [Wals -> Seq(Entry)]
      /\ last_hmac \in [Wals -> Txs \cup {ZERO}] /\ entry \in [Txs -> Entry]
      /\ batch \in [Txs -> Seq(Txs)] /\ pending_commit_queue.requests \in Seq(Txs)
  BY WalsType DEF TypeOK
<1>1. PICK h \in Txs \cup {ZERO} : ChainUpTo(h)
  BY DEF ChainInv
<1>2. \A u \in Txs : its_wal[u] = 0
  <2>1. \A u \in Txs : its_wal[u] \in Nat /\ its_wal[u] <= 0
    BY WalsType DEF TypeOK, AckInv
  <2> QED BY <2>1
<1>3. ASSUME UNCHANGED <<log, last_hmac, entry, batch, pending_commit_queue>>,
             Appending' = Appending, Leading' = Leading
      PROVE  ChainInv'
  <2>1. ChainUpTo(h)'
    BY <1>1, <1>3 DEF ChainUpTo, LogEnd, Links
  <2> QED BY <2>1 DEF ChainInv
<1>4. ASSUME NEW t \in Txs, Lead(t) PROVE ChainInv'
  <2>1. /\ UNCHANGED <<log, batch>> /\ pc[t] = "start" /\ ~pending_commit_queue.open
        /\ entry'[t].prev = last_hmac[0] /\ \A u \in Txs : u # t => entry'[u] = entry[u]
        /\ last_hmac'[0] = t
        /\ pending_commit_queue'.open /\ pending_commit_queue'.requests = << >>
    BY <1>0, <1>4 DEF Lead, Prepare, leader
  <2>2. \A u \in Txs : pc'[u] = IF u = t THEN "leader" ELSE pc[u]
    BY <1>4 DEF Lead, Goto, TypeOK
  <2>3. Leading = {} /\ last_hmac[0] = h
    BY <1>1, <2>1 DEF ChainUpTo
  <2>4. Leading' = {t} /\ Appending' = Appending
    BY <2>1, <2>2, <2>3 DEF Leading, Appending
  <2>5. \A v \in Appending : Links(entry, LogEnd, batch[v])'
    <3> SUFFICES ASSUME NEW v \in Appending PROVE Links(entry, LogEnd, batch[v])'
      OBVIOUS
    <3>1. \A i \in DOMAIN batch[v] : batch[v][i] \in Txs /\ batch[v][i] # t
      <4>1. t \notin Range(batch[v]) /\ Range(batch[v]) \subseteq Txs
        BY <2>1, Unowned, Members DEF Appending, InFlight
      <4> QED BY <4>1 DEF Range
    <3> QED BY <1>1, <2>1, <3>1 DEF ChainUpTo, Links, LogEnd
  <2>6. Links(entry, t, << >>)' /\ LastOf(t, << >>) = t
    BY DEF Links, LastOf
  <2>7. ChainUpTo(h)'
    BY <1>1, <2>1, <2>3, <2>4, <2>5, <2>6 DEF ChainUpTo, LogEnd, Links
  <2> QED BY <2>7 DEF ChainInv
<1>5. ASSUME NEW t \in Txs, Follow(t) PROVE ChainInv'
  <2> DEFINE ts == pending_commit_queue.requests
  <2>1. /\ UNCHANGED <<log, batch>> /\ pc[t] = "start" /\ pending_commit_queue.open
        /\ entry'[t].prev = last_hmac[0] /\ \A u \in Txs : u # t => entry'[u] = entry[u]
        /\ last_hmac'[0] = t
        /\ pending_commit_queue'.open /\ pending_commit_queue'.requests = Append(ts, t)
    BY <1>0, <1>5 DEF Follow, Prepare, leader
  <2>2. \A u \in Txs : pc'[u] = IF u = t THEN "follower" ELSE pc[u]
    BY <1>5 DEF Follow, Goto, TypeOK
  <2>3. PICK l \in Txs : Leading = {l} /\ l # t
    BY <1>1, <2>1 DEF ChainUpTo, Leading
  <2>4. Leading' = {l} /\ Appending' = Appending
    BY <2>1, <2>2, <2>3 DEF Leading, Appending
  <2>5. \A v \in Appending : Links(entry, LogEnd, batch[v])'
    <3> SUFFICES ASSUME NEW v \in Appending PROVE Links(entry, LogEnd, batch[v])'
      OBVIOUS
    <3>1. \A i \in DOMAIN batch[v] : batch[v][i] \in Txs /\ batch[v][i] # t
      <4>1. t \notin Range(batch[v]) /\ Range(batch[v]) \subseteq Txs
        BY <2>1, Unowned, Members DEF Appending, InFlight
      <4> QED BY <4>1 DEF Range
    <3> QED BY <1>1, <2>1, <3>1 DEF ChainUpTo, Links, LogEnd
  <2>6. Links(entry', l, ts)
    <3>1. \A i \in DOMAIN ts : ts[i] \in Txs /\ ts[i] # t
      <4>1. t \notin Queued /\ Queued \subseteq Txs
        BY <2>1, Unowned, Members
      <4> QED BY <4>1 DEF Queued, Range
    <3> QED BY <1>1, <2>1, <2>3, <3>1 DEF ChainUpTo, Links
  <2>7. entry'[t].prev = LastOf(l, ts) /\ entry'[l] = entry[l] /\ entry[l].prev = h
    BY <1>1, <2>1, <2>3 DEF ChainUpTo
  <2>8. Links(entry', l, Append(ts, t)) /\ LastOf(l, Append(ts, t)) = t
    <3>1. ts \in Seq(Txs)
      BY <1>0
    <3> HIDE DEF ts
    <3> QED BY <2>6, <2>7, <3>1, LinkedAppend
  <2>9. Links(entry, l, pending_commit_queue.requests)'
    BY <2>1, <2>8 DEF Links
  <2>10. ChainUpTo(h)'
    <3>1. Chained(log'[0]) /\ LogEnd' = LogEnd
      BY <1>1, <2>1 DEF ChainUpTo, LogEnd
    <3>2. Appending' = {} => h = LogEnd'
      BY <1>1, <2>4, <3>1 DEF ChainUpTo
    <3>3. \A v \in Appending' : /\ Appending' = {v} /\ batch'[v] # << >>
                                /\ Links(entry, LogEnd, batch[v])' /\ h = LastOf(LogEnd', batch'[v])
      BY <1>1, <2>1, <2>4, <2>5, <3>1 DEF ChainUpTo
    <3> HIDE DEF ts
    <3>4. \A v \in Leading' : /\ Leading' = {v} /\ pending_commit_queue'.open
                              /\ entry'[v].prev = h /\ v = l
                              /\ last_hmac'[0] = LastOf(v, pending_commit_queue'.requests)
      BY <2>1, <2>4, <2>7, <2>8
    <3> QED BY <2>4, <2>9, <3>1, <3>2, <3>3, <3>4 DEF ChainUpTo
  <2> QED BY <2>10 DEF ChainInv
<1>6. ASSUME NEW t \in Txs, TakeQueue(t) PROVE ChainInv'
  <2> DEFINE ts == pending_commit_queue.requests
  <2>1. /\ UNCHANGED <<log, entry, last_hmac>> /\ pc[t] = "leader"
        /\ batch'[t] = <<t>> \o ts
        /\ pending_commit_queue' = NoQueue
        /\ \A u \in Txs : ~(pc[u] = "append" /\ its_wal[u] = 0)
        /\ \A u \in Txs : pc'[u] = IF u = t THEN "append" ELSE pc[u]
    BY <1>6 DEF TakeQueue, TruncateLockFree, Goto, TypeOK, logs
  <2>2. Appending = {} /\ t \in Leading
    BY <1>2, <2>1 DEF Appending, Leading
  <2>3. Leading = {t} /\ h = LogEnd /\ entry[t].prev = h /\ Links(entry, t, ts) /\ last_hmac[0] = LastOf(t, ts)
    BY <1>1, <2>2 DEF ChainUpTo
  <2>4. Leading' = {} /\ Appending' = {t}
    BY <2>1, <2>2, <2>3 DEF Leading, Appending
  <2>5. /\ Links(entry, LogEnd, <<t>> \o ts) /\ <<t>> \o ts # << >>
        /\ LastOf(LogEnd, <<t>> \o ts) = LastOf(t, ts)
    BY <1>0, <2>3, LinkedCons
  <2>6. last_hmac[0] \in Txs \cup {ZERO} /\ LogEnd' = LogEnd
    BY <1>0, <2>1 DEF LogEnd
  <2>7. Links(entry, LogEnd, batch[t])'
    BY <2>1, <2>5, <2>6 DEF Links
  <2>8. Chained(log'[0])
    BY <1>1, <2>1 DEF ChainUpTo
  <2> HIDE DEF ts
  <2>9. ChainUpTo(last_hmac[0])'
    <3>1. \A v \in Appending' : /\ Appending' = {v} /\ batch'[v] # << >>
                                /\ Links(entry, LogEnd, batch[v])'
                                /\ last_hmac'[0] = LastOf(LogEnd', batch'[v])
      BY <2>1, <2>3, <2>4, <2>5, <2>6, <2>7
    <3>2. ~pending_commit_queue'.open /\ Appending' # {}
      BY <2>1, <2>4 DEF NoQueue
    <3> QED BY <2>4, <2>8, <3>1, <3>2 DEF ChainUpTo
  <2>10. last_hmac'[0] = last_hmac[0]
    BY <2>1
  <2> QED BY <2>6, <2>9, <2>10 DEF ChainInv
<1>7. ASSUME NEW t \in Txs, AppendBatch(t) PROVE ChainInv'
  <2>1. /\ UNCHANGED <<entry, batch, pending_commit_queue, last_hmac>> /\ pc[t] = "append"
        /\ log'[0] = log[0] \o Entries(batch[t])
        /\ \A u \in Txs : pc'[u] = IF u = t THEN "apply" ELSE pc[u]
    BY <1>0, <1>2, <1>7 DEF AppendBatch, Goto, TypeOK, leader
  <2>2. /\ t \in Appending /\ Appending = {t} /\ Links(entry, LogEnd, batch[t])
        /\ h = LastOf(LogEnd, batch[t]) /\ Chained(log[0])
    BY <1>1, <2>1 DEF ChainUpTo, Appending
  <2>3. \A u \in Range(batch[t]) : entry[u].tx = u
    BY <2>1, Members DEF OneOwner, InFlight, Waiting
  <2>4. batch[t] \in Seq(Txs)
    BY <1>0
  <2>5. /\ Chained(log[0] \o Entries(batch[t]))
        /\ HmacAt(log[0] \o Entries(batch[t]), Len(log[0] \o Entries(batch[t]))) = h
    BY <1>0, <2>2, <2>3, <2>4, ChainedConcat DEF LogEnd
  <2>6. Appending' = {} /\ Leading' = Leading
    BY <2>1, <2>2 DEF Appending, Leading
  <2>7. Chained(log'[0]) /\ h = LogEnd'
    BY <2>1, <2>5 DEF LogEnd
  <2>8. ChainUpTo(h)'
    BY <1>1, <2>1, <2>6, <2>7 DEF ChainUpTo, Links
  <2> QED BY <2>8 DEF ChainInv
<1>8. ASSUME NEW t \in Txs, Apply(t) \/ FlushDone(t) PROVE ChainInv'
  <2>1. UNCHANGED <<log, last_hmac, entry, batch, pending_commit_queue>>
    BY <1>8 DEF Apply, Applied, FlushDone, leader
  <2>2. \A u \in Txs : \/ pc'[u] = pc[u]
                       \/ pc[u] \in {"follower", "apply", "flush"} /\ pc'[u] = "ok"
    BY <1>8 DEF Apply, Applied, FlushDone, Answer, TypeOK
  <2>3. Appending' = Appending /\ Leading' = Leading
    BY <2>2 DEF Appending, Leading
  <2> QED BY <1>3, <2>1, <2>3
<1>9. ASSUME NEW t \in Txs, ApplyAndFreeze(t) PROVE ChainInv'
  BY <1>9 DEF ApplyAndFreeze
<1>10. ASSUME NEW t \in Txs, \/ QueueMissing(t) \/ AppendFails(t) \/ AppendTorn(t)
                             \/ RollbackScan(t) \/ RollbackTruncate(t) \/ TruncateFails(t)
                             \/ FollowerTimeout(t) \/ DropQueue(t)
       PROVE ChainInv'
  <2>1. pc[t] \in GaveUp \cup Failing \/ pc'[t] \in GaveUp \cup Failing
    <3>1. CASE RollbackScan(t) \/ RollbackTruncate(t) \/ TruncateFails(t)
      BY <3>1 DEF RollbackScan, RollbackTruncate, TruncateFails, Failing
    <3>2. CASE DropQueue(t)
      BY <3>2 DEF DropQueue, GaveUp
    <3>3. CASE QueueMissing(t) \/ AppendFails(t) \/ AppendTorn(t) \/ FollowerTimeout(t)
      <4>1. \E place \in GaveUp \cup Failing : Goto(t, place)
        BY <3>3 DEF QueueMissing, AppendFails, AppendTorn, FollowerTimeout, GaveUp, Failing
      <4>2. pc \in [Txs -> Places]
        BY DEF TypeOK
      <4> QED BY <4>1, <4>2 DEF Goto
    <3> QED BY <1>10, <3>1, <3>2, <3>3
  <2> QED BY <2>1 DEF NoneIn
<1>11. ASSUME UNCHANGED vars PROVE ChainInv'
  BY <1>3, <1>11 DEF vars, leader, logs, Appending, Leading
<1> QED
  BY <1>4, <1>5, <1>6, <1>7, <1>8, <1>9, <1>10, <1>11 DEF Next, Commit, Done

\* The log that a restart replays passes the check of its HMAC chain, in whichever order
\* leaders prepare, append and apply, until a commit fails or a flush replaces the log.
THEOREM ChainsIntact == Spec => []ChainIntact
<1>1. Init => ChainInvariant
  BY ChainInit DEF ChainInvariant
<1>2. CommitInv /\ AckInv /\ ChainInvariant /\ [Next]_vars => ChainInvariant'
  <2> SUFFICES ASSUME CommitInv, AckInv, ChainInvariant, [Next]_vars,
                      NoneIn(GaveUp \cup Failing)', wal' = 0
               PROVE  ChainInv'
    BY DEF ChainInvariant
  <2>1. TypeOK /\ OneOwner
    BY DEF CommitInv
  <2>2. NoneIn(GaveUp \cup Failing) /\ wal = 0
    <3>1. NoneIn(GaveUp)' /\ NoneIn(Failing)'
      BY DEF NoneIn
    <3>2. NoneIn(GaveUp) /\ NoneIn(Failing) /\ wal = 0
      BY <2>1, <3>1, ConditionsStay
    <3> QED BY <3>2 DEF NoneIn
  <2> QED BY <2>1, <2>2, ChainStep DEF ChainInvariant
<1>3. CommitInv /\ AckInv /\ ChainInvariant => ChainIntact
  <2> SUFFICES ASSUME CommitInv, AckInv, ChainInvariant, NoneIn(GaveUp \cup Failing), wal = 0,
                      NEW w \in wal_files
               PROVE  Chained(log[w])
    BY DEF ChainIntact
  <2>1. w = 0
    <3>1. wal_files \subseteq 0 .. wal
      BY DEF AckInv
    <3> QED BY <3>1
  <2> QED BY <2>1 DEF ChainInvariant, ChainInv, ChainUpTo
<1> QED BY <1>1, <1>2, <1>3, CommitInvariant, AckInvariant, PTL DEF Spec
=============================================================================
