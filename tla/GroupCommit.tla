----------------------------- MODULE GroupCommit -----------------------------
(***************************************************************************)
(* commit with group_commit_window_micros > 0, the default                  *)
(* (contextra-store/src/lsm/ops/write.rs): concurrent transactions prepare  *)
(* their log entries under commit_mutex; the first becomes the leader, the  *)
(* others queue behind it; the leader appends the whole batch without       *)
(* commit_mutex, takes it again to apply the batch, flushes the memtable if *)
(* it is full, and answers its followers.                                   *)
(*                                                                         *)
(* Data.  A transaction is its TxId, and writes one entry; callers may       *)
(* commit in any order of TxIds.  The HMAC of an entry is named by its       *)
(* TxId, 0 is the HMAC a log starts from.  commit_mutex is held from one     *)
(* step to the next only by a rollback or a flush, a truncate_lock only by   *)
(* an append, so both are read off the program counters.  Calls of flush()   *)
(* from outside commit, failing flushes, compaction and restarts are in      *)
(* LsmTree.                                                                  *)
(***************************************************************************)
EXTENDS Integers, Sequences, SequencesExt, FiniteSetsExt

CONSTANTS Txs,                  \* the transactions, by TxId
          memtable_size_limit,  \* LsmConfig, in entries
          encryption_at_rest,   \* the Cargo feature, off by default
          Environment           \* which of Events can happen

\* A follower's tx_timeout runs out; an append fails and leaves the file as it
\* was; an append fails after part of the batch was written.
Events == {"timeout", "append error", "torn write"}

ASSUME GroupAssumption ==
    /\ Txs \subseteq Nat \ {0} /\ IsFiniteSet(Txs)
    /\ memtable_size_limit \in Nat /\ encryption_at_rest \in BOOLEAN
    /\ Environment \subseteq Events

ZERO    == 0                    \* [0u8; 32]
NoEntry == [tx |-> 0, seq |-> 0, prev |-> ZERO]
NoQueue == [open |-> FALSE, requests |-> << >>, first_prev_hmac |-> ZERO]

VARIABLES pc,                   \* each transaction's place in commit
          entry,                \* its prepared entry
          batch, first_prev,    \* a leader's batch, and the HMAC before it
          its_wal,              \* the log a leader's next step works on
          keep,                 \* a rollback's truncation point, in entries
          pending_commit_queue,
          wal,                  \* the active log
          wal_files,            \* the log files on disk
          log, last_hmac, poisoned,   \* of each log
          memtable, frozen, sstables, \* entries in the order of their puts
          last_committed_tx, next_seq_no

leader == <<batch, first_prev, its_wal, keep>>
logs   == <<wal, wal_files, log, last_hmac, poisoned>>
store  == <<memtable, frozen, sstables, last_committed_tx, next_seq_no>>
vars   == <<pc, entry, leader, pending_commit_queue, logs, store>>

Wals == 0 .. Cardinality(Txs)   \* bound: one log per flush, at most one flush per transaction

Init ==
    /\ pc = [t \in Txs |-> "start"]
    /\ entry = [t \in Txs |-> NoEntry]
    /\ batch = [t \in Txs |-> << >>] /\ first_prev = [t \in Txs |-> ZERO]
    /\ its_wal = [t \in Txs |-> 0] /\ keep = [t \in Txs |-> 0]
    /\ pending_commit_queue = NoQueue
    /\ wal = 0 /\ wal_files = {0}
    /\ log = [w \in Wals |-> << >>] /\ last_hmac = [w \in Wals |-> ZERO]
    /\ poisoned = [w \in Wals |-> FALSE]
    /\ memtable = << >> /\ frozen = << >> /\ sstables = << >>
    /\ last_committed_tx = 0 /\ next_seq_no = 0

-----------------------------------------------------------------------------
CommitMutexFree == \A t \in Txs : pc[t] \notin {"truncate", "flush"}

\* Mutant: the leader does not wait for the append before its own.
TruncateLockFree_Never(w) == TRUE
TruncateLockFree(w) == \A t \in Txs : ~(pc[t] = "append" /\ its_wal[t] = w)

Goto(t, place) == pc' = [pc EXCEPT ![t] = place]

\* Mutant: only the leader learns the result.
Answer_LeaderOnly(t, result) == pc' = [pc EXCEPT ![t] = result]

\* The leader returns, and sends the result to its followers; one that gave
\* up has dropped its receiver.
Answer(t, result) ==
    pc' = [u \in Txs |->
              IF u = t \/ (pc[u] = "follower" /\ u \in Range(batch[t])) THEN result
              ELSE pc[u]]

Entries(ts) == [i \in DOMAIN ts |-> entry[ts[i]]]

-----------------------------------------------------------------------------
(* Phases 1 and 2, under commit_mutex.                                     *)

\* Mutant: the number before the one that was fetched.
Prepare_SeqBefore(t) ==
    /\ pc[t] = "start" /\ CommitMutexFree
    /\ next_seq_no' = next_seq_no + 1
    /\ entry' = [entry EXCEPT ![t] = [tx |-> t, seq |-> next_seq_no - 1, prev |-> last_hmac[wal]]]
    /\ last_hmac' = [last_hmac EXCEPT ![wal] = t]
    /\ UNCHANGED <<leader, wal, wal_files, log, poisoned, memtable, frozen, sstables,
                   last_committed_tx>>

\* The sequence number, and prepare_batch on the active log.
Prepare(t) ==
    /\ pc[t] = "start" /\ CommitMutexFree
    /\ next_seq_no' = next_seq_no + 1
    /\ entry' = [entry EXCEPT ![t] = [tx |-> t, seq |-> next_seq_no, prev |-> last_hmac[wal]]]
    /\ last_hmac' = [last_hmac EXCEPT ![wal] = t]
    /\ UNCHANGED <<leader, wal, wal_files, log, poisoned, memtable, frozen, sstables,
                   last_committed_tx>>

Lead(t) ==
    /\ Prepare(t) /\ ~pending_commit_queue.open
    /\ pending_commit_queue' =
          [open |-> TRUE, requests |-> << >>, first_prev_hmac |-> last_hmac[wal]]
    /\ Goto(t, "leader")

Follow(t) ==
    /\ Prepare(t) /\ pending_commit_queue.open
    /\ pending_commit_queue' =
          [open |-> TRUE, requests |-> Append(pending_commit_queue.requests, t),
           first_prev_hmac |-> pending_commit_queue.first_prev_hmac]
    /\ Goto(t, "follower")

-----------------------------------------------------------------------------
(* The leader's append.                                                    *)

\* After the window, under commit_mutex: whatever queue is there, the active
\* log, and its truncate_lock.
TakeQueue(t) ==
    /\ pc[t] = "leader" /\ CommitMutexFree
    /\ pending_commit_queue.open /\ TruncateLockFree(wal)
    /\ batch' = [batch EXCEPT ![t] = <<t>> \o pending_commit_queue.requests]
    /\ first_prev' = [first_prev EXCEPT ![t] = pending_commit_queue.first_prev_hmac]
    /\ its_wal' = [its_wal EXCEPT ![t] = wal]
    /\ pending_commit_queue' = NoQueue
    /\ Goto(t, "append")
    /\ UNCHANGED <<entry, keep, logs, store>>

\* "Group commit queue invariant violated".
QueueMissing(t) ==
    /\ pc[t] = "leader" /\ CommitMutexFree /\ ~pending_commit_queue.open
    /\ Goto(t, "err")
    /\ UNCHANGED <<entry, leader, pending_commit_queue, logs, store>>

\* Mutant: the followers' entries are not in the batch.
AppendBatch_LeaderOnly(t) ==
    /\ pc[t] = "append" /\ ~poisoned[its_wal[t]]
    /\ log' = [log EXCEPT ![its_wal[t]] = Append(@, entry[t])]
    /\ Goto(t, "apply")
    /\ UNCHANGED <<entry, leader, pending_commit_queue, wal, wal_files, last_hmac, poisoned,
                   store>>

\* write and fsync by the flusher actor; a removed file still takes them.
AppendBatch(t) ==
    /\ pc[t] = "append" /\ ~poisoned[its_wal[t]]
    /\ log' = [log EXCEPT ![its_wal[t]] = @ \o Entries(batch[t])]
    /\ Goto(t, "apply")
    /\ UNCHANGED <<entry, leader, pending_commit_queue, wal, wal_files, last_hmac, poisoned,
                   store>>

AppendFails(t) ==
    /\ pc[t] = "append"
    /\ poisoned[its_wal[t]] \/ "append error" \in Environment
    /\ Goto(t, "failed")
    /\ UNCHANGED <<entry, leader, pending_commit_queue, logs, store>>

\* The write or the fsync fails with the file longer than its known size.
AppendTorn(t) ==
    /\ pc[t] = "append" /\ ~poisoned[its_wal[t]] /\ "torn write" \in Environment
    /\ \E n \in 0 .. Len(batch[t]) :
          log' = [log EXCEPT ![its_wal[t]] = @ \o SubSeq(Entries(batch[t]), 1, n)]
    /\ poisoned' = [poisoned EXCEPT ![its_wal[t]] = TRUE]
    /\ Goto(t, "failed")
    /\ UNCHANGED <<entry, leader, pending_commit_queue, wal, wal_files, last_hmac, store>>

-----------------------------------------------------------------------------
(* After a failed append, under commit_mutex: rollback_to_tx_locked.       *)

\* verify_and_update_v3: each entry names the HMAC before it.
HmacAt(es, i) == IF i = 0 THEN ZERO ELSE es[i].tx
Chained(es) == \A i \in DOMAIN es : es[i].prev = HmacAt(es, i - 1)

\* find_tx_offset: the entries in front of the first one above the target.
\* Without the feature the scan never calls back.
Kept(es, target) ==
    IF ~encryption_at_rest THEN 0
    ELSE Max({n \in 0 .. Len(es) : \A i \in 1 .. n : es[i].tx <= target})

\* restore_last_hmac on the leader's log, then the scan of the active one.
RollbackScan(t) ==
    /\ pc[t] = "failed" /\ CommitMutexFree
    /\ last_hmac' = [last_hmac EXCEPT ![its_wal[t]] = first_prev[t]]
    /\ IF encryption_at_rest /\ ~Chained(log[wal])
       THEN Answer(t, "err") /\ UNCHANGED keep
       ELSE Goto(t, "truncate") /\ keep' = [keep EXCEPT ![t] = Kept(log[wal], last_committed_tx)]
    /\ UNCHANGED <<entry, batch, first_prev, its_wal, pending_commit_queue, wal, wal_files,
                   log, poisoned, store>>

\* truncate waits for the append that holds truncate_lock; the memtable is
\* rebuilt from what is left of the active log.
RollbackTruncate(t) ==
    /\ pc[t] = "truncate" /\ TruncateLockFree(wal) /\ ~poisoned[wal]
    /\ LET left == SubSeq(log[wal], 1, keep[t])
       IN  /\ log' = [log EXCEPT ![wal] = left]
           /\ last_hmac' = [last_hmac EXCEPT ![wal] = HmacAt(left, Len(left))]
           /\ memtable' = left
           /\ next_seq_no' = 1 + Max({0} \cup {e.seq : e \in Range(left \o sstables)})
    /\ Answer(t, "err")
    /\ UNCHANGED <<entry, leader, pending_commit_queue, wal, wal_files, poisoned, frozen,
                   sstables, last_committed_tx>>

\* A poisoned log refuses the truncation; the rollback stops there.
TruncateFails(t) ==
    /\ pc[t] = "truncate" /\ TruncateLockFree(wal) /\ poisoned[wal]
    /\ Answer(t, "err")
    /\ UNCHANGED <<entry, leader, pending_commit_queue, logs, store>>

-----------------------------------------------------------------------------
(* After the append, under commit_mutex.                                   *)

\* Mutant: only the leader's transaction becomes visible.
Applied_LeaderTx(t) ==
    /\ pc[t] = "apply" /\ CommitMutexFree
    /\ last_committed_tx' = Max({last_committed_tx, t})
    /\ UNCHANGED <<entry, batch, first_prev, keep, pending_commit_queue, last_hmac, log,
                   poisoned, sstables, next_seq_no>>

\* advance_visibility and apply_mem_updates for the whole batch.
Applied(t) ==
    /\ pc[t] = "apply" /\ CommitMutexFree
    /\ last_committed_tx' = Max({last_committed_tx} \cup Range(batch[t]))
    /\ UNCHANGED <<entry, batch, first_prev, keep, pending_commit_queue, last_hmac, log,
                   poisoned, sstables, next_seq_no>>

Apply(t) ==
    /\ Applied(t)
    /\ memtable' = memtable \o Entries(batch[t])
    /\ Len(memtable') <= memtable_size_limit
    /\ Answer(t, "ok")
    /\ UNCHANGED <<its_wal, wal, wal_files, frozen>>

\* The memtable is full: it is frozen and the log replaced.
ApplyAndFreeze(t) ==
    /\ Applied(t)
    /\ frozen' = memtable \o Entries(batch[t])
    /\ Len(frozen') > memtable_size_limit
    /\ memtable' = << >>
    /\ wal + 1 \in Wals
    /\ wal' = wal + 1 /\ wal_files' = wal_files \cup {wal + 1}
    /\ its_wal' = [its_wal EXCEPT ![t] = wal]
    /\ Goto(t, "flush")

\* The SSTable is published and the replaced log removed; the batch is answered.
FlushDone(t) ==
    /\ pc[t] = "flush"
    /\ sstables' = sstables \o frozen /\ frozen' = << >>
    /\ wal_files' = wal_files \ {its_wal[t]}
    /\ Answer(t, "ok")
    /\ UNCHANGED <<entry, leader, pending_commit_queue, wal, log, last_hmac, poisoned,
                   memtable, last_committed_tx, next_seq_no>>

-----------------------------------------------------------------------------
(* A follower.                                                             *)

\* tx_timeout runs out before the result arrives.
FollowerTimeout(t) ==
    /\ pc[t] = "follower" /\ "timeout" \in Environment
    /\ Goto(t, "expired")
    /\ UNCHANGED <<entry, leader, pending_commit_queue, logs, store>>

\* Mutant: those who wait are told Err, but their requests stay.
DropQueue_KeepsRequests(t) ==
    /\ pc[t] = "expired"
    /\ pc' = [u \in Txs |->
                 IF u = t THEN "timeout"
                 ELSE IF pc[u] = "follower" /\ u \in Range(pending_commit_queue.requests)
                      THEN "err" ELSE pc[u]]
    /\ UNCHANGED <<entry, leader, pending_commit_queue, logs, store>>

\* The queue that is pending now is dropped, with the senders of all who wait
\* in it: "leader dropped without sending result".
DropQueue(t) ==
    /\ pc[t] = "expired"
    /\ pending_commit_queue' = NoQueue
    /\ pc' = [u \in Txs |->
                 IF u = t THEN "timeout"
                 ELSE IF pc[u] = "follower" /\ u \in Range(pending_commit_queue.requests)
                      THEN "err" ELSE pc[u]]
    /\ UNCHANGED <<entry, leader, logs, store>>

-----------------------------------------------------------------------------
Commit(t) ==
    \/ Lead(t) \/ Follow(t) \/ TakeQueue(t) \/ QueueMissing(t)
    \/ AppendBatch(t) \/ AppendFails(t) \/ AppendTorn(t)
    \/ RollbackScan(t) \/ RollbackTruncate(t) \/ TruncateFails(t)
    \/ Apply(t) \/ ApplyAndFreeze(t) \/ FlushDone(t)
    \/ FollowerTimeout(t) \/ DropQueue(t)

Answered == {"ok", "err", "timeout"}
Done == (\A t \in Txs : pc[t] \in Answered) /\ UNCHANGED vars

Next == (\E t \in Txs : Commit(t)) \/ Done

Spec == Init /\ [][Next]_vars

-----------------------------------------------------------------------------
Places == {"start", "leader", "follower", "append", "failed", "truncate", "apply",
           "flush", "expired"} \cup Answered
Entry == [tx : Txs \cup {0}, seq : Nat, prev : Txs \cup {ZERO}]

\* The types of the fields of LsmStorage, Wal and PendingCommitQueue and of the
\* locals of commit.
TypeOK ==
    /\ pc \in [Txs -> Places] /\ entry \in [Txs -> Entry]
    /\ batch \in [Txs -> Seq(Txs)] /\ first_prev \in [Txs -> Txs \cup {ZERO}]
    /\ its_wal \in [Txs -> Wals] /\ keep \in [Txs -> Nat]
    /\ pending_commit_queue \in
          [open : BOOLEAN, requests : Seq(Txs), first_prev_hmac : Txs \cup {ZERO}]
    /\ wal \in Wals /\ wal_files \subseteq Wals
    /\ log \in [Wals -> Seq(Entry)] /\ last_hmac \in [Wals -> Txs \cup {ZERO}]
    /\ poisoned \in [Wals -> BOOLEAN]
    /\ memtable \in Seq(Entry) /\ frozen \in Seq(Entry) /\ sstables \in Seq(Entry)
    /\ last_committed_tx \in Nat /\ next_seq_no \in Nat

TxsIn(es) == {e.tx : e \in Range(es)}
OnDisk == TxsIn(sstables) \cup UNION {TxsIn(log[w]) : w \in wal_files}
Readable == TxsIn(memtable) \cup TxsIn(frozen) \cup TxsIn(sstables)
Unpoisoned == \A w \in Wals : ~poisoned[w]

\* A transaction whose caller was told Ok is on disk, in an SSTable or in a
\* log that a restart replays ("written to the WAL (with fsync durability)").
AckedDurable == \A t \in Txs : pc[t] = "ok" => t \in OnDisk

\* Nobody has given up and no append has failed so far.
GaveUp  == {"expired", "timeout"}
Failing == {"failed", "truncate", "err"}
NoneIn(places) == \A t \in Txs : pc[t] \notin places

\* No rollback has truncated a log: no append has failed, or only torn ones of the
\* first log, which then refuses to be truncated.
Untruncated == NoneIn(Failing) \/ (wal = 0 /\ "append error" \notin Environment)

\* The same, until the first flush replaces a log or a rollback truncates one.
DurableUntilFlush == wal = 0 /\ Untruncated => AckedDurable

\* A transaction whose caller was told Ok is read by a get: it is below
\* last_committed_tx, and in a memtable or an SSTable until the rollback of a failed
\* commit rebuilds the memtable from a log whose TxIds are not in order.
AckedReadable ==
    \A t \in Txs : pc[t] = "ok" => t <= last_committed_tx /\ (Untruncated => t \in Readable)

\* A transaction whose caller was told Err is nowhere, now and after a
\* restart ("Failed batch entry must not be present in storage"), as long as
\* no torn write has left part of a batch in a log.
FailedAbsent ==
    Unpoisoned => \A t \in Txs : pc[t] = "err" => t \notin OnDisk \cup Readable

\* The inductive invariant behind FailedAbsent.  A transaction waits in the
\* queue, or belongs to the batch of one leader, or to nobody; what waits or
\* belongs to a leader that has not appended is not written anywhere, and
\* neither is who was told Err.
Holding  == {"truncate", "flush"}
Appended == {"apply", "flush"}
InFlight == {"append", "failed", "truncate"} \cup Appended
Waiting  == {"follower", "expired", "timeout"}
Queued   == Range(pending_commit_queue.requests)
Logged   == UNION {TxsIn(log[w]) : w \in Wals}
Written  == Logged \cup Readable

OneOwner ==
    /\ \A t \in Txs : pc[t] # "start" => entry[t].tx = t
    /\ \A u \in Queued : pc[u] \in Waiting
    /\ \A t \in Txs : pc[t] \in InFlight =>
          /\ t \in Range(batch[t])
          /\ \A u \in Range(batch[t]) : u \notin Queued /\ (u = t \/ pc[u] \in Waiting)
    /\ \A t, u \in Txs : t # u /\ pc[t] \in InFlight /\ pc[u] \in InFlight
          => Range(batch[t]) \cap Range(batch[u]) = {}

OneHolder ==
    /\ \A t, u \in Txs : pc[t] \in Holding /\ pc[u] \in Holding => t = u
    /\ \A t \in Txs : pc[t] = "truncate" => keep[t] <= Len(log[wal])

NotWritten ==
    /\ \A t \in Txs : pc[t] \in {"start", "leader", "err"} => t \notin Written
    /\ \A t \in Txs : pc[t] \in InFlight \ Appended => Range(batch[t]) \cap Written = {}
    /\ Queued \cap Written = {}

CommitInv == TypeOK /\ OneOwner /\ OneHolder /\ (Unpoisoned => NotWritten)

\* Every log a restart replays passes the check of its HMAC chain, however
\* the leaders take turns, until a commit fails or a flush replaces a log
\* ("WAL HMAC-Kette enthaelt keine Gabelungen nach Group-Commit").
ChainIntact ==
    NoneIn(GaveUp \cup Failing) /\ wal = 0 => \A w \in wal_files : Chained(log[w])

SeqsIncrease(es) == \A i, j \in DOMAIN es : i < j => es[i].seq < es[j].seq

\* Sequence numbers increase strictly along a log ("Sequenznummern sind strikt
\* monoton"), whichever leader appends, until a timeout drops a queue or a rollback
\* sets the counter back.
LogInOrder ==
    NoneIn(GaveUp) /\ Untruncated =>
      \A w \in wal_files : SeqsIncrease(log[w])

\* The memtable receives the versions in the order of their sequence numbers,
\* as its binary search and iter_latest require ("preventing snapshot
\* inversion").
MemtableInOrder == SeqsIncrease(memtable)

-----------------------------------------------------------------------------
(* The inductive invariants behind the four.                               *)

\* What a leader will answer Ok is readable, and in the log it appended to; the
\* memtable is frozen while its owner flushes it, and only then; a leader works on
\* the active log or an older one, and a torn log stays poisoned.
AckInv ==
    /\ wal \in wal_files /\ wal_files \subseteq 0 .. wal
    /\ (\A t \in Txs : pc[t] # "flush") => frozen = << >>
    /\ \A t \in Txs :
         /\ its_wal[t] <= wal /\ (pc[t] = "flush" => its_wal[t] < wal)
         /\ pc[t] = "ok" => t <= last_committed_tx
         /\ pc[t] = "flush" => \A u \in Range(batch[t]) : u <= last_committed_tx
         /\ pc[t] \in {"failed", "truncate"} =>
               "append error" \in Environment \/ poisoned[its_wal[t]]
    /\ Untruncated =>
         \A t \in Txs : /\ pc[t] = "ok" => t \in Readable
                        /\ pc[t] = "flush" => Range(batch[t]) \subseteq Readable
    /\ Untruncated /\ wal = 0 =>
         \A t \in Txs : /\ pc[t] = "ok" => t \in TxsIn(log[0])
                        /\ pc[t] = "apply" => Range(batch[t]) \subseteq TxsIn(log[0])

\* The transactions that wait to be appended, and the numbers of ts.
ToAppend == Queued \cup {t \in Txs : pc[t] = "leader"}
Seqs(ts) == [i \in DOMAIN ts |-> entry[ts[i]].seq]
Increasing(ns) == \A i, j \in DOMAIN ns : i < j => ns[i] < ns[j]

\* No number is given out twice.
NumbersUsed ==
    /\ \A t \in Txs : pc[t] # "start" => entry[t].seq < next_seq_no
    /\ \A w \in Wals : \A e \in Range(log[w]) : e.seq < next_seq_no

\* Only one leader waits, with the queue open, and only one appends to a log.
OneLeader ==
    /\ \A t \in Txs : pc[t] = "leader" => pending_commit_queue.open
    /\ \A t, u \in Txs : pc[t] = "leader" /\ pc[u] = "leader" => t = u
    /\ \A t, u \in Txs :
         pc[t] = "append" /\ pc[u] = "append" /\ its_wal[t] = its_wal[u] => t = u

\* The queue, each batch and each log are in order.
EachInOrder ==
    /\ Increasing(Seqs(pending_commit_queue.requests))
    /\ \A t \in Txs : pc[t] = "leader" => \A u \in Queued : entry[t].seq < entry[u].seq
    /\ \A t \in Txs : pc[t] = "append" => Increasing(Seqs(batch[t]))
    /\ \A w \in Wals : SeqsIncrease(log[w])

\* What waits has greater numbers than what is being appended and what any log has;
\* what is being appended has greater ones than its log.
LaterGreater ==
    /\ \A u \in ToAppend : \A w \in Wals : \A e \in Range(log[w]) : e.seq < entry[u].seq
    /\ \A t \in Txs : pc[t] = "append" =>
         \A v \in Range(batch[t]) :
           /\ \A u \in ToAppend : entry[v].seq < entry[u].seq
           /\ \A e \in Range(log[its_wal[t]]) : e.seq < entry[v].seq

OrderInv == NumbersUsed /\ OneLeader /\ EachInOrder /\ LaterGreater

\* With the entries es, ts continues a chain that ends with the HMAC prev; where it ends.
Links(es, prev, ts) ==
    \A i \in DOMAIN ts : es[ts[i]].prev = IF i = 1 THEN prev ELSE ts[i - 1]
LastOf(prev, ts) == IF ts = << >> THEN prev ELSE ts[Len(ts)]

\* The first log, the batch that is being appended to it (up to the HMAC h), and the
\* leader with its queue form one chain, which ends with last_hmac.
Appending == {t \in Txs : pc[t] = "append"}
Leading   == {t \in Txs : pc[t] = "leader"}
LogEnd    == HmacAt(log[0], Len(log[0]))
ChainUpTo(h) ==
    /\ Chained(log[0])
    /\ Appending = {} => h = LogEnd
    /\ \A t \in Appending : /\ Appending = {t} /\ batch[t] # << >>
                            /\ Links(entry, LogEnd, batch[t]) /\ h = LastOf(LogEnd, batch[t])
    /\ Leading = {} => last_hmac[0] = h /\ ~pending_commit_queue.open
    /\ \A t \in Leading : /\ Leading = {t} /\ pending_commit_queue.open
                          /\ entry[t].prev = h
                          /\ Links(entry, t, pending_commit_queue.requests)
                          /\ last_hmac[0] = LastOf(t, pending_commit_queue.requests)
ChainInv == \E h \in Txs \cup {ZERO} : ChainUpTo(h)

OrderInvariant == NoneIn(GaveUp) /\ Untruncated => OrderInv
ChainInvariant == NoneIn(GaveUp \cup Failing) /\ wal = 0 => ChainInv

-----------------------------------------------------------------------------
\* A started commit runs on, and the locks it waits for are tokio mutexes,
\* granted in the order of the requests.  Timeouts and failures are not
\* assumed to happen.
Runs(t) ==
    \/ TakeQueue(t) \/ QueueMissing(t) \/ AppendBatch(t) \/ AppendFails(t)
    \/ RollbackScan(t) \/ RollbackTruncate(t) \/ TruncateFails(t)
    \/ Apply(t) \/ ApplyAndFreeze(t) \/ FlushDone(t) \/ DropQueue(t)

FairSpec == Spec /\ \A t \in Txs : WF_vars(Runs(t))

\* Every commit that took its place as leader or follower returns, even when
\* its queue was dropped by another one's timeout or taken by another leader.
\* (Stated of all at once: whenever somebody waits, there comes a moment when nobody does.)
EveryoneAnswered ==
    (\E t \in Txs : pc[t] # "start" /\ pc[t] \notin Answered)
        ~> (\A t \in Txs : pc[t] # "start" => pc[t] \in Answered)
=============================================================================
