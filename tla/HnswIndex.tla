------------------------------ MODULE HnswIndex ------------------------------
(***************************************************************************)
(* The in-memory vector index of a collection (contextra-vector/src/hnsw): *)
(* commits of buffered transactions, the two-phase rebuild that runs beside *)
(* them on the compute pool, and readers of a pinned snapshot.  The          *)
(* SequenceLog (contextra-mvcc/src/seq_log.rs) is the index's memory of what *)
(* each transaction did: the rebuild replays it, pins hold it back.          *)
(*                                                                           *)
(* A vector is abstracted to the transaction that inserted it.  The graph    *)
(* over the nodes, the quantizer and the memory-mapped part are left out:    *)
(* a search is as good as the nodes it can find.  Node numbers start at 1;   *)
(* 0 stands for Option::None.                                                *)
(***************************************************************************)
EXTENDS Integers, Sequences, FiniteSets

CONSTANTS Docs,              \* document ids
          Readers,           \* callers of search_at
          MAX_TX,            \* bound: transaction ids are 1 .. MAX_TX
          rebuild_threshold, \* HnswConfig, in percent
          Environment        \* what may happen beside commits: a set of
                             \* "compute_error", "rebuild_error",
                             \* "insert_then_delete", "overwrite"

ASSUME HnswAssumption ==
    /\ MAX_TX \in Nat
    /\ rebuild_threshold \in 0 .. 100

None == 0
Txs  == 1 .. MAX_TX

VARIABLES index,      \* nodes, doc_to_node and deleted_nodes
          seq_log,    \* entries and deletions of the SequenceLog
          last_tx_id, \* greatest transaction committed
          tx_buffer,  \* the operations each transaction has staged
          begun,      \* ids handed out: 1 .. begun
          commit,     \* the commit that holds write_mutex
          jobs,       \* is a rebuild waiting in the compute pool?
          rebuild,    \* the rebuild that holds the rebuilding flag
          pins,       \* each reader's pinned snapshot
          live,       \* history: the vector each document should have
          unordered,  \* history: documents committed by a transaction older than
                      \* the last one
          late,       \* history: those of them committed during a rebuild
          torn,       \* history: a rebuild has snapshotted half a commit
          exposed     \* history: readers that pinned between the two phases

vars == <<index, seq_log, last_tx_id, tx_buffer, begun, commit, jobs, rebuild,
          pins, live, unordered, late, torn,
          exposed>>

Insert(d) == [kind |-> "insert", doc |-> d]
Delete(d) == [kind |-> "delete", doc |-> d]
IndexOps  == {Insert(d) : d \in Docs} \union {Delete(d) : d \in Docs}

IdleCommit  == [at |-> "idle", tx |-> None, ops |-> <<>>, todo |-> {}]
EmptyIndex  == [nodes |-> <<>>, doc_to_node |-> [d \in Docs |-> None],
                deleted_nodes |-> {}]
IdleRebuild == [at |-> "idle", new |-> EmptyIndex, snapshot_tx |-> None,
                todo |-> {}, dead |-> {}, delta |-> {}]

-----------------------------------------------------------------------------
(* Operations on one index, the live one or the one a rebuild builds.       *)

\* Mutant: the position is taken after the push, one too far.
do_insert_AfterPush(ix, d, v, tx) ==
    [nodes         |-> Append(ix.nodes, [doc |-> d, vec |-> v, committed_tx |-> tx]),
     doc_to_node   |-> [ix.doc_to_node EXCEPT ![d] = Len(ix.nodes) + 2],
     deleted_nodes |-> ix.deleted_nodes]

\* apply_insert: a new node, and the document points to it.
do_insert(ix, d, v, tx) ==
    [nodes         |-> Append(ix.nodes, [doc |-> d, vec |-> v, committed_tx |-> tx]),
     doc_to_node   |-> [ix.doc_to_node EXCEPT ![d] = Len(ix.nodes) + 1],
     deleted_nodes |-> ix.deleted_nodes]

\* Mutant: the document is unmapped and its node is not marked.
do_delete_UnmapOnly(ix, d) == [ix EXCEPT !.doc_to_node[d] = None]

\* do_delete: the node the document points to becomes a tombstone.
do_delete(ix, d) ==
    IF ix.doc_to_node[d] = None THEN ix
    ELSE [ix EXCEPT !.doc_to_node[d] = None,
                    !.deleted_nodes = @ \union {ix.doc_to_node[d]}]

\* connectivity_score < rebuild_threshold; an empty index scores 1.0.
is_rebuild_required ==
    LET total == Len(index.nodes)
    IN  100 * (total - Cardinality(index.deleted_nodes)) < rebuild_threshold * total

-----------------------------------------------------------------------------
(* SequenceLog.                                                            *)

\* rfind of the open entry of d, 0 if it has none.
OpenEntry(log, d) ==
    LET open == {i \in DOMAIN log.entries : /\ log.entries[i].doc = d
                                            /\ log.entries[i].delete_seq = None}
    IN  IF open = {} THEN None ELSE CHOOSE i \in open : \A j \in open : j <= i

CloseOpen(log, d, seq) ==
    IF OpenEntry(log, d) = None THEN log.entries
    ELSE [log.entries EXCEPT ![OpenEntry(log, d)].delete_seq = seq]

record_insert(log, d, seq) ==
    [entries   |-> Append(CloseOpen(log, d, seq),
                          [doc |-> d, insert_seq |-> seq, delete_seq |-> None]),
     deletions |-> [log.deletions EXCEPT ![d] = None]]

record_delete(log, d, seq) ==
    [entries   |-> CloseOpen(log, d, seq),
     deletions |-> [log.deletions EXCEPT
                      ![d] = IF OpenEntry(log, d) = None THEN @ ELSE seq]]

\* is_visible: the last entry inserted by seq_no decides.
is_visible(log, d, seq_no) ==
    LET seen == {i \in DOMAIN log.entries : /\ log.entries[i].doc = d
                                            /\ log.entries[i].insert_seq <= seq_no}
    IN  /\ seen # {}
        /\ LET last == log.entries[CHOOSE i \in seen : \A j \in seen : j <= i]
           IN  last.delete_seq = None \/ last.delete_seq > seq_no

\* changes_since: what the entries say happened after the snapshot.
changes_since(log, snapshot_seq) ==
    {[op |-> Insert(log.entries[i].doc), seq |-> log.entries[i].insert_seq, entry |-> i] :
        i \in {k \in DOMAIN log.entries : log.entries[k].insert_seq > snapshot_seq}}
    \union
    {[op |-> Delete(log.entries[i].doc), seq |-> log.entries[i].delete_seq, entry |-> i] :
        i \in {k \in DOMAIN log.entries : log.entries[k].delete_seq > snapshot_seq}}

\* It sorts them by sequence number, and the sort is stable.
Earlier(c, o) ==
    \/ c.seq < o.seq
    \/ c.seq = o.seq /\ c.entry < o.entry
    \/ c.seq = o.seq /\ c.entry = o.entry /\ c.op.kind = "insert" /\ o.op.kind = "delete"

Pinned == {pins[r] : r \in {r \in Readers : pins[r] # None}}

\* min_retention_seq; only asked for when something is pinned.
min_retention_seq == CHOOSE s \in Pinned : \A p \in Pinned : s <= p

-----------------------------------------------------------------------------
(* Transactions.                                                           *)

Init ==
    /\ index = EmptyIndex
    /\ seq_log = [entries |-> <<>>, deletions |-> [d \in Docs |-> None]]
    /\ last_tx_id = 0
    /\ tx_buffer = [t \in Txs |-> <<>>]
    /\ begun = 0
    /\ commit = IdleCommit
    /\ jobs = FALSE
    /\ rebuild = IdleRebuild
    /\ pins = [r \in Readers |-> None]
    /\ live = [d \in Docs |-> None]
    /\ unordered = {}
    /\ late = {}
    /\ torn = FALSE
    /\ exposed = {}

StagedInsert(d) == \/ \E t \in Txs : \E i \in DOMAIN tx_buffer[t] : tx_buffer[t][i] = Insert(d)
                   \/ \E i \in DOMAIN commit.ops : commit.ops[i] = Insert(d)

\* What the engine stages for a call: an insert, a delete of a document that is
\* present, or an update as both.  Nothing keeps a caller from inserting a
\* document that is present ("overwrite"), or from creating and deleting one in
\* the same transaction.
Valid(op) == IF op.kind = "insert"
             THEN \/ live[op.doc] = None /\ ~StagedInsert(op.doc)
                  \/ "overwrite" \in Environment
             ELSE live[op.doc] # None
Programs ==
    UNION {{<<op>> : op \in {o \in IndexOps : Valid(o)}},
           {<<Delete(d), Insert(d)>> : d \in {x \in Docs : live[x] # None}},
           IF "insert_then_delete" \in Environment
           THEN {<<Insert(d), Delete(d)>> : d \in {x \in Docs : Valid(Insert(x))}}
           ELSE {}}

\* insert and delete only stage; nobody else sees the buffer of a transaction.
Stage(ops) ==
    /\ begun < MAX_TX
    /\ begun' = begun + 1
    /\ tx_buffer' = [tx_buffer EXCEPT ![begun + 1] = ops]
    /\ UNCHANGED <<index, seq_log, last_tx_id, commit, jobs, rebuild, pins, live, unordered, late, torn, exposed>>

\* rollback: the buffer is discarded.
Rollback(t) ==
    /\ tx_buffer[t] # <<>>
    /\ tx_buffer' = [tx_buffer EXCEPT ![t] = <<>>]
    /\ UNCHANGED <<index, seq_log, last_tx_id, begun, commit, jobs, rebuild, pins,
                   live, unordered, late, torn, exposed>>

\* write_mutex, across steps held by a commit and by phase 2 of a rebuild.
WriteLocked == commit.at # "idle" \/ rebuild.at = "replay"

\* commit takes write_mutex, drains the buffer and computes its inserts.
Commit(t) ==
    /\ ~WriteLocked /\ tx_buffer[t] # <<>>
    /\ tx_buffer' = [tx_buffer EXCEPT ![t] = <<>>]
    /\ commit' = [at |-> "apply", tx |-> t, ops |-> tx_buffer[t], todo |-> DOMAIN tx_buffer[t]]
    /\ UNCHANGED <<index, seq_log, last_tx_id, begun, jobs, rebuild, pins, live, unordered, late, torn, exposed>>

\* compute_insert_with_context fails: the drained operations are gone.
CommitFails(t) ==
    /\ "compute_error" \in Environment
    /\ ~WriteLocked /\ \E i \in DOMAIN tx_buffer[t] : tx_buffer[t][i].kind = "insert"
    /\ tx_buffer' = [tx_buffer EXCEPT ![t] = <<>>]
    /\ UNCHANGED <<index, seq_log, last_tx_id, begun, commit, jobs, rebuild, pins,
                   live, unordered, late, torn, exposed>>

\* All deletes come before all inserts, whatever order they were staged in.
AppliedBefore(i, j) ==
    \/ commit.ops[i].kind = "delete" /\ commit.ops[j].kind = "insert"
    \/ commit.ops[i].kind = commit.ops[j].kind /\ i <= j

\* The next do_delete or apply_insert: other threads see the index in between.
CommitApply ==
    /\ commit.at = "apply"
    /\ \E i \in commit.todo :
        LET op == commit.ops[i]
        IN  /\ \A j \in commit.todo : AppliedBefore(i, j)
            /\ index' = IF op.kind = "delete" THEN do_delete(index, op.doc)
                        ELSE do_insert(index, op.doc, commit.tx, commit.tx)
            /\ commit' = [commit EXCEPT !.todo = @ \ {i}]
    /\ UNCHANGED <<seq_log, last_tx_id, tx_buffer, begun, jobs, rebuild, pins, live, unordered, late, torn, exposed>>

Record(log, op) == IF op.kind = "insert" THEN record_insert(log, op.doc, commit.tx)
                   ELSE record_delete(log, op.doc, commit.tx)

\* The operations in the order they were staged; Programs have one or two.
RecordAll(log, ops) ==
    IF Len(ops) = 1 THEN Record(log, ops[1]) ELSE Record(Record(log, ops[1]), ops[2])

\* All operations are logged under one write lock; then a rebuild is queued if too
\* many nodes are tombstones.
CommitLog ==
    /\ commit.at = "apply" /\ commit.todo = {}
    /\ seq_log' = RecordAll(seq_log, commit.ops)
    /\ jobs' = (jobs \/ is_rebuild_required)
    /\ commit' = [commit EXCEPT !.at = "advance"]
    /\ UNCHANGED <<index, last_tx_id, tx_buffer, begun, rebuild, pins, live,
                   unordered, late, torn, exposed>>

DocsOf(ops) == {ops[i].doc : i \in DOMAIN ops}

\* What the last operation on each document makes of it.
Outcome(vectors, ops) ==
    [d \in Docs |->
        IF d \notin DocsOf(ops) THEN vectors[d]
        ELSE LET on == {i \in DOMAIN ops : ops[i].doc = d}
                 i  == CHOOSE k \in on : \A j \in on : j <= k
             IN  IF ops[i].kind = "insert" THEN commit.tx ELSE None]

\* last_tx_id.fetch_max, write_mutex released.
CommitAdvance ==
    /\ commit.at = "advance"
    /\ last_tx_id' = IF commit.tx > last_tx_id THEN commit.tx ELSE last_tx_id
    /\ commit' = IdleCommit
    /\ live' = Outcome(live, commit.ops)
    /\ LET older == IF commit.tx < last_tx_id THEN DocsOf(commit.ops) ELSE {}
       IN  /\ unordered' = unordered \union older
           /\ late' = IF rebuild.at # "idle" THEN late \union older ELSE late
    /\ UNCHANGED <<index, seq_log, tx_buffer, begun, jobs, rebuild, pins, torn,
                   exposed>>

-----------------------------------------------------------------------------
(* The rebuild.                                                            *)

\* rebuild_sync takes the rebuilding flag: a job of the compute pool, or the
\* connectivity worker, which looks at the score again from time to time.  The
\* queue may hold more jobs after one is taken.
RebuildStart ==
    /\ rebuild.at = "idle"
    /\ jobs \/ is_rebuild_required
    /\ jobs' \in {FALSE, jobs}
    /\ rebuild' = [rebuild EXCEPT !.at = "phase1"]
    /\ UNCHANGED <<index, seq_log, last_tx_id, tx_buffer, begun, commit, pins, live,
                   unordered, late, torn, exposed>>

\* The jobs that find the flag taken leave; their tombstones stay if the running
\* rebuild took its snapshot before them.
RebuildSkipped ==
    /\ rebuild.at # "idle" /\ jobs
    /\ jobs' = FALSE
    /\ UNCHANGED <<index, seq_log, last_tx_id, tx_buffer, begun, commit, rebuild, pins,
                   live, unordered, late, torn, exposed>>

\* Is node i a tombstone of the snapshot?
IsDeleted(i) ==
    /\ i \in index.deleted_nodes
    /\ LET del_seq == seq_log.deletions[index.nodes[i].doc]
       IN  del_seq = None \/ del_seq <= last_tx_id

\* Mutant: tombstones are dropped whatever is pinned.
Retained_Never(i) == FALSE

\* A tombstone is kept while a pin is not newer than its delete.
Retained(i) ==
    LET del_seq == seq_log.deletions[index.nodes[i].doc]
    IN  Pinned # {} /\ del_seq # None /\ del_seq >= min_retention_seq

\* Phase 1 under the read locks of nodes, deleted_nodes and seq_log, which are all
\* held when last_tx_id is read: what is to be copied.  Nodes are only appended
\* until the swap, so their positions stand for the copies.
RebuildSnapshot ==
    /\ rebuild.at = "phase1"
    /\ rebuild' = [at |-> "build", new |-> EmptyIndex, snapshot_tx |-> last_tx_id,
                   todo |-> {i \in DOMAIN index.nodes :
                                /\ index.nodes[i].committed_tx <= last_tx_id
                                /\ (IsDeleted(i) => Retained(i))},
                   dead |-> {i \in DOMAIN index.nodes : IsDeleted(i)},
                   delta |-> {}]
    /\ torn' = (torn \/ commit.at # "idle")
    /\ UNCHANGED <<index, seq_log, last_tx_id, tx_buffer, begun, commit, jobs, pins,
                   live, unordered, late, exposed>>

\* The build that follows takes no lock: the copies one by one, a tombstone is
\* inserted and deleted.
RebuildInsert ==
    /\ rebuild.at = "build"
    /\ \E i \in rebuild.todo :
        LET n    == index.nodes[i]
            more == do_insert(rebuild.new, n.doc, n.vec, n.committed_tx)
        IN  /\ \A j \in rebuild.todo : i <= j
            /\ rebuild' = [rebuild EXCEPT
                              !.new = IF i \in rebuild.dead THEN do_delete(more, n.doc) ELSE more,
                              !.todo = @ \ {i}]
    /\ UNCHANGED <<index, seq_log, last_tx_id, tx_buffer, begun, commit, jobs, pins,
                   live, unordered, late, torn, exposed>>

\* Mutant: the delta is not replayed before the swap.
Delta_Skipped(ix, change) == ix

\* One change of the delta on the new index: an insert takes the vector the
\* document has in the live index now, if it has one.
Delta(ix, change) ==
    LET d == change.op.doc
    IN  IF change.op.kind = "delete" THEN do_delete(ix, d)
        ELSE IF index.doc_to_node[d] = None THEN ix
        ELSE do_insert(ix, d, index.nodes[index.doc_to_node[d]].vec, change.seq)

\* Phase 2 takes write_mutex and asks for the delta ...
RebuildLock ==
    /\ rebuild.at = "build" /\ rebuild.todo = {} /\ commit.at = "idle"
    /\ rebuild' = [rebuild EXCEPT !.at = "replay",
                                  !.delta = changes_since(seq_log, rebuild.snapshot_tx)]
    /\ UNCHANGED <<index, seq_log, last_tx_id, tx_buffer, begun, commit, jobs, pins,
                   live, unordered, late, torn, exposed>>

\* ... replays it ...
RebuildReplay ==
    /\ rebuild.at = "replay"
    /\ \E c \in rebuild.delta :
        /\ \A o \in rebuild.delta \ {c} : Earlier(c, o)
        /\ rebuild' = [rebuild EXCEPT !.new = Delta(@, c), !.delta = @ \ {c}]
    /\ UNCHANGED <<index, seq_log, last_tx_id, tx_buffer, begun, commit, jobs, pins,
                   live, unordered, late, torn, exposed>>

\* ... and swaps the indexes.
RebuildSwap ==
    /\ rebuild.at = "replay" /\ rebuild.delta = {}
    /\ index' = rebuild.new
    /\ rebuild' = IdleRebuild
    /\ UNCHANGED <<seq_log, last_tx_id, tx_buffer, begun, commit, jobs, pins, live, unordered, late, torn, exposed>>

\* Either phase returns an error: RebuildGuard clears the flag, nothing is swapped.
RebuildFails ==
    /\ "rebuild_error" \in Environment /\ rebuild.at # "idle"
    /\ rebuild' = IdleRebuild
    /\ UNCHANGED <<index, seq_log, last_tx_id, tx_buffer, begun, commit, jobs, pins,
                   live, unordered, late, torn, exposed>>

-----------------------------------------------------------------------------
(* Readers.                                                                *)

\* search_at, of the latest transaction: it pins the snapshot, and the pin is
\* dropped when the search has ended.
Pin(r) ==
    /\ pins[r] = None /\ last_tx_id # 0
    /\ pins' = [pins EXCEPT ![r] = last_tx_id]
    /\ exposed' = IF rebuild.at \in {"build", "replay"} THEN exposed \union {r} ELSE exposed
    /\ UNCHANGED <<index, seq_log, last_tx_id, tx_buffer, begun, commit, jobs, rebuild,
                   live, unordered, late, torn>>

Unpin(r) ==
    /\ pins[r] # None
    /\ pins' = [pins EXCEPT ![r] = None]
    /\ exposed' = exposed \ {r}
    /\ UNCHANGED <<index, seq_log, last_tx_id, tx_buffer, begun, commit, jobs, rebuild,
                   live, unordered, late, torn>>

CommitStep == CommitApply \/ CommitLog \/ CommitAdvance

Next ==
    \/ \E ops \in Programs : Stage(ops)
    \/ \E t \in Txs : Commit(t) \/ CommitFails(t) \/ Rollback(t)
    \/ CommitStep
    \/ RebuildStart \/ RebuildSkipped \/ RebuildFails
    \/ RebuildSnapshot \/ RebuildInsert \/ RebuildLock \/ RebuildReplay \/ RebuildSwap
    \/ \E r \in Readers : Pin(r) \/ Unpin(r)

Spec == Init /\ [][Next]_vars

-----------------------------------------------------------------------------
(* Properties.                                                             *)

Nodes   == [doc : Docs, vec : Txs, committed_tx : Txs]
Indexes == [nodes : Seq(Nodes), doc_to_node : [Docs -> Nat], deleted_nodes : SUBSET (Nat \ {0})]

TypeOK ==
    /\ index \in Indexes
    /\ seq_log \in [entries : Seq([doc : Docs, insert_seq : Txs, delete_seq : Txs \union {None}]),
                    deletions : [Docs -> Txs \union {None}]]
    /\ last_tx_id \in 0 .. MAX_TX /\ begun \in 0 .. MAX_TX
    /\ tx_buffer \in [Txs -> Seq(IndexOps)]
    /\ commit \in [at : {"idle", "apply", "advance"},
                   tx : Txs \union {None}, ops : Seq(IndexOps), todo : SUBSET Nat]
    /\ jobs \in BOOLEAN
    /\ rebuild \in [at : {"idle", "phase1", "build", "replay"}, new : Indexes,
                    snapshot_tx : 0 .. MAX_TX, todo : SUBSET Nat, dead : SUBSET Nat,
                    delta : SUBSET [op : IndexOps, seq : Txs, entry : Nat]]
    /\ pins \in [Readers -> Txs \union {None}]
    /\ live \in [Docs -> Txs \union {None}] /\ late \subseteq unordered /\ unordered \subseteq Docs /\ torn \in BOOLEAN
    /\ exposed \subseteq Readers
    \* the indices the index keeps are indices into its nodes
    /\ \A ix \in {index, rebuild.new} :
          /\ ix.deleted_nodes \subseteq DOMAIN ix.nodes
          /\ \A d \in Docs : ix.doc_to_node[d] # None =>
                /\ ix.doc_to_node[d] \in DOMAIN ix.nodes \ ix.deleted_nodes
                /\ ix.nodes[ix.doc_to_node[d]].doc = d

\* No search misses a committed document, or ranks it by a vector it no longer
\* has, whatever rebuild has run meanwhile: every document is mapped to a live
\* node with its latest vector (rebuild_phase2_merge_and_swap replays what commit
\* did during phase 1).  A document that was committed out of order during a
\* rebuild is excepted.
IndexLatest ==
    commit.at = "idle" =>
        \A d \in Docs \ late :
            live[d] # None => /\ index.doc_to_node[d] # None
                              /\ index.nodes[index.doc_to_node[d]].vec = live[d]

\* No search finds a deleted document or an outdated vector again: a node that is
\* no tombstone is the one its document points to, in every index no rebuild of
\* which took its snapshot in the middle of a commit.
NoGhost ==
    commit.at = "idle" /\ ~torn =>
        \A i \in DOMAIN index.nodes \ index.deleted_nodes :
            index.nodes[i].doc \notin late =>
                live[index.nodes[i].doc] # None /\ index.doc_to_node[index.nodes[i].doc] = i

\* "Pins a historical sequence number to prevent rebuild from purging
\* soft-deleted nodes active at this snapshot" (seq_log.rs): a document visible at
\* a pinned snapshot has a node to be found at.
PinnedFound ==
    commit.at = "idle" /\ ~torn =>
        \A r \in Readers \ exposed : \A d \in Docs \ unordered :
            pins[r] # None /\ is_visible(seq_log, d, pins[r]) =>
                \E i \in DOMAIN index.nodes : index.nodes[i].doc = d
=============================================================================
