-------------------------- MODULE HnswIndexProofs --------------------------
(***************************************************************************)
(* Proofs about HnswIndex, for any documents, readers, number of           *)
(* transactions, rebuild threshold and Environment: its types, that the    *)
(* index has the latest vector of every document, that it has no ghosts,   *)
(* and that a pinned reader finds what it should.                          *)
(*                                                                         *)
(* The properties speak of the moments between commits and of the live     *)
(* index; a swap makes the index that a rebuild has built the live one.    *)
(* Inv therefore says of every step of a rebuild what its index will be    *)
(* worth. While the copies are made (LatestBuild), a document that did not *)
(* change since the snapshot has its vector in the last of its copies.     *)
(* While the delta is replayed (LatestReplay), it has its vector once no   *)
(* insert of it is left in the delta, and each delete that is left has an  *)
(* insert after it. The two meet in RebuildLock, where the delta is read   *)
(* from the sequence log: Chain says that the entries of a document above  *)
(* the snapshot are ordered as its transactions were, so that the order by *)
(* sequence number, which changes_since sorts by, is the order in which    *)
(* they happened. A commit of a transaction older than the last one breaks *)
(* Chain, hence the exceptions Excepted and Unordered.                     *)
(*                                                                         *)
(* GhostIndex, GhostBuild and GhostReplay are the same argument for        *)
(* deletes; they need that phase 1 saw no half of a commit and that        *)
(* callers are Plain. DeletionsInv, ClosedInv and PinInv are about         *)
(* readers: the delete that deletions remembers of a document is its last, *)
(* so that a tombstone which phase 1 drops is older than every pin.        *)
(***************************************************************************)
EXTENDS HnswIndex, NatSetLemmas

\* No caller inserts a document that is present, or creates and deletes one in
\* the same transaction.
Plain == "overwrite" \notin Environment /\ "insert_then_delete" \notin Environment

-----------------------------------------------------------------------------
(* The inductive invariant.                                                *)

\* What a transaction stages, on a document d.
ProgramsOn(d) == {<<Insert(d)>>, <<Delete(d)>>,
                  <<Delete(d), Insert(d)>>, <<Insert(d), Delete(d)>>}

\* What a transaction may stage: one of these on some document.
IsProgram(ops) == \E d \in Docs : ops \in ProgramsOn(d)

\* Does d have a node in doc_to_node?
Mapped(ix, d)  == ix.doc_to_node[d] # None

\* The nodes of d, tombstones included.
NodesOf(ix, d) == {i \in DOMAIN ix.nodes : ix.nodes[i].doc = d}

\* d is mapped to a node with the vector v.
HasVector(ix, d, v) == Mapped(ix, d) /\ ix.nodes[ix.doc_to_node[d]].vec = v

\* No node of d but the one it is mapped to is live.
Single(ix, d)  == \A i \in NodesOf(ix, d) \ ix.deleted_nodes : i = ix.doc_to_node[d]

\* A document is mapped to the last of its nodes.
IndexOK(ix) ==
    /\ ix \in Indexes
    /\ ix.deleted_nodes \subseteq DOMAIN ix.nodes
    /\ \A d \in Docs : Mapped(ix, d) =>
          /\ ix.doc_to_node[d] \in DOMAIN ix.nodes \ ix.deleted_nodes
          /\ ix.nodes[ix.doc_to_node[d]].doc = d
          /\ \A i \in NodesOf(ix, d) : i <= ix.doc_to_node[d]

\* What the entries E of the log say of a document.
EntriesOf(E, d)  == {i \in DOMAIN E : E[i].doc = d}

\* Only the last entry of d may be open.
OnlyLastOpen(E, d) == \A i, j \in EntriesOf(E, d) : i < j => E[i].delete_seq # None

\* No entry of d is open.
AllClosed(E, d)  == \A i \in EntriesOf(E, d) : E[i].delete_seq # None

\* The log knows a change of d after s.
Changed(E, d, s) == \E i \in EntriesOf(E, d) : E[i].insert_seq > s \/ E[i].delete_seq > s

\* Some entry of d was open at s.
LiveAt(E, d, s)  == \E i \in EntriesOf(E, d) :
                       E[i].insert_seq <= s /\ (E[i].delete_seq = None \/ E[i].delete_seq > s)
\* After s the entries are in order: each is inserted, then deleted, then the next.
Chain(E, d, s) ==
    \A i \in EntriesOf(E, d) :
        /\ E[i].insert_seq > s /\ E[i].delete_seq # None => E[i].insert_seq <= E[i].delete_seq
        /\ \A j \in EntriesOf(E, d) : i < j =>
              /\ E[j].insert_seq > s => E[i].delete_seq <= E[j].insert_seq
              /\ E[i].insert_seq > s \/ E[i].delete_seq > s => E[j].insert_seq > s

\* The entries of the sequence log.
Log   == seq_log.entries

\* A commit holds write_mutex.
Busy  == commit.at # "idle"

\* The document of the running commit.
Doc   == commit.ops[1].doc

\* The running commit has a smaller id than the last one.
Older == Busy /\ commit.tx < last_tx_id

\* The running commit is about d.
BusyOn(d)    == Busy /\ d = Doc

\* The documents IndexLatest and NoGhost except, and the one a running commit will add to
\* them.
Excepted(d)  == d \in late \/ (Older /\ d = Doc)

\* The documents PinnedFound excepts, and the one a running commit will add to them.
Unordered(d) == d \in unordered \/ (Older /\ d = Doc)

\* A rebuild has taken its snapshot.
Rebuilding   == rebuild.at \in {"build", "replay"}

\* The transaction a rebuild took its snapshot at.
snap         == rebuild.snapshot_tx

\* The type of an entry of the log.
Entry == [doc : Docs, insert_seq : Txs, delete_seq : Txs \union {None}]

\* The types of the sequence log.
Logs  == [entries : Seq(Entry), deletions : [Docs -> Txs \union {None}]]

\* The types of all variables, without what TypeOK says of the indices into the nodes.
TypeVars ==
    /\ index \in Indexes
    /\ seq_log \in Logs
    /\ last_tx_id \in 0 .. MAX_TX /\ begun \in 0 .. MAX_TX
    /\ tx_buffer \in [Txs -> Seq(IndexOps)]
    /\ commit \in [at : {"idle", "apply", "advance"},
                   tx : Txs \union {None}, ops : Seq(IndexOps), todo : SUBSET Nat]
    /\ jobs \in BOOLEAN
    /\ rebuild \in [at : {"idle", "phase1", "build", "replay"}, new : Indexes,
                    snapshot_tx : 0 .. MAX_TX, todo : SUBSET Nat, dead : SUBSET Nat,
                    delta : SUBSET [op : IndexOps, seq : Txs, entry : Nat]]
    /\ pins \in [Readers -> Txs \union {None}]
    /\ live \in [Docs -> Txs \union {None}]
    /\ late \subseteq unordered /\ unordered \subseteq Docs /\ torn \in BOOLEAN
    /\ exposed \subseteq Readers

\* The kinds of the operations that the running commit has applied.
AppliedKinds == {commit.ops[i].kind : i \in DOMAIN commit.ops \ commit.todo}

\* The vector d has in the index by now.
Applied(d) ==
    IF ~BusyOn(d) THEN live[d]
    ELSE IF "insert" \in AppliedKinds THEN commit.tx
    ELSE IF "delete" \in AppliedKinds THEN None
    ELSE live[d]

\* The vector d has in the log by now.
Recorded(d) == IF commit.at = "advance" /\ d = Doc THEN Outcome(live, commit.ops)[d] ELSE live[d]

\* Staged transactions are programs, and none has the id of a transaction that was
\* committed last or is being committed.
BufferInv ==
    /\ \A t \in Txs : tx_buffer[t] # <<>> =>
          /\ IsProgram(tx_buffer[t]) /\ t <= begun /\ t # last_tx_id
          /\ Busy => t # commit.tx
    /\ last_tx_id <= begun

\* What is known of the running commit; it applies its operations in the order of
\* AppliedBefore.
CommitInv ==
    /\ Busy => /\ commit.tx \in Txs /\ commit.tx <= begun /\ commit.tx # last_tx_id
               /\ IsProgram(commit.ops) /\ commit.todo \subseteq DOMAIN commit.ops
               /\ commit.at = "advance" => commit.todo = {}
               /\ \A i \in DOMAIN commit.ops \ commit.todo, j \in commit.todo : AppliedBefore(i, j)
    /\ ~Busy => commit = IdleCommit

\* What is known of the running rebuild; phase 2 holds write_mutex.
RebuildInv ==
    /\ rebuild.at = "replay" => ~Busy
    /\ rebuild.at # "build" => rebuild.todo = {}
    /\ rebuild.at # "replay" => rebuild.delta = {}
    /\ rebuild.todo \subseteq DOMAIN index.nodes
    /\ Rebuilding => snap <= last_tx_id

\* No sequence number is ahead of the last commit, but those of the running one.
NodesBound(ix) ==
    \A i \in DOMAIN ix.nodes :
        \/ ix.nodes[i].committed_tx <= last_tx_id
        \/ Busy /\ ix.nodes[i].committed_tx = commit.tx /\ ix.nodes[i].doc = Doc

\* A sequence number of d that the log may hold.
Known(d, s) == s <= last_tx_id \/ (commit.at = "advance" /\ d = Doc /\ s = commit.tx)

\* Every sequence number in the indexes, the log and the pins is known.
BoundInv ==
    /\ NodesBound(index)
    /\ NodesBound(rebuild.new)
    /\ \A i \in DOMAIN Log : Known(Log[i].doc, Log[i].insert_seq) /\ Known(Log[i].doc, Log[i].delete_seq)
    /\ \A d \in Docs : Known(d, seq_log.deletions[d])
    /\ \A r \in Readers : pins[r] <= last_tx_id

\* The log agrees with the history: a document that should be live has an open entry, its
\* last, with the sequence number of its vector; another has none.
LogInv ==
    \A d \in Docs :
        /\ OnlyLastOpen(Log, d)
        /\ Recorded(d) # None =>
              \E i \in EntriesOf(Log, d) : Log[i].delete_seq = None /\ Log[i].insert_seq = Recorded(d)
        /\ Recorded(d) = None => AllClosed(Log, d)

\* The entries are in order above the snapshot of a rebuild, and above the last commit
\* while one is logged.
ChainInv ==
    /\ commit.at = "advance" /\ ~Older => Chain(Log, Doc, last_tx_id)
    /\ Rebuilding => \A d \in Docs : ~Excepted(d) => Chain(Log, d, snap)

\* The vector v of d is the last copy to be made, or the one made last.
Copied(d, v) ==
    \/ \E i \in rebuild.todo \ rebuild.dead :
          /\ index.nodes[i].doc = d /\ index.nodes[i].vec = v
          /\ \A j \in rebuild.todo : index.nodes[j].doc = d => j <= i
    \/ /\ \A j \in rebuild.todo : index.nodes[j].doc # d
       /\ HasVector(rebuild.new, d, v)

\* The live index has the vector that each document has by now, and a document that
\* should be live has a node even in the middle of its commit.
LatestIndex ==
    \A d \in Docs \ late :
        /\ Applied(d) # None => HasVector(index, d, Applied(d))
        /\ live[d] # None => NodesOf(index, d) # {}

\* A document that did not change since the snapshot is in the copies.
LatestBuild ==
    rebuild.at = "build" =>
        \A d \in Docs : ~Excepted(d) /\ ~BusyOn(d) /\ ~Changed(Log, d, snap) /\ live[d] # None =>
            Copied(d, live[d])

\* What is left of the delta leads to the document's vector.
LatestReplay ==
    rebuild.at = "replay" =>
        \A d \in Docs \ late : live[d] # None =>
            /\ (\A c \in rebuild.delta : c.op # Insert(d)) => HasVector(rebuild.new, d, live[d])
            /\ \A c \in rebuild.delta : c.op = Delete(d) =>
                  \E o \in rebuild.delta : o.op = Insert(d) /\ Earlier(c, o)

\* What is left of the delta is the end of it.
ReplayInv ==
    rebuild.at = "replay" =>
        /\ rebuild.delta \subseteq changes_since(seq_log, snap)
        /\ \A c \in rebuild.delta, o \in changes_since(seq_log, snap) :
              Earlier(c, o) => o \in rebuild.delta

\* Plain callers insert a document at most once at a time, and only one that is absent.
StageInv ==
    /\ \A t \in Txs, d \in Docs : tx_buffer[t] = <<Insert(d)>> =>
         /\ live[d] = None
         /\ \A u \in Txs \ {t} : \A i \in DOMAIN tx_buffer[u] : tx_buffer[u][i] # Insert(d)
         /\ \A i \in DOMAIN commit.ops : commit.ops[i] # Insert(d)
    /\ \A d \in Docs : commit.ops = <<Insert(d)>> => live[d] = None
    /\ \A t \in Txs, d \in Docs : tx_buffer[t] # <<Insert(d), Delete(d)>>
    /\ \A d \in Docs : commit.ops # <<Insert(d), Delete(d)>>

\* The live index has no ghosts: no live node beside the one a document is mapped to, and
\* none of a document that should be absent by now.
GhostIndex ==
    \A d \in Docs \ late : Single(index, d) /\ (Applied(d) = None => ~Mapped(index, d))

\* Neither has the new index, and only a document that was live at the snapshot is copied
\* as live, by its last copy.
GhostBuild ==
    Rebuilding => \A d \in Docs : ~Excepted(d) =>
         /\ Single(rebuild.new, d)
         /\ \A i \in rebuild.todo \ rebuild.dead : index.nodes[i].doc = d =>
               LiveAt(Log, d, snap) /\ \A j \in rebuild.todo : index.nodes[j].doc = d => j <= i
         /\ Mapped(rebuild.new, d) => \A j \in rebuild.todo : index.nodes[j].doc # d
         /\ Mapped(rebuild.new, d) /\ rebuild.at = "build" => LiveAt(Log, d, snap)

\* A document that is mapped and should be absent has its delete in the delta, and before
\* each insert of it comes a delete.
GhostReplay ==
    rebuild.at = "replay" => \A d \in Docs \ late : Mapped(rebuild.new, d) =>
         /\ live[d] = None => \E c \in rebuild.delta : c.op = Delete(d)
         /\ \A c \in rebuild.delta : c.op = Insert(d) =>
               \E o \in rebuild.delta : o.op = Delete(d) /\ Earlier(o, c)

\* What holds for plain callers.
PlainInv == Plain => StageInv /\ (~torn => GhostIndex /\ GhostBuild /\ GhostReplay)

\* deletions has the last delete of a document that is absent.
DeletionsInv ==
    \A d \in Docs : ~Unordered(d) /\ AllClosed(Log, d) =>
        \A i \in EntriesOf(Log, d) : Log[i].delete_seq <= seq_log.deletions[d]

\* An entry that the running commit has closed was open before: the document was live.
ClosedInv ==
    commit.at = "advance" /\ ~Older =>
        \A i \in EntriesOf(Log, Doc) :
            Log[i].delete_seq = commit.tx /\ Log[i].insert_seq # commit.tx => live[Doc] # None

\* What a reader that pinned its snapshot outside a rebuild can see has a node in the
\* live index and, during a rebuild, a copy made or to be made.
PinInv ==
    ~torn => \A r \in Readers \ exposed, d \in Docs :
        pins[r] # None /\ ~Unordered(d) /\ is_visible(seq_log, d, pins[r]) =>
            /\ NodesOf(index, d) # {}
            /\ Rebuilding => \/ NodesOf(rebuild.new, d) # {}
                             \/ \E i \in rebuild.todo : index.nodes[i].doc = d

\* The inductive invariant.
Inv == /\ TypeVars /\ IndexOK(index) /\ IndexOK(rebuild.new)
       /\ BufferInv /\ CommitInv /\ RebuildInv /\ BoundInv
       /\ LogInv /\ ChainInv
       /\ LatestIndex /\ LatestBuild /\ LatestReplay /\ ReplayInv
       /\ PlainInv /\ DeletionsInv /\ ClosedInv /\ PinInv

-----------------------------------------------------------------------------
(* Operations on one index.                                                *)

\* From ix to jx nothing is lost, and only d is touched.
OnlyOn(ix, jx, d) ==
    /\ \A i \in DOMAIN ix.nodes : i \in DOMAIN jx.nodes /\ jx.nodes[i] = ix.nodes[i]
    /\ \A e \in Docs \ {d} :
          /\ NodesOf(jx, e) = NodesOf(ix, e)
          /\ jx.doc_to_node[e] = ix.doc_to_node[e]
          /\ NodesOf(jx, e) \ jx.deleted_nodes = NodesOf(ix, e) \ ix.deleted_nodes

\* The fields of an index after apply_insert: one node more, at the end.
LEMMA InsertFields ==
  ASSUME NEW ix \in Indexes, NEW d \in Docs, NEW v \in Txs, NEW tx \in Txs,
         NEW jx, jx = do_insert(ix, d, v, tx), NEW n, n = Len(ix.nodes) + 1
  PROVE  /\ jx \in Indexes
         /\ DOMAIN jx.nodes = DOMAIN ix.nodes \union {n} /\ n \notin DOMAIN ix.nodes
         /\ \A i \in DOMAIN ix.nodes : jx.nodes[i] = ix.nodes[i] /\ i < n /\ i \in Nat \ {0}
         /\ jx.nodes[n] = [doc |-> d, vec |-> v, committed_tx |-> tx]
         /\ jx.doc_to_node = [ix.doc_to_node EXCEPT ![d] = n]
         /\ jx.deleted_nodes = ix.deleted_nodes
         /\ n \in Nat \ {0}
<1> DEFINE x  == [doc |-> d, vec |-> v, committed_tx |-> tx]
<1>1. x \in Nodes /\ ix.nodes \in Seq(Nodes) /\ ix.doc_to_node \in [Docs -> Nat]
      /\ ix.deleted_nodes \in SUBSET (Nat \ {0})
  BY DEF Nodes, Indexes
<1>2. n \in Nat \ {0} /\ DOMAIN ix.nodes = 1 .. (n - 1)
  BY <1>1
<1>3. jx = [nodes |-> Append(ix.nodes, x), doc_to_node |-> [ix.doc_to_node EXCEPT ![d] = n],
            deleted_nodes |-> ix.deleted_nodes]
  BY DEF do_insert
<1>4. /\ Append(ix.nodes, x) \in Seq(Nodes) /\ DOMAIN Append(ix.nodes, x) = 1 .. n
      /\ \A i \in 1 .. (n - 1) : Append(ix.nodes, x)[i] = ix.nodes[i]
      /\ Append(ix.nodes, x)[n] = x
  BY <1>1, <1>2
<1>5. jx \in Indexes
  BY <1>1, <1>2, <1>3, <1>4 DEF Indexes
<1>6. n \notin DOMAIN ix.nodes /\ 1 .. n = DOMAIN ix.nodes \union {n} /\ \A i \in DOMAIN ix.nodes : i < n /\ i \in Nat \ {0}
  BY <1>2
<1> HIDE DEF x
<1> QED BY <1>2, <1>3, <1>4, <1>5, <1>6 DEF x

\* apply_insert keeps an index in order and touches one document, which has the vector
\* then; it makes no ghost if the document was not mapped.
LEMMA InsertOK ==
  ASSUME NEW ix, IndexOK(ix), NEW d \in Docs, NEW v \in Txs, NEW tx \in Txs,
         NEW jx, jx = do_insert(ix, d, v, tx)
  PROVE  /\ IndexOK(jx) /\ OnlyOn(ix, jx, d)
         /\ HasVector(jx, d, v) /\ NodesOf(jx, d) # {}
         /\ Single(ix, d) /\ ~Mapped(ix, d) => Single(jx, d)
         /\ \A i \in DOMAIN jx.nodes :
               i \in DOMAIN ix.nodes \/ (jx.nodes[i].committed_tx = tx /\ jx.nodes[i].doc = d)
<1> DEFINE n == Len(ix.nodes) + 1
<1>0. ix \in Indexes /\ ix.deleted_nodes \subseteq DOMAIN ix.nodes
      /\ ix.doc_to_node \in [Docs -> Nat]
  BY DEF IndexOK, Indexes
<1> HIDE DEF n
<1>1. /\ jx \in Indexes
      /\ DOMAIN jx.nodes = DOMAIN ix.nodes \union {n} /\ n \notin DOMAIN ix.nodes
      /\ \A i \in DOMAIN ix.nodes : jx.nodes[i] = ix.nodes[i] /\ i < n /\ i \in Nat \ {0}
      /\ jx.nodes[n] = [doc |-> d, vec |-> v, committed_tx |-> tx]
      /\ jx.doc_to_node = [ix.doc_to_node EXCEPT ![d] = n]
      /\ jx.deleted_nodes = ix.deleted_nodes
      /\ n \in Nat \ {0}
  BY <1>0, InsertFields DEF n
<1>2. jx.doc_to_node[d] = n /\ \A e \in Docs \ {d} : jx.doc_to_node[e] = ix.doc_to_node[e]
  BY <1>0, <1>1
<1>3. /\ \A e \in Docs \ {d} : NodesOf(jx, e) = NodesOf(ix, e)
      /\ NodesOf(jx, d) = NodesOf(ix, d) \union {n}
  BY <1>1 DEF NodesOf
<1>4. OnlyOn(ix, jx, d)
  BY <1>1, <1>2, <1>3 DEF OnlyOn
<1>5. HasVector(jx, d, v) /\ NodesOf(jx, d) # {}
  BY <1>1, <1>2, <1>3 DEF HasVector, Mapped, None
<1>6. IndexOK(jx)
  <2>1. ASSUME NEW e \in Docs, Mapped(jx, e)
        PROVE  /\ jx.doc_to_node[e] \in DOMAIN jx.nodes \ jx.deleted_nodes
               /\ jx.nodes[jx.doc_to_node[e]].doc = e
               /\ \A i \in NodesOf(jx, e) : i <= jx.doc_to_node[e]
    <3>1. CASE e = d
      <4>1. \A i \in NodesOf(jx, d) : i <= n
        BY <1>1, <1>3 DEF NodesOf
      <4>2. n \in DOMAIN jx.nodes \ jx.deleted_nodes /\ jx.nodes[n].doc = d
        BY <1>0, <1>1
      <4> QED BY <3>1, <4>1, <4>2, <1>2
    <3>2. CASE e # d
      <4>1. Mapped(ix, e)
        BY <2>1, <3>2, <1>2 DEF Mapped
      <4> QED BY <4>1, <3>2, <1>1, <1>2, <1>3 DEF IndexOK
    <3> QED BY <3>1, <3>2
  <2> QED BY <2>1, <1>0, <1>1 DEF IndexOK
<1>7. ASSUME Single(ix, d), ~Mapped(ix, d) PROVE Single(jx, d)
  <2>1. \A i \in NodesOf(ix, d) : i # 0
    BY <1>1 DEF NodesOf
  <2>2. NodesOf(ix, d) \ ix.deleted_nodes = {}
    BY <1>7, <2>1 DEF Single, Mapped, None
  <2> QED BY <1>1, <1>2, <1>3, <2>2 DEF Single
<1>8. \A i \in DOMAIN jx.nodes :
         i \in DOMAIN ix.nodes \/ (jx.nodes[i].committed_tx = tx /\ jx.nodes[i].doc = d)
  BY <1>1
<1> QED BY <1>4, <1>5, <1>6, <1>7, <1>8

\* do_delete keeps an index in order, touches one document, which is not mapped then, and
\* leaves no ghost of it.
LEMMA DeleteOK ==
  ASSUME NEW ix, IndexOK(ix), NEW d \in Docs, NEW jx, jx = do_delete(ix, d)
  PROVE  /\ IndexOK(jx) /\ OnlyOn(ix, jx, d) /\ jx.nodes = ix.nodes
         /\ ~Mapped(jx, d) /\ NodesOf(jx, d) = NodesOf(ix, d)
         /\ Single(ix, d) => Single(jx, d)
<1> DEFINE m == ix.doc_to_node[d]
<1>0. ix \in Indexes /\ ix.deleted_nodes \subseteq DOMAIN ix.nodes
      /\ ix.doc_to_node \in [Docs -> Nat] /\ DOMAIN ix.nodes \subseteq Nat \ {0}
      /\ ix.nodes \in Seq(Nodes)
  BY DEF IndexOK, Indexes
<1>1. CASE ~Mapped(ix, d)
  <2>1. jx = ix
    BY <1>1 DEF do_delete, Mapped
  <2> QED BY <1>1, <2>1 DEF OnlyOn
<1>2. CASE Mapped(ix, d)
  <2>1. jx = [nodes |-> ix.nodes, doc_to_node |-> [ix.doc_to_node EXCEPT ![d] = None],
              deleted_nodes |-> ix.deleted_nodes \union {m}]
    BY <1>0, <1>2 DEF do_delete, Mapped, Indexes
  <2>2. m \in DOMAIN ix.nodes /\ ix.nodes[m].doc = d
    BY <1>2 DEF IndexOK
  <2>3. /\ jx.nodes = ix.nodes /\ jx.deleted_nodes = ix.deleted_nodes \union {m}
        /\ jx.doc_to_node[d] = None /\ \A e \in Docs \ {d} : jx.doc_to_node[e] = ix.doc_to_node[e]
        /\ jx.doc_to_node \in [Docs -> Nat]
    BY <2>1, <1>0 DEF None
  <2>4. jx \in Indexes
    BY <2>1, <2>2, <2>3, <1>0 DEF Indexes
  <2> HIDE DEF m
  <2>5. \A e : NodesOf(jx, e) = NodesOf(ix, e)
    BY <2>3 DEF NodesOf
  <2>6. OnlyOn(ix, jx, d)
    BY <2>2, <2>3, <2>5 DEF OnlyOn, NodesOf
  <2>7. ~Mapped(jx, d)
    BY <2>3 DEF Mapped
  <2>8. IndexOK(jx)
    <3>1. ASSUME NEW e \in Docs, Mapped(jx, e)
          PROVE  /\ jx.doc_to_node[e] \in DOMAIN jx.nodes \ jx.deleted_nodes
                 /\ jx.nodes[jx.doc_to_node[e]].doc = e
                 /\ \A i \in NodesOf(jx, e) : i <= jx.doc_to_node[e]
      <4>1. e # d /\ Mapped(ix, e)
        BY <3>1, <2>7, <2>3 DEF Mapped
      <4> QED BY <4>1, <2>2, <2>3, <2>5 DEF IndexOK
    <3> QED BY <3>1, <1>0, <2>2, <2>3, <2>4 DEF IndexOK
  <2>9. Single(ix, d) => Single(jx, d)
    BY <2>3, <2>5 DEF Single, m
  <2> QED BY <2>3, <2>5, <2>6, <2>7, <2>8, <2>9
<1> QED BY <1>1, <1>2

\* What an operation on d keeps: all nodes, and everything about the other documents.
LEMMA OnlyOnKeeps ==
  ASSUME NEW ix, NEW jx, IndexOK(ix), NEW d, OnlyOn(ix, jx, d)
  PROVE  /\ DOMAIN ix.nodes \subseteq DOMAIN jx.nodes
         /\ \A i \in DOMAIN ix.nodes : jx.nodes[i] = ix.nodes[i]
         /\ \A e : NodesOf(ix, e) \subseteq NodesOf(jx, e)
         /\ \A e \in Docs \ {d} :
              /\ NodesOf(jx, e) = NodesOf(ix, e)
              /\ Mapped(jx, e) <=> Mapped(ix, e)
              /\ \A v : HasVector(jx, e, v) <=> HasVector(ix, e, v)
              /\ Single(jx, e) <=> Single(ix, e)
<1>1. /\ DOMAIN ix.nodes \subseteq DOMAIN jx.nodes
      /\ \A i \in DOMAIN ix.nodes : jx.nodes[i] = ix.nodes[i]
      /\ \A e : NodesOf(ix, e) \subseteq NodesOf(jx, e)
  BY DEF OnlyOn, NodesOf
<1>2. ASSUME NEW e \in Docs \ {d}
      PROVE  /\ NodesOf(jx, e) = NodesOf(ix, e)
             /\ Mapped(jx, e) <=> Mapped(ix, e)
             /\ \A v : HasVector(jx, e, v) <=> HasVector(ix, e, v)
             /\ Single(jx, e) <=> Single(ix, e)
  <2>1. /\ NodesOf(jx, e) = NodesOf(ix, e) /\ jx.doc_to_node[e] = ix.doc_to_node[e]
        /\ NodesOf(jx, e) \ jx.deleted_nodes = NodesOf(ix, e) \ ix.deleted_nodes
    BY DEF OnlyOn
  <2>2. Mapped(jx, e) <=> Mapped(ix, e)
    BY <2>1 DEF Mapped
  <2>3. ASSUME Mapped(ix, e) PROVE ix.doc_to_node[e] \in DOMAIN ix.nodes
    BY <2>3 DEF IndexOK
  <2>4. \A v : HasVector(jx, e, v) <=> HasVector(ix, e, v)
    BY <2>1, <2>2, <2>3, <1>1 DEF HasVector
  <2>5. Single(jx, e) <=> Single(ix, e)
    BY <2>1 DEF Single
  <2> QED BY <2>1, <2>2, <2>4, <2>5
<1> QED BY <1>1, <1>2

\* Two operations on d are like one.
LEMMA OnlyOnTwice ==
  ASSUME NEW ix, NEW jx, NEW kx, NEW d, OnlyOn(ix, jx, d), OnlyOn(jx, kx, d)
  PROVE  OnlyOn(ix, kx, d)
BY DEF OnlyOn

\* A document with a vector has a node.
LEMMA VectorNode ==
  ASSUME NEW ix, IndexOK(ix), NEW d \in Docs, Mapped(ix, d)
  PROVE  /\ ix.doc_to_node[d] \in NodesOf(ix, d) \ ix.deleted_nodes
         /\ \A i \in NodesOf(ix, d) : i <= ix.doc_to_node[d]
BY DEF IndexOK, NodesOf

-----------------------------------------------------------------------------
(* The log.                                                                *)

\* The programs, spelled out.
LEMMA ProgramFacts ==
  ASSUME NEW d \in Docs, NEW ops \in ProgramsOn(d)
  PROVE  /\ ops \in Seq(IndexOps) /\ ops # <<>> /\ ops[1].doc = d
         /\ 1 \in DOMAIN ops /\ DOMAIN ops \subseteq {1, 2}
         /\ \A i \in DOMAIN ops : ops[i] \in {Insert(d), Delete(d)} /\ ops[i].doc = d
         /\ \/ ops = <<Insert(d)>> /\ Len(ops) = 1 /\ DOMAIN ops = {1} /\ ops[1] = Insert(d)
            \/ ops = <<Delete(d)>> /\ Len(ops) = 1 /\ DOMAIN ops = {1} /\ ops[1] = Delete(d)
            \/ ops = <<Delete(d), Insert(d)>> /\ Len(ops) = 2 /\ DOMAIN ops = {1, 2}
               /\ ops[1] = Delete(d) /\ ops[2] = Insert(d)
            \/ ops = <<Insert(d), Delete(d)>> /\ Len(ops) = 2 /\ DOMAIN ops = {1, 2}
               /\ ops[1] = Insert(d) /\ ops[2] = Delete(d)
<1>1. Insert(d) \in IndexOps /\ Delete(d) \in IndexOps /\ Insert(d).doc = d /\ Delete(d).doc = d
  BY DEF IndexOps, Insert, Delete
<1>2. 1 .. 1 = {1} /\ 1 .. 2 = {1, 2}
  OBVIOUS
<1>3. CASE ops = <<Insert(d)>>
  <2>1. Len(ops) = 1 /\ DOMAIN ops = {1} /\ ops[1] = Insert(d) /\ ops \in Seq(IndexOps)
    BY <1>1, <1>2, <1>3
  <2> QED BY <1>1, <1>3, <2>1
<1>4. CASE ops = <<Delete(d)>>
  <2>1. Len(ops) = 1 /\ DOMAIN ops = {1} /\ ops[1] = Delete(d) /\ ops \in Seq(IndexOps)
    BY <1>1, <1>2, <1>4
  <2> QED BY <1>1, <1>4, <2>1
<1>5. CASE ops = <<Delete(d), Insert(d)>>
  <2>1. /\ Len(ops) = 2 /\ DOMAIN ops = {1, 2} /\ ops[1] = Delete(d) /\ ops[2] = Insert(d)
        /\ ops \in Seq(IndexOps)
    BY <1>1, <1>2, <1>5
  <2> QED BY <1>1, <1>5, <2>1
<1>6. CASE ops = <<Insert(d), Delete(d)>>
  <2>1. /\ Len(ops) = 2 /\ DOMAIN ops = {1, 2} /\ ops[1] = Insert(d) /\ ops[2] = Delete(d)
        /\ ops \in Seq(IndexOps)
    BY <1>1, <1>2, <1>6
  <2> QED BY <1>1, <1>6, <2>1
<1> QED BY <1>3, <1>4, <1>5, <1>6 DEF ProgramsOn

\* Inserts and deletes, and those of different documents, are different.
LEMMA OpFacts ==
  ASSUME NEW d, NEW e
  PROVE  /\ Insert(d).kind = "insert" /\ Insert(d).doc = d
         /\ Delete(d).kind = "delete" /\ Delete(d).doc = d
         /\ Insert(d) # Delete(e)
         /\ Insert(d) = Insert(e) => d = e
         /\ Delete(d) = Delete(e) => d = e
<1>1. /\ Insert(d).kind = "insert" /\ Insert(d).doc = d /\ Insert(e).doc = e
      /\ Delete(d).kind = "delete" /\ Delete(d).doc = d /\ Delete(e).doc = e
      /\ Delete(e).kind = "delete"
  BY DEF Insert, Delete
<1> QED BY <1>1

\* The open entries of d are closed at s, the other entries are kept.
ClosedIn(E, F, d, s) ==
    \A i \in DOMAIN E :
        /\ i \in DOMAIN F /\ F[i].doc = E[i].doc /\ F[i].insert_seq = E[i].insert_seq
        /\ F[i].delete_seq = IF E[i].doc = d /\ E[i].delete_seq = None THEN s ELSE E[i].delete_seq

\* What rfind of the open entry finds.
LEMMA OpenEntryFacts ==
  ASSUME NEW log \in Logs, NEW d \in Docs, OnlyLastOpen(log.entries, d)
  PROVE  /\ OpenEntry(log, d) = None <=> AllClosed(log.entries, d)
         /\ \A i \in EntriesOf(log.entries, d) :
               log.entries[i].delete_seq = None <=> (OpenEntry(log, d) # None /\ OpenEntry(log, d) = i)
         /\ OpenEntry(log, d) # None => OpenEntry(log, d) \in EntriesOf(log.entries, d)
<1> DEFINE E == log.entries
           open == {i \in DOMAIN E : E[i].doc = d /\ E[i].delete_seq = None}
<1>0. E \in Seq(Entry) /\ DOMAIN E \subseteq Nat \ {0}
  BY DEF Logs
<1>1. OpenEntry(log, d) = IF open = {} THEN None ELSE CHOOSE i \in open : \A j \in open : j <= i
  BY DEF OpenEntry
<1>2. open \subseteq EntriesOf(E, d) /\ \A i \in EntriesOf(E, d) : E[i].delete_seq = None => i \in open
  BY DEF EntriesOf
<1>3. \A i, j \in open : i = j
  BY <1>0, <1>2 DEF OnlyLastOpen
<1>4. \A i \in open : E[i].delete_seq = None /\ i # None
  BY <1>0 DEF None
<1> HIDE DEF E, open
<1>5. CASE open = {}
  BY <1>1, <1>2, <1>5 DEF AllClosed, E
<1>6. CASE open # {}
  <2>1. PICK k \in open : TRUE
    BY <1>6
  <2>2. k \in Nat /\ \A j \in open : j <= k
    BY <1>0, <1>2, <1>3 DEF EntriesOf
  <2>3. OpenEntry(log, d) = k
    BY <1>1, <1>3, <1>6, <2>1, <2>2
  <2> QED BY <2>1, <2>3, <1>2, <1>3, <1>4 DEF AllClosed, E
<1> QED BY <1>5, <1>6

\* Closing the open entry changes its delete_seq and nothing else.
LEMMA CloseOpenFacts ==
  ASSUME NEW log \in Logs, NEW d \in Docs, NEW s \in Txs, OnlyLastOpen(log.entries, d),
         NEW F, F = CloseOpen(log, d, s)
  PROVE  F \in Seq(Entry) /\ DOMAIN F = DOMAIN log.entries /\ ClosedIn(log.entries, F, d, s)
         /\ Len(F) = Len(log.entries)
<1> DEFINE E == log.entries
           k == OpenEntry(log, d)
<1>0. E \in Seq(Entry)
  BY DEF Logs
<1>1. /\ k = None <=> AllClosed(E, d)
      /\ \A i \in EntriesOf(E, d) : E[i].delete_seq = None <=> (k # None /\ k = i)
      /\ k # None => k \in EntriesOf(E, d)
  BY OpenEntryFacts
<1>2. F = IF k = None THEN E ELSE [E EXCEPT ![k].delete_seq = s]
  BY DEF CloseOpen
<1> HIDE DEF E, k
<1>3. CASE k = None
  <2>1. \A i \in DOMAIN E : ~(E[i].doc = d /\ E[i].delete_seq = None)
    BY <1>1, <1>3 DEF AllClosed, EntriesOf
  <2> QED BY <1>0, <1>2, <1>3, <2>1 DEF ClosedIn, E
<1>4. CASE k # None
  <2>1. k \in DOMAIN E /\ E[k].doc = d /\ E[k].delete_seq = None /\ E[k] \in Entry
    BY <1>0, <1>1, <1>4 DEF EntriesOf
  <2>2. F = [E EXCEPT ![k] = [E[k] EXCEPT !.delete_seq = s]]
    BY <1>2, <1>4
  <2>3. /\ [E[k] EXCEPT !.delete_seq = s] \in Entry
        /\ [E[k] EXCEPT !.delete_seq = s].doc = E[k].doc
        /\ [E[k] EXCEPT !.delete_seq = s].insert_seq = E[k].insert_seq
        /\ [E[k] EXCEPT !.delete_seq = s].delete_seq = s
    BY <2>1 DEF Entry
  <2>4. DOMAIN F = DOMAIN E /\ \A i \in DOMAIN E : F[i] = IF i = k THEN [E[k] EXCEPT !.delete_seq = s] ELSE E[i]
    BY <2>1, <2>2, <1>0
  <2>5. F \in Seq(Entry) /\ Len(F) = Len(E)
    BY <2>2, <2>3, <2>1, <1>0
  <2>6. ASSUME NEW i \in DOMAIN E
        PROVE  /\ i \in DOMAIN F /\ F[i].doc = E[i].doc /\ F[i].insert_seq = E[i].insert_seq
               /\ F[i].delete_seq = IF E[i].doc = d /\ E[i].delete_seq = None THEN s ELSE E[i].delete_seq
    <3>1. E[i].doc = d /\ E[i].delete_seq = None <=> i = k
      BY <1>1, <1>4, <2>1 DEF EntriesOf
    <3> QED BY <2>3, <2>4, <3>1
  <2> QED BY <2>4, <2>5, <2>6 DEF ClosedIn, E
<1> QED BY <1>3, <1>4

\* record_insert closes the open entry and adds a new one.
LEMMA RecordInsert ==
  ASSUME NEW log \in Logs, NEW d \in Docs, NEW s \in Txs, OnlyLastOpen(log.entries, d),
         NEW lg, lg = record_insert(log, d, s), NEW n, n = Len(log.entries) + 1
  PROVE  /\ lg \in Logs /\ ClosedIn(log.entries, lg.entries, d, s)
         /\ DOMAIN lg.entries = DOMAIN log.entries \union {n}
         /\ \A i \in DOMAIN log.entries : i < n /\ i \in Nat
         /\ n \in Nat /\ n \notin DOMAIN log.entries
         /\ lg.entries[n].doc = d /\ lg.entries[n].insert_seq = s /\ lg.entries[n].delete_seq = None
         /\ lg.deletions = [log.deletions EXCEPT ![d] = None]
<1> DEFINE F == CloseOpen(log, d, s)
           x == [doc |-> d, insert_seq |-> s, delete_seq |-> None]
<1>0. F \in Seq(Entry) /\ DOMAIN F = DOMAIN log.entries /\ ClosedIn(log.entries, F, d, s)
      /\ Len(F) = Len(log.entries)
  BY CloseOpenFacts
<1>1. log.entries \in Seq(Entry) /\ log.deletions \in [Docs -> Txs \union {None}]
  BY DEF Logs
<1>2. lg = [entries |-> Append(F, x), deletions |-> [log.deletions EXCEPT ![d] = None]]
  BY DEF record_insert
<1>3. x \in Entry /\ x.doc = d /\ x.insert_seq = s /\ x.delete_seq = None
  BY DEF Entry
<1> HIDE DEF F, x
<1>4. n \in Nat /\ n = Len(F) + 1 /\ DOMAIN F = 1 .. (n - 1)
  BY <1>0
<1>5. /\ Append(F, x) \in Seq(Entry) /\ DOMAIN Append(F, x) = 1 .. n
      /\ \A i \in 1 .. (n - 1) : Append(F, x)[i] = F[i]
      /\ Append(F, x)[n] = x
  BY <1>0, <1>3, <1>4
<1>6. /\ n \notin DOMAIN F /\ 1 .. n = DOMAIN F \union {n}
      /\ \A i \in DOMAIN F : i < n /\ i \in Nat
  BY <1>4
<1>7. lg \in Logs
  BY <1>1, <1>2, <1>5 DEF Logs
<1>8. ClosedIn(log.entries, lg.entries, d, s)
  BY <1>0, <1>2, <1>4, <1>5, <1>6 DEF ClosedIn
<1> QED BY <1>0, <1>2, <1>3, <1>5, <1>6, <1>4, <1>7, <1>8

\* record_delete closes the open entry and remembers the delete if there was one.
LEMMA RecordDelete ==
  ASSUME NEW log \in Logs, NEW d \in Docs, NEW s \in Txs, OnlyLastOpen(log.entries, d),
         NEW lg, lg = record_delete(log, d, s)
  PROVE  /\ lg \in Logs /\ ClosedIn(log.entries, lg.entries, d, s)
         /\ DOMAIN lg.entries = DOMAIN log.entries
         /\ lg.deletions = [log.deletions EXCEPT
                              ![d] = IF AllClosed(log.entries, d) THEN log.deletions[d] ELSE s]
         /\ AllClosed(lg.entries, d)
<1> DEFINE F == CloseOpen(log, d, s)
<1>0. F \in Seq(Entry) /\ DOMAIN F = DOMAIN log.entries /\ ClosedIn(log.entries, F, d, s)
  BY CloseOpenFacts
<1>1. log.entries \in Seq(Entry) /\ log.deletions \in [Docs -> Txs \union {None}]
  BY DEF Logs
<1>2. OpenEntry(log, d) = None <=> AllClosed(log.entries, d)
  BY OpenEntryFacts
<1>3. lg = [entries |-> F,
            deletions |-> [log.deletions EXCEPT
                             ![d] = IF AllClosed(log.entries, d) THEN log.deletions[d] ELSE s]]
  BY <1>2 DEF record_delete
<1> HIDE DEF F
<1>4. lg \in Logs
  BY <1>0, <1>1, <1>3 DEF Logs
<1>5. AllClosed(F, d)
  BY <1>0 DEF ClosedIn, AllClosed, EntriesOf, Txs, None
<1> QED BY <1>0, <1>3, <1>4, <1>5

\* A commit of transaction s on document d, in the log.
LogStep(log, lg, d, s) ==
    LET E == log.entries
        F == lg.entries
    IN  /\ ClosedIn(E, F, d, s)
        /\ \A i \in DOMAIN F \ DOMAIN E :
              /\ F[i].doc = d /\ F[i].insert_seq = s /\ F[i].delete_seq \in {None, s}
              /\ \A j \in DOMAIN F \ {i} : j < i
        /\ \A e \in Docs \ {d} : lg.deletions[e] = log.deletions[e]
        /\ \/ lg.deletions[d] = s
           \/ lg.deletions[d] = log.deletions[d] /\ AllClosed(E, d) /\ DOMAIN F = DOMAIN E
           \/ lg.deletions[d] = None /\ ~AllClosed(F, d)

\* The programs that leave d with a vector.
Puts(ops, d) == ops = <<Insert(d)>> \/ ops = <<Delete(d), Insert(d)>>

\* record_insert is a LogStep, and leaves an open entry.
LEMMA RecordInsertStep ==
  ASSUME NEW log \in Logs, NEW d \in Docs, NEW s \in Txs, OnlyLastOpen(log.entries, d),
         NEW lg, lg = record_insert(log, d, s)
  PROVE  /\ lg \in Logs /\ LogStep(log, lg, d, s) /\ OnlyLastOpen(lg.entries, d)
         /\ \E i \in EntriesOf(lg.entries, d) :
               lg.entries[i].delete_seq = None /\ lg.entries[i].insert_seq = s
<1> DEFINE E == log.entries
           F == lg.entries
           n == Len(E) + 1
<1>1. /\ lg \in Logs /\ ClosedIn(E, F, d, s)
      /\ DOMAIN F = DOMAIN E \union {n}
      /\ \A i \in DOMAIN E : i < n /\ i \in Nat
      /\ n \in Nat /\ n \notin DOMAIN E
      /\ F[n].doc = d /\ F[n].insert_seq = s /\ F[n].delete_seq = None
      /\ lg.deletions = [log.deletions EXCEPT ![d] = None]
  <2> HIDE DEF n
  <2> QED BY RecordInsert DEF n
<1>2. log.deletions \in [Docs -> Txs \union {None}]
  BY DEF Logs
<1> HIDE DEF E, F, n
<1>3. lg.deletions[d] = None /\ \A e \in Docs \ {d} : lg.deletions[e] = log.deletions[e]
  BY <1>1, <1>2
<1>4. n \in EntriesOf(F, d) /\ ~AllClosed(F, d)
  BY <1>1 DEF EntriesOf, AllClosed
<1>5. LogStep(log, lg, d, s)
  <2>1. \A i \in DOMAIN F \ DOMAIN E :
          /\ F[i].doc = d /\ F[i].insert_seq = s /\ F[i].delete_seq \in {None, s}
          /\ \A j \in DOMAIN F \ {i} : j < i
    BY <1>1
  <2> QED BY <2>1, <1>1, <1>3, <1>4 DEF LogStep, E, F
<1>6. OnlyLastOpen(F, d)
  <2> SUFFICES ASSUME NEW i \in EntriesOf(F, d), NEW j \in EntriesOf(F, d), i < j
               PROVE  F[i].delete_seq # None
    BY DEF OnlyLastOpen
  <2>1. i \in DOMAIN E
    BY <1>1 DEF EntriesOf
  <2> QED BY <2>1, <1>1 DEF ClosedIn, EntriesOf, Txs, None
<1> QED BY <1>1, <1>4, <1>5, <1>6 DEF E, F

\* record_delete is a LogStep, and leaves no open entry.
LEMMA RecordDeleteStep ==
  ASSUME NEW log \in Logs, NEW d \in Docs, NEW s \in Txs, OnlyLastOpen(log.entries, d),
         NEW lg, lg = record_delete(log, d, s)
  PROVE  /\ lg \in Logs /\ LogStep(log, lg, d, s) /\ OnlyLastOpen(lg.entries, d)
         /\ AllClosed(lg.entries, d)
<1>1. /\ lg \in Logs /\ ClosedIn(log.entries, lg.entries, d, s)
      /\ DOMAIN lg.entries = DOMAIN log.entries
      /\ lg.deletions = [log.deletions EXCEPT
                           ![d] = IF AllClosed(log.entries, d) THEN log.deletions[d] ELSE s]
      /\ AllClosed(lg.entries, d)
  BY RecordDelete
<1>2. log.deletions \in [Docs -> Txs \union {None}]
  BY DEF Logs
<1>3. /\ lg.deletions[d] = IF AllClosed(log.entries, d) THEN log.deletions[d] ELSE s
      /\ \A e \in Docs \ {d} : lg.deletions[e] = log.deletions[e]
  BY <1>1, <1>2
<1>4. LogStep(log, lg, d, s)
  BY <1>1, <1>3 DEF LogStep
<1>5. OnlyLastOpen(lg.entries, d)
  BY <1>1 DEF OnlyLastOpen, AllClosed
<1> QED BY <1>1, <1>4, <1>5

\* Update as delete and insert: the delete has closed the open entry.
LEMMA DeleteInsertStep ==
  ASSUME NEW log \in Logs, NEW d \in Docs, NEW s \in Txs, OnlyLastOpen(log.entries, d),
         NEW mid, mid = record_delete(log, d, s), NEW lg, lg = record_insert(mid, d, s)
  PROVE  /\ lg \in Logs /\ LogStep(log, lg, d, s) /\ OnlyLastOpen(lg.entries, d)
         /\ \E i \in EntriesOf(lg.entries, d) :
               lg.entries[i].delete_seq = None /\ lg.entries[i].insert_seq = s
<1>1. mid \in Logs /\ OnlyLastOpen(mid.entries, d)
  BY RecordDeleteStep
<1>2. /\ ClosedIn(log.entries, mid.entries, d, s)
      /\ DOMAIN mid.entries = DOMAIN log.entries
      /\ mid.deletions = [log.deletions EXCEPT
                           ![d] = IF AllClosed(log.entries, d) THEN log.deletions[d] ELSE s]
      /\ AllClosed(mid.entries, d)
  BY RecordDelete
<1>3. /\ lg \in Logs /\ LogStep(mid, lg, d, s) /\ OnlyLastOpen(lg.entries, d)
      /\ \E i \in EntriesOf(lg.entries, d) :
             lg.entries[i].delete_seq = None /\ lg.entries[i].insert_seq = s
  BY <1>1, RecordInsertStep
<1>4. ClosedIn(log.entries, lg.entries, d, s)
  BY <1>2, <1>3 DEF LogStep, ClosedIn, AllClosed, EntriesOf
<1>5. \A e \in Docs \ {d} : lg.deletions[e] = log.deletions[e]
  <2>1. log.deletions \in [Docs -> Txs \union {None}]
    BY DEF Logs
  <2> QED BY <1>2, <1>3, <2>1 DEF LogStep
<1>6. lg.deletions[d] = None /\ ~AllClosed(lg.entries, d)
  <2>1. lg.deletions = [mid.deletions EXCEPT ![d] = None] /\ mid.deletions \in [Docs -> Txs \union {None}]
    BY <1>1, RecordInsert DEF Logs
  <2>2. lg.deletions[d] = None
    BY <2>1
  <2> QED BY <2>2, <1>3 DEF AllClosed
<1>7. LogStep(log, lg, d, s)
  <2>1. \A i \in DOMAIN lg.entries \ DOMAIN log.entries :
          /\ lg.entries[i].doc = d /\ lg.entries[i].insert_seq = s /\ lg.entries[i].delete_seq \in {None, s}
          /\ \A j \in DOMAIN lg.entries \ {i} : j < i
    BY <1>2, <1>3 DEF LogStep
  <2> QED BY <2>1, <1>4, <1>5, <1>6 DEF LogStep
<1> QED BY <1>3, <1>7

\* A document created and deleted at once: its entry is closed as it was opened.
LEMMA InsertDeleteStep ==
  ASSUME NEW log \in Logs, NEW d \in Docs, NEW s \in Txs, OnlyLastOpen(log.entries, d),
         NEW mid, mid = record_insert(log, d, s), NEW lg, lg = record_delete(mid, d, s)
  PROVE  /\ lg \in Logs /\ LogStep(log, lg, d, s) /\ OnlyLastOpen(lg.entries, d)
         /\ AllClosed(lg.entries, d)
<1>1. /\ mid \in Logs /\ LogStep(log, mid, d, s) /\ OnlyLastOpen(mid.entries, d)
      /\ ~AllClosed(mid.entries, d)
  BY RecordInsertStep DEF AllClosed
<1>2. /\ lg \in Logs /\ OnlyLastOpen(lg.entries, d) /\ AllClosed(lg.entries, d)
  BY <1>1, RecordDeleteStep
<1>3. /\ ClosedIn(mid.entries, lg.entries, d, s)
      /\ DOMAIN lg.entries = DOMAIN mid.entries
      /\ lg.deletions = [mid.deletions EXCEPT ![d] = s]
  BY <1>1, RecordDelete
<1>4. mid.deletions \in [Docs -> Txs \union {None}]
  BY <1>1 DEF Logs
<1>5. lg.deletions[d] = s /\ \A e \in Docs \ {d} : lg.deletions[e] = log.deletions[e]
  BY <1>1, <1>3, <1>4 DEF LogStep
<1>6. ClosedIn(log.entries, lg.entries, d, s)
  BY <1>1, <1>3 DEF LogStep, ClosedIn
<1>7. \A i \in DOMAIN lg.entries \ DOMAIN log.entries :
          /\ lg.entries[i].doc = d /\ lg.entries[i].insert_seq = s /\ lg.entries[i].delete_seq \in {None, s}
          /\ \A j \in DOMAIN lg.entries \ {i} : j < i
  BY <1>1, <1>3 DEF LogStep, ClosedIn
<1>8. LogStep(log, lg, d, s)
  BY <1>5, <1>6, <1>7 DEF LogStep
<1> QED BY <1>2, <1>8

\* What a commit logs for its document.
LEMMA RecordAllStep ==
  ASSUME NEW log \in Logs, NEW d \in Docs, commit.tx \in Txs, OnlyLastOpen(log.entries, d),
         NEW ops \in ProgramsOn(d), NEW lg, lg = RecordAll(log, ops)
  PROVE  /\ lg \in Logs /\ LogStep(log, lg, d, commit.tx) /\ OnlyLastOpen(lg.entries, d)
         /\ Puts(ops, d) => \E i \in EntriesOf(lg.entries, d) :
               lg.entries[i].delete_seq = None /\ lg.entries[i].insert_seq = commit.tx
         /\ ~Puts(ops, d) => AllClosed(lg.entries, d)
<1> DEFINE s == commit.tx
<1>0. /\ Insert(d).kind = "insert" /\ Insert(d).doc = d
      /\ Delete(d).kind = "delete" /\ Delete(d).doc = d
      /\ \A lo : /\ Record(lo, Insert(d)) = record_insert(lo, d, s)
                 /\ Record(lo, Delete(d)) = record_delete(lo, d, s)
  BY DEF Record, Insert, Delete
<1> HIDE DEF s
<1>1. CASE ops = <<Insert(d)>>
  <2>1. lg = record_insert(log, d, s) /\ Puts(ops, d)
    BY <1>0, <1>1, ProgramFacts, OpFacts DEF RecordAll, Puts
  <2> QED BY <2>1, RecordInsertStep DEF s
<1>2. CASE ops = <<Delete(d)>>
  <2>1. Len(ops) = 1 /\ ops[1] = Delete(d) /\ ~Puts(ops, d)
    <3>1. Len(ops) = 1 /\ ops[1] = Delete(d)
      BY <1>2
    <3>2. ops # <<Insert(d)>> /\ ops # <<Delete(d), Insert(d)>>
      BY <3>1, OpFacts
    <3> QED BY <3>1, <3>2 DEF Puts
  <2>2. lg = record_delete(log, d, s)
    BY <1>0, <2>1 DEF RecordAll
  <2> QED BY <2>1, <2>2, RecordDeleteStep DEF s
<1>3. CASE ops = <<Delete(d), Insert(d)>>
  <2>1. Len(ops) = 2 /\ ops[1] = Delete(d) /\ ops[2] = Insert(d) /\ Puts(ops, d)
    BY <1>3 DEF Puts
  <2>2. lg = record_insert(record_delete(log, d, s), d, s)
    BY <1>0, <2>1 DEF RecordAll
  <2> QED BY <2>1, <2>2, DeleteInsertStep DEF s
<1>4. CASE ops = <<Insert(d), Delete(d)>>
  <2>1. Len(ops) = 2 /\ ops[1] = Insert(d) /\ ops[2] = Delete(d) /\ ~Puts(ops, d)
    <3>1. Len(ops) = 2 /\ ops[1] = Insert(d) /\ ops[2] = Delete(d)
      BY <1>4
    <3>2. ops # <<Insert(d)>> /\ ops # <<Delete(d), Insert(d)>>
      BY <3>1, OpFacts
    <3> QED BY <3>1, <3>2 DEF Puts
  <2>2. lg = record_delete(record_insert(log, d, s), d, s)
    BY <1>0, <2>1 DEF RecordAll
  <2> QED BY <2>1, <2>2, InsertDeleteStep DEF s
<1> QED BY <1>1, <1>2, <1>3, <1>4 DEF ProgramsOn

\* What is_visible decides, without the CHOOSE.
VisibleIn(E, d, p) ==
    \E k \in EntriesOf(E, d) :
        /\ E[k].insert_seq <= p
        /\ \A j \in EntriesOf(E, d) : E[j].insert_seq <= p => j <= k
        /\ E[k].delete_seq = None \/ E[k].delete_seq > p

\* is_visible in terms of the entries.
LEMMA VisibleIs ==
  ASSUME NEW log \in Logs, NEW d \in Docs, NEW p \in Nat
  PROVE  is_visible(log, d, p) <=> VisibleIn(log.entries, d, p)
<1> DEFINE E == log.entries
           seen == {i \in DOMAIN E : E[i].doc = d /\ E[i].insert_seq <= p}
           top == CHOOSE i \in seen : \A j \in seen : j <= i
<1>0. E \in Seq(Entry) /\ Len(E) \in Nat /\ DOMAIN E = 1 .. Len(E)
  BY DEF Logs
<1>1. is_visible(log, d, p) <=> seen # {} /\ (E[top].delete_seq = None \/ E[top].delete_seq > p)
  BY DEF is_visible
<1>2. seen = {i \in EntriesOf(E, d) : E[i].insert_seq <= p} /\ seen \subseteq Nat
      /\ \A i \in seen : i <= Len(E)
  BY <1>0 DEF EntriesOf
<1> HIDE DEF seen, E
<1>3. ASSUME seen # {} PROVE top \in seen /\ \A j \in seen : j <= top
  <2>1. \E i \in seen : \A j \in seen : j <= i
    BY <1>0, <1>2, <1>3, GreatestExists
  <2> QED BY <2>1
<1> HIDE DEF top
<1>4. ASSUME is_visible(log, d, p) PROVE VisibleIn(E, d, p)
  BY <1>1, <1>2, <1>3, <1>4 DEF VisibleIn
<1>5. ASSUME VisibleIn(E, d, p) PROVE is_visible(log, d, p)
  <2>1. PICK k \in EntriesOf(E, d) :
          /\ E[k].insert_seq <= p
          /\ \A j \in EntriesOf(E, d) : E[j].insert_seq <= p => j <= k
          /\ E[k].delete_seq = None \/ E[k].delete_seq > p
    BY <1>5 DEF VisibleIn
  <2>2. k \in seen /\ \A j \in seen : j <= k
    BY <1>2, <2>1
  <2>3. top = k
    BY <1>2, <1>3, <2>2
  <2> QED BY <1>1, <2>1, <2>2, <2>3
<1> QED BY <1>4, <1>5 DEF E

\* The types of the fields of an entry.
LEMMA EntryTypes ==
  ASSUME NEW E \in Seq(Entry), NEW i \in DOMAIN E
  PROVE  /\ i \in Nat /\ E[i].doc \in Docs
         /\ E[i].insert_seq \in Nat /\ E[i].insert_seq \in Txs /\ E[i].insert_seq # 0
         /\ E[i].delete_seq \in Nat /\ E[i].delete_seq \in Txs \union {None}
<1>1. E[i] \in Entry /\ i \in Nat
  OBVIOUS
<1>2. Txs \subseteq Nat /\ 0 \notin Txs
  BY HnswAssumption DEF Txs
<1>3. /\ E[i].doc \in Docs /\ E[i].insert_seq \in Txs
      /\ E[i].delete_seq \in Txs \union {None}
  BY <1>1 DEF Entry
<1>4. E[i].insert_seq \in Nat /\ E[i].insert_seq # 0
  BY <1>2, <1>3
<1>5. E[i].delete_seq \in Nat
  <2>1. E[i].delete_seq \in Txs \/ E[i].delete_seq = 0
    BY <1>3 DEF None
  <2>2. CASE E[i].delete_seq \in Txs
    BY <1>2, <2>2
  <2>3. CASE E[i].delete_seq = 0
    BY <2>3
  <2> QED BY <2>1, <2>2, <2>3
<1> QED BY <1>1, <1>3, <1>4, <1>5

\* The documents a commit is not about.
LEMMA LogStepOthers ==
  ASSUME NEW log \in Logs, NEW lg \in Logs, NEW d, NEW s, LogStep(log, lg, d, s),
         NEW e \in Docs, e # d, NEW E, E = log.entries, NEW F, F = lg.entries
  PROVE  /\ EntriesOf(F, e) = EntriesOf(E, e)
         /\ \A i \in EntriesOf(E, e) : /\ F[i].insert_seq = E[i].insert_seq
                                       /\ F[i].delete_seq = E[i].delete_seq
         /\ OnlyLastOpen(F, e) <=> OnlyLastOpen(E, e)
         /\ AllClosed(F, e) <=> AllClosed(E, e)
         /\ \A c : Changed(F, e, c) <=> Changed(E, e, c)
         /\ \A c : LiveAt(F, e, c) <=> LiveAt(E, e, c)
         /\ \A c : Chain(F, e, c) <=> Chain(E, e, c)
         /\ \A c : VisibleIn(F, e, c) <=> VisibleIn(E, e, c)
         /\ lg.deletions[e] = log.deletions[e]
<1>1. /\ EntriesOf(F, e) = EntriesOf(E, e) /\ lg.deletions[e] = log.deletions[e]
      /\ \A i \in EntriesOf(E, e) : /\ F[i].insert_seq = E[i].insert_seq
                                    /\ F[i].delete_seq = E[i].delete_seq
  BY DEF LogStep, ClosedIn, EntriesOf
<1>2. OnlyLastOpen(F, e) <=> OnlyLastOpen(E, e)
  BY <1>1 DEF OnlyLastOpen
<1>3. AllClosed(F, e) <=> AllClosed(E, e)
  BY <1>1 DEF AllClosed
<1>4. \A c : Changed(F, e, c) <=> Changed(E, e, c)
  BY <1>1 DEF Changed
<1>5. \A c : LiveAt(F, e, c) <=> LiveAt(E, e, c)
  BY <1>1 DEF LiveAt
<1>6. \A c : Chain(F, e, c) <=> Chain(E, e, c)
  BY <1>1 DEF Chain
<1>7. \A c : VisibleIn(F, e, c) <=> VisibleIn(E, e, c)
  BY <1>1 DEF VisibleIn
<1> QED BY <1>1, <1>2, <1>3, <1>4, <1>5, <1>6, <1>7

\* The document a commit is about, when its transaction is newer than all the log
\* says of the document.
LEMMA LogStepNewer ==
  ASSUME NEW log \in Logs, NEW lg \in Logs, NEW d \in Docs, NEW s \in Txs,
         LogStep(log, lg, d, s), OnlyLastOpen(log.entries, d),
         NEW b \in Nat, b < s,
         \A i \in EntriesOf(log.entries, d) :
             log.entries[i].insert_seq <= b /\ log.entries[i].delete_seq <= b,
         NEW c \in Nat, c <= b
  PROVE  /\ Chain(log.entries, d, c) => Chain(lg.entries, d, c)
         /\ LiveAt(log.entries, d, c) => LiveAt(lg.entries, d, c)
         /\ VisibleIn(lg.entries, d, c) => VisibleIn(log.entries, d, c)
<1> DEFINE E == log.entries
           F == lg.entries
<1>0. /\ E \in Seq(Entry) /\ F \in Seq(Entry) /\ s \in Nat /\ s # None
  BY HnswAssumption DEF Logs, Txs, None
<1>1. \A i \in EntriesOf(E, d) :
         /\ i \in Nat /\ E[i].insert_seq \in Nat /\ E[i].delete_seq \in Nat
         /\ i \in EntriesOf(F, d) /\ F[i].insert_seq = E[i].insert_seq
         /\ F[i].delete_seq = IF E[i].delete_seq = None THEN s ELSE E[i].delete_seq
         /\ E[i].insert_seq <= b /\ E[i].delete_seq <= b
  <2>1. \A i \in EntriesOf(E, d) : i \in Nat /\ E[i].insert_seq \in Nat /\ E[i].delete_seq \in Nat
    BY <1>0, EntryTypes DEF EntriesOf
  <2>2. ClosedIn(E, F, d, s)
    BY DEF LogStep
  <2>3. \A i \in EntriesOf(E, d) :
         /\ i \in EntriesOf(F, d) /\ F[i].insert_seq = E[i].insert_seq
         /\ F[i].delete_seq = IF E[i].delete_seq = None THEN s ELSE E[i].delete_seq
    BY <2>2 DEF ClosedIn, EntriesOf
  <2> QED BY <2>1, <2>3
<1>2. \A i \in EntriesOf(F, d) :
         /\ i \in Nat
         /\ i \notin EntriesOf(E, d) =>
              /\ F[i].insert_seq = s /\ F[i].delete_seq \in {None, s}
              /\ \A j \in EntriesOf(F, d) \ {i} : j < i
  <2>1. ASSUME NEW i \in EntriesOf(F, d) PROVE i \in Nat
    BY <1>0, EntryTypes DEF EntriesOf
  <2>2. ASSUME NEW i \in EntriesOf(F, d), i \notin EntriesOf(E, d) PROVE i \in DOMAIN F \ DOMAIN E
    BY <2>2 DEF LogStep, ClosedIn, EntriesOf
  <2>3. ASSUME NEW i \in EntriesOf(F, d), i \notin EntriesOf(E, d)
        PROVE  /\ F[i].insert_seq = s /\ F[i].delete_seq \in {None, s}
               /\ \A j \in EntriesOf(F, d) \ {i} : j < i
    BY <2>2, <2>3 DEF LogStep, EntriesOf
  <2> QED BY <2>1, <2>3
<1>3. \A i, j \in EntriesOf(E, d) : i < j => E[i].delete_seq # None
  BY DEF OnlyLastOpen
<1> HIDE DEF E, F
<1>4. ASSUME Chain(E, d, c) PROVE Chain(F, d, c)
  <2>1. ASSUME NEW i \in EntriesOf(F, d), F[i].insert_seq > c, F[i].delete_seq # None
        PROVE  F[i].insert_seq <= F[i].delete_seq
    <3>1. CASE i \in EntriesOf(E, d)
      <4>1. E[i].insert_seq > c /\ E[i].delete_seq # None => E[i].insert_seq <= E[i].delete_seq
        BY <1>4, <3>1 DEF Chain
      <4> QED BY <4>1, <2>1, <3>1, <1>1, <1>0
    <3>2. CASE i \notin EntriesOf(E, d)
      BY <2>1, <3>2, <1>2, <1>0
    <3> QED BY <3>1, <3>2
  <2>2. ASSUME NEW i \in EntriesOf(F, d), NEW j \in EntriesOf(F, d), i < j
        PROVE  /\ F[j].insert_seq > c => F[i].delete_seq <= F[j].insert_seq
               /\ F[i].insert_seq > c \/ F[i].delete_seq > c => F[j].insert_seq > c
    <3>1. i \in EntriesOf(E, d)
      BY <2>2, <1>2
    <3>2. CASE j \in EntriesOf(E, d)
      <4>1. /\ E[j].insert_seq > c => E[i].delete_seq <= E[j].insert_seq
            /\ E[i].insert_seq > c \/ E[i].delete_seq > c => E[j].insert_seq > c
        BY <1>4, <2>2, <3>1, <3>2 DEF Chain
      <4>2. F[i].delete_seq = E[i].delete_seq
        BY <1>1, <1>3, <2>2, <3>1, <3>2
      <4> QED BY <4>1, <4>2, <3>1, <3>2, <1>1
    <3>3. CASE j \notin EntriesOf(E, d)
      <4>1. F[j].insert_seq = s
        BY <3>3, <1>2
      <4> QED BY <4>1, <3>1, <1>0, <1>1
    <3> QED BY <3>2, <3>3
  <2> QED BY <2>1, <2>2 DEF Chain
<1>5. ASSUME LiveAt(E, d, c) PROVE LiveAt(F, d, c)
  <2>1. PICK i \in EntriesOf(E, d) :
          E[i].insert_seq <= c /\ (E[i].delete_seq = None \/ E[i].delete_seq > c)
    BY <1>5 DEF LiveAt
  <2>2. i \in EntriesOf(F, d) /\ F[i].insert_seq <= c /\ F[i].delete_seq > c
    BY <2>1, <1>0, <1>1
  <2> QED BY <2>2 DEF LiveAt
<1>6. ASSUME VisibleIn(F, d, c) PROVE VisibleIn(E, d, c)
  <2>1. PICK k \in EntriesOf(F, d) :
          /\ F[k].insert_seq <= c
          /\ \A j \in EntriesOf(F, d) : F[j].insert_seq <= c => j <= k
          /\ F[k].delete_seq = None \/ F[k].delete_seq > c
    BY <1>6 DEF VisibleIn
  <2>2. k \in EntriesOf(E, d)
    BY <2>1, <1>0, <1>2
  <2>3. E[k].insert_seq <= c /\ (E[k].delete_seq = None \/ E[k].delete_seq > c)
    BY <2>1, <2>2, <1>1
  <2>4. \A j \in EntriesOf(E, d) : E[j].insert_seq <= c => j <= k
    BY <2>1, <1>1
  <2> QED BY <2>2, <2>3, <2>4 DEF VisibleIn
<1> QED BY <1>4, <1>5, <1>6 DEF E, F

\* After a step with a newer transaction deletions has the last delete again.
LEMMA LogStepDeletions ==
  ASSUME NEW log \in Logs, NEW lg \in Logs, NEW d \in Docs, NEW s \in Txs,
         LogStep(log, lg, d, s),
         NEW b \in Nat, b < s,
         \A i \in EntriesOf(log.entries, d) : log.entries[i].delete_seq <= b,
         AllClosed(log.entries, d) =>
             \A i \in EntriesOf(log.entries, d) : log.entries[i].delete_seq <= log.deletions[d],
         AllClosed(lg.entries, d)
  PROVE  \A i \in EntriesOf(lg.entries, d) : lg.entries[i].delete_seq <= lg.deletions[d]
<1> DEFINE E == log.entries
           F == lg.entries
<1>0. E \in Seq(Entry) /\ F \in Seq(Entry) /\ s \in Nat
  BY HnswAssumption DEF Logs, Txs
<1>1. ClosedIn(E, F, d, s)
  BY DEF LogStep
<1>2. \A i \in EntriesOf(E, d) :
         /\ i \in EntriesOf(F, d) /\ E[i].delete_seq \in Nat
         /\ F[i].delete_seq = IF E[i].delete_seq = None THEN s ELSE E[i].delete_seq
  BY <1>0, <1>1, EntryTypes DEF ClosedIn, EntriesOf
<1>3. CASE lg.deletions[d] = s
  <2>1. ASSUME NEW i \in EntriesOf(F, d) PROVE F[i].delete_seq <= s
    <3>1. CASE i \in DOMAIN E
      <4>1. i \in EntriesOf(E, d)
        BY <3>1, <1>1 DEF ClosedIn, EntriesOf
      <4> QED BY <4>1, <1>0, <1>2
    <3>2. CASE i \notin DOMAIN E
      <4>1. F[i].delete_seq \in {None, s}
        BY <3>2 DEF LogStep, EntriesOf
      <4> QED BY <4>1, <1>0 DEF None
    <3> QED BY <3>1, <3>2
  <2> QED BY <2>1, <1>3
<1>4. CASE lg.deletions[d] = log.deletions[d] /\ AllClosed(E, d) /\ DOMAIN F = DOMAIN E
  <2>1. ASSUME NEW i \in EntriesOf(F, d) PROVE i \in EntriesOf(E, d)
    BY <1>1, <1>4 DEF ClosedIn, EntriesOf
  <2>2. \A i \in EntriesOf(E, d) : E[i].delete_seq # None /\ E[i].delete_seq <= log.deletions[d]
    BY <1>4 DEF AllClosed
  <2> QED BY <2>1, <2>2, <1>2, <1>4
<1> QED BY <1>3, <1>4 DEF LogStep

-----------------------------------------------------------------------------
(* What a step does not touch.                                             *)

\* The running commit is the same but for what it has still to apply.
CommitSame == commit'.at = commit.at /\ commit'.tx = commit.tx /\ commit'.ops = commit.ops

\* The buffers of transactions, in steps that leave them alone.
LEMMA BufferFrame ==
  ASSUME BufferInv, Busy' <=> Busy, commit'.tx = commit.tx, UNCHANGED <<tx_buffer, begun, last_tx_id>>
  PROVE  BufferInv'
BY DEF BufferInv

\* The running commit, in steps that leave it alone.
LEMMA CommitFrame ==
  ASSUME CommitInv, UNCHANGED <<commit, begun, last_tx_id>>
  PROVE  CommitInv'
BY DEF CommitInv, Busy, AppliedBefore

\* The bounds of sequence numbers, in steps that leave log, pins and last_tx_id alone.
LEMMA BoundFrame ==
  ASSUME BoundInv, CommitSame, UNCHANGED <<last_tx_id, seq_log, pins>>
  PROVE  /\ NodesBound(index) /\ index' = index => NodesBound(index)'
         /\ NodesBound(rebuild.new) /\ rebuild'.new = rebuild.new => NodesBound(rebuild.new)'
         /\ NodesBound(index)' /\ NodesBound(rebuild.new)' => BoundInv'
BY DEF BoundInv, NodesBound, Known, CommitSame, Busy, Doc, Log

\* The log, in steps that leave it alone.
LEMMA LogFrame ==
  ASSUME LogInv, CommitSame, UNCHANGED <<seq_log, live>>
  PROVE  LogInv'
<1>1. \A d \in Docs : Outcome(live, commit.ops)[d]' = Outcome(live, commit.ops)[d]
  BY DEF Outcome, DocsOf, CommitSame
<1>2. \A d \in Docs : Recorded(d)' = Recorded(d)
  BY <1>1 DEF Recorded, CommitSame, Doc
<1> QED BY <1>2 DEF LogInv, Log

\* The order of entries, in steps that leave the log and the rebuild alone.
LEMMA ChainFrame ==
  ASSUME ChainInv, CommitSame, UNCHANGED <<seq_log, last_tx_id, rebuild, late>>
  PROVE  ChainInv'
BY DEF ChainInv, CommitSame, Excepted, Older, Busy, Doc, Log, Rebuilding, snap

\* The vectors of the live index, in steps that leave it alone.
LEMMA LatestIndexFrame ==
  ASSUME LatestIndex, UNCHANGED <<index, commit, live, late>>
  PROVE  LatestIndex'
BY DEF LatestIndex, Applied, BusyOn, Busy, Doc, AppliedKinds

\* The copies, in steps that leave the rebuild alone.
LEMMA LatestBuildFrame ==
  ASSUME LatestBuild, CommitSame, UNCHANGED <<index, seq_log, live, late, last_tx_id, rebuild>>
  PROVE  LatestBuild'
BY DEF LatestBuild, Copied, Excepted, BusyOn, Older, Busy, Doc, Log, snap, CommitSame

\* The replay, in steps that leave it alone.
LEMMA ReplayFrame ==
  ASSUME LatestReplay, ReplayInv, UNCHANGED <<seq_log, live, late, rebuild>>
  PROVE  LatestReplay' /\ ReplayInv'
BY DEF LatestReplay, ReplayInv, snap

\* What plain callers staged, in steps that leave it alone.
LEMMA StageFrame ==
  ASSUME StageInv, commit'.ops = commit.ops, UNCHANGED <<tx_buffer, live>>
  PROVE  StageInv'
BY DEF StageInv

\* No ghosts in the live index, in steps that leave it alone.
LEMMA GhostIndexFrame ==
  ASSUME GhostIndex, UNCHANGED <<index, commit, live, late>>
  PROVE  GhostIndex'
BY DEF GhostIndex, Applied, BusyOn, Busy, Doc, AppliedKinds

\* No ghosts in the new index, in steps that leave the rebuild alone.
LEMMA GhostBuildFrame ==
  ASSUME GhostBuild, CommitSame, UNCHANGED <<index, seq_log, late, last_tx_id, rebuild>>
  PROVE  GhostBuild'
BY DEF GhostBuild, Rebuilding, Excepted, Older, Busy, Doc, Log, snap, CommitSame

\* No ghosts after the replay, in steps that leave it alone.
LEMMA GhostReplayFrame ==
  ASSUME GhostReplay, UNCHANGED <<live, late, rebuild>>
  PROVE  GhostReplay'
BY DEF GhostReplay

\* The remembered deletes, in steps that leave the log alone.
LEMMA DeletionsFrame ==
  ASSUME DeletionsInv, CommitSame, UNCHANGED <<seq_log, last_tx_id, unordered>>
  PROVE  DeletionsInv'
BY DEF DeletionsInv, Unordered, Older, Busy, Doc, Log, CommitSame

\* The entries closed by the running commit, in steps that leave the log alone.
LEMMA ClosedFrame ==
  ASSUME ClosedInv, CommitSame, UNCHANGED <<seq_log, last_tx_id, live>>
  PROVE  ClosedInv'
BY DEF ClosedInv, Older, Busy, Doc, Log, CommitSame

\* The readers, in steps that leave pins, log and indexes alone.
LEMMA PinFrame ==
  ASSUME PinInv, CommitSame,
         UNCHANGED <<index, seq_log, last_tx_id, unordered, rebuild, pins, exposed, torn>>
  PROVE  PinInv'
BY DEF PinInv, Unordered, Older, Busy, Doc, Rebuilding, CommitSame

\* The running rebuild, in steps that leave it alone.
LEMMA RebuildFrame ==
  ASSUME RebuildInv, CommitSame, UNCHANGED <<rebuild, last_tx_id, index>>
  PROVE  RebuildInv'
BY DEF RebuildInv, CommitSame, Busy, Rebuilding, snap

\* An idle rebuild, or one before its snapshot, has nothing to say.
LEMMA NotRebuilding ==
  ASSUME rebuild'.at \in {"idle", "phase1"}, rebuild'.delta = {}, rebuild'.todo = {}
  PROVE  /\ RebuildInv' /\ LatestBuild' /\ LatestReplay' /\ ReplayInv' /\ GhostBuild' /\ GhostReplay'
<1>1. ~Rebuilding' /\ rebuild'.at # "build" /\ rebuild'.at # "replay"
  BY DEF Rebuilding
<1> QED BY <1>1 DEF RebuildInv, LatestBuild, LatestReplay, ReplayInv, GhostBuild, GhostReplay

-----------------------------------------------------------------------------
(* The initial states.                                                     *)

\* Transaction ids, sequence numbers and pins are natural numbers.
LEMMA Numbers ==
  ASSUME TypeVars
  PROVE  /\ Txs \subseteq Nat /\ 0 \notin Txs /\ MAX_TX \in Nat
         /\ last_tx_id \in Nat /\ begun \in Nat
         /\ \A n \in Nat : 1 <= n /\ n <= MAX_TX => n \in Txs
         /\ \A n \in Txs : 1 <= n /\ n <= MAX_TX
         /\ commit.tx \in Nat /\ snap \in Nat
         /\ \A r \in Readers : pins[r] \in Nat
         /\ \A d \in Docs : seq_log.deletions[d] \in Nat
<1>1. /\ Txs \subseteq Nat /\ 0 \notin Txs /\ MAX_TX \in Nat
      /\ last_tx_id \in Nat /\ begun \in Nat
      /\ \A n \in Nat : 1 <= n /\ n <= MAX_TX => n \in Txs
      /\ \A n \in Txs : 1 <= n /\ n <= MAX_TX
  BY HnswAssumption DEF Txs, TypeVars
<1>2. \A n \in Txs \union {None} : n \in Nat
  <2> SUFFICES ASSUME NEW n \in Txs \union {None} PROVE n \in Nat
    OBVIOUS
  <2>1. CASE n \in Txs
    BY <2>1, <1>1
  <2>2. CASE n = 0
    BY <2>2
  <2> QED BY <2>1, <2>2 DEF None
<1>3. commit.tx \in Txs \union {None} /\ snap \in 0 .. MAX_TX
  BY DEF TypeVars, snap
<1>4. \A r \in Readers : pins[r] \in Txs \union {None}
  BY DEF TypeVars
<1>5. \A d \in Docs : seq_log.deletions[d] \in Txs \union {None}
  BY DEF TypeVars, Logs
<1>6. snap \in Nat
  BY <1>1, <1>3
<1> QED BY <1>1, <1>2, <1>3, <1>4, <1>5, <1>6

\* An empty index is in order.
LEMMA EmptyIndexOK ==
  /\ EmptyIndex \in Indexes /\ IndexOK(EmptyIndex)
  /\ EmptyIndex.nodes = <<>> /\ DOMAIN EmptyIndex.nodes = {}
  /\ \A d \in Docs : ~Mapped(EmptyIndex, d) /\ NodesOf(EmptyIndex, d) = {} /\ Single(EmptyIndex, d)
<1>1. EmptyIndex.nodes = <<>> /\ EmptyIndex.deleted_nodes = {}
      /\ EmptyIndex.doc_to_node = [d \in Docs |-> None]
  BY DEF EmptyIndex
<1>2. DOMAIN EmptyIndex.nodes = {}
  BY <1>1
<1>3. EmptyIndex \in Indexes
  BY DEF EmptyIndex, Indexes, None
<1>4. \A d \in Docs : ~Mapped(EmptyIndex, d) /\ NodesOf(EmptyIndex, d) = {} /\ Single(EmptyIndex, d)
  BY <1>1, <1>2 DEF Mapped, NodesOf, Single
<1>5. IndexOK(EmptyIndex)
  BY <1>1, <1>2, <1>3, <1>4 DEF IndexOK
<1> QED BY <1>1, <1>2, <1>3, <1>4, <1>5

\* The fields of a rebuild that does not run.
LEMMA IdleRebuildFacts ==
  /\ IdleRebuild \in [at : {"idle", "phase1", "build", "replay"}, new : Indexes,
                      snapshot_tx : 0 .. MAX_TX, todo : SUBSET Nat, dead : SUBSET Nat,
                      delta : SUBSET [op : IndexOps, seq : Txs, entry : Nat]]
  /\ IdleRebuild.at = "idle" /\ IdleRebuild.new = EmptyIndex
  /\ IdleRebuild.todo = {} /\ IdleRebuild.delta = {}
<1>1. EmptyIndex \in Indexes /\ 0 \in 0 .. MAX_TX
  BY EmptyIndexOK, HnswAssumption
<1> QED BY <1>1 DEF IdleRebuild, None

\* The invariant holds initially.
LEMMA InitInv ==
  ASSUME Init
  PROVE  Inv
<1>0. /\ commit = IdleCommit /\ commit.at = "idle" /\ commit.tx = None /\ commit.ops = <<>> /\ commit.todo = {}
      /\ commit \in [at : {"idle", "apply", "advance"},
                     tx : Txs \union {None}, ops : Seq(IndexOps), todo : SUBSET Nat]
  BY DEF Init, IdleCommit
<1>1. ~Busy /\ ~Older /\ commit.at # "advance" /\ \A d : ~BusyOn(d)
  BY <1>0 DEF Busy, Older, BusyOn
<1>2. rebuild.at = "idle" /\ rebuild.new = EmptyIndex /\ rebuild.todo = {} /\ rebuild.delta = {} /\ ~Rebuilding
  BY IdleRebuildFacts DEF Init, Rebuilding
<1>3. Log = <<>> /\ DOMAIN Log = {} /\ \A d : EntriesOf(Log, d) = {}
  BY DEF Init, Log, EntriesOf
<1>4. \A d \in Docs : Applied(d) = None /\ Recorded(d) = None /\ live[d] = None
  BY <1>1 DEF Init, Applied, Recorded
<1>5. index = EmptyIndex /\ last_tx_id = 0 /\ begun = 0 /\ \A t \in Txs : tx_buffer[t] = <<>>
  BY DEF Init
<1>6. TypeVars
  <2>1. seq_log \in Logs
    BY DEF Init, Logs
  <2>2. 0 \in 0 .. MAX_TX
    BY HnswAssumption
  <2>3. tx_buffer \in [Txs -> Seq(IndexOps)]
    BY DEF Init
  <2>4. rebuild \in [at : {"idle", "phase1", "build", "replay"}, new : Indexes,
                    snapshot_tx : 0 .. MAX_TX, todo : SUBSET Nat, dead : SUBSET Nat,
                    delta : SUBSET [op : IndexOps, seq : Txs, entry : Nat]]
    BY IdleRebuildFacts DEF Init
  <2> QED BY <1>0, <2>1, <2>2, <2>3, <2>4, EmptyIndexOK DEF Init, TypeVars
<1>7. IndexOK(index) /\ IndexOK(rebuild.new)
  BY <1>2, <1>5, EmptyIndexOK
<1>8. BufferInv /\ CommitInv
  BY <1>0, <1>1, <1>5 DEF BufferInv, CommitInv
<1>9. RebuildInv
  BY <1>1, <1>2 DEF RebuildInv
<1>10. BoundInv
  <2>1. NodesBound(index) /\ NodesBound(rebuild.new)
    BY <1>2, <1>5, EmptyIndexOK DEF NodesBound
  <2>2. \A d \in Docs : seq_log.deletions[d] = 0
    BY DEF Init, None
  <2>3. \A r \in Readers : pins[r] = 0
    BY DEF Init, None
  <2> QED BY <2>1, <2>2, <2>3, <1>3, <1>5 DEF BoundInv, Known
<1>11. LogInv
  BY <1>3, <1>4 DEF LogInv, OnlyLastOpen, AllClosed
<1>12. ChainInv
  BY <1>1, <1>2 DEF ChainInv
<1>13. LatestIndex /\ LatestBuild /\ LatestReplay /\ ReplayInv
  BY <1>2, <1>4 DEF LatestIndex, LatestBuild, LatestReplay, ReplayInv
<1>14. StageInv
  <2>1. \A d \in Docs : <<>> # <<Insert(d)>> /\ <<>> # <<Insert(d), Delete(d)>>
    OBVIOUS
  <2> QED BY <1>0, <1>5, <2>1 DEF StageInv
<1>15. GhostIndex /\ GhostBuild /\ GhostReplay
  BY <1>2, <1>5, EmptyIndexOK DEF GhostIndex, GhostBuild, GhostReplay
<1>16. DeletionsInv /\ ClosedInv
  BY <1>1, <1>3 DEF DeletionsInv, ClosedInv
<1>17. PinInv
  BY DEF Init, PinInv
<1> QED BY <1>6, <1>7, <1>8, <1>9, <1>10, <1>11, <1>12, <1>13, <1>14, <1>15, <1>16, <1>17
        DEF Inv, PlainInv

-----------------------------------------------------------------------------
(* Staging and rolling back.                                               *)

\* What the engine stages is a program, and when it may.
LEMMA ProgramsAre ==
  ASSUME NEW ops \in Programs
  PROVE  \E d \in Docs :
            /\ ops \in ProgramsOn(d)
            /\ ops = <<Insert(d)>> => "overwrite" \in Environment \/ (live[d] = None /\ ~StagedInsert(d))
            /\ ops = <<Delete(d), Insert(d)>> => live[d] # None
            /\ ops = <<Insert(d), Delete(d)>> => "insert_then_delete" \in Environment
<1>1. ASSUME NEW op \in IndexOps, Valid(op), ops = <<op>>
      PROVE  \E d \in Docs :
            /\ ops \in ProgramsOn(d)
            /\ ops = <<Insert(d)>> => "overwrite" \in Environment \/ (live[d] = None /\ ~StagedInsert(d))
            /\ Len(ops) = 1
  <2>1. CASE \E d \in Docs : op = Insert(d)
    <3>1. PICK d \in Docs : op = Insert(d)
      BY <2>1
    <3>2. op.kind = "insert" /\ op.doc = d
      BY <3>1, OpFacts
    <3>3. "overwrite" \in Environment \/ (live[d] = None /\ ~StagedInsert(d))
      BY <1>1, <3>2 DEF Valid
    <3> QED BY <1>1, <3>1, <3>3 DEF ProgramsOn
  <2>2. CASE \E d \in Docs : op = Delete(d)
    <3>1. PICK d \in Docs : op = Delete(d)
      BY <2>2
    <3>2. <<op>> # <<Insert(d)>>
      BY <3>1, OpFacts
    <3> QED BY <1>1, <3>1, <3>2 DEF ProgramsOn
  <2> QED BY <2>1, <2>2 DEF IndexOps
<1>2. \A d : Len(<<Delete(d), Insert(d)>>) = 2 /\ Len(<<Insert(d), Delete(d)>>) = 2 /\ Len(<<Insert(d)>>) = 1
  OBVIOUS
<1>3. CASE \E op \in IndexOps : Valid(op) /\ ops = <<op>>
  BY <1>1, <1>2, <1>3
<1>4. CASE \E d \in Docs : live[d] # None /\ ops = <<Delete(d), Insert(d)>>
  <2>1. PICK d \in Docs : live[d] # None /\ ops = <<Delete(d), Insert(d)>>
    BY <1>4
  <2>2. ops # <<Insert(d)>> /\ ops # <<Insert(d), Delete(d)>>
    BY <2>1, OpFacts
  <2> QED BY <2>1, <2>2 DEF ProgramsOn
<1>5. CASE "insert_then_delete" \in Environment /\ \E d \in Docs : ops = <<Insert(d), Delete(d)>>
  <2>1. PICK d \in Docs : ops = <<Insert(d), Delete(d)>>
    BY <1>5
  <2>2. ops # <<Insert(d)>> /\ ops # <<Delete(d), Insert(d)>>
    BY <2>1, OpFacts
  <2> QED BY <1>5, <2>1, <2>2 DEF ProgramsOn
<1> QED BY <1>3, <1>4, <1>5 DEF Programs

\* Steps that change nothing but the buffers keep the rest of the invariant.
LEMMA BufferOnly ==
  ASSUME Inv, UNCHANGED <<index, seq_log, last_tx_id, commit, jobs, rebuild, pins, live,
                          unordered, late, torn, exposed>>,
         TypeVars', BufferInv', CommitInv', Plain => StageInv'
  PROVE  Inv'
<1>0. CommitSame
  BY DEF CommitSame
<1>1. IndexOK(index)' /\ IndexOK(rebuild.new)'
  BY DEF Inv
<1>2. RebuildInv' /\ LogInv' /\ ChainInv'
  BY <1>0, RebuildFrame, LogFrame, ChainFrame DEF Inv
<1>3. BoundInv'
  BY <1>0, BoundFrame DEF Inv, BoundInv
<1>4. LatestIndex' /\ LatestBuild' /\ LatestReplay' /\ ReplayInv'
  BY <1>0, LatestIndexFrame, LatestBuildFrame, ReplayFrame DEF Inv
<1>5. PlainInv'
  BY <1>0, GhostIndexFrame, GhostBuildFrame, GhostReplayFrame DEF Inv, PlainInv
<1>6. DeletionsInv' /\ ClosedInv' /\ PinInv'
  BY <1>0, DeletionsFrame, ClosedFrame, PinFrame DEF Inv
<1> QED BY <1>1, <1>2, <1>3, <1>4, <1>5, <1>6 DEF Inv

\* insert and delete stage.
LEMMA StageStep ==
  ASSUME Inv, NEW ops \in Programs, Stage(ops)
  PROVE  Inv'
<1>0. /\ begun < MAX_TX /\ begun' = begun + 1
      /\ tx_buffer' = [tx_buffer EXCEPT ![begun + 1] = ops]
      /\ UNCHANGED <<index, seq_log, last_tx_id, commit, jobs, rebuild, pins, live,
                     unordered, late, torn, exposed>>
  BY DEF Stage
<1>1. TypeVars /\ BufferInv /\ CommitInv
  BY DEF Inv
<1>2. PICK d \in Docs :
            /\ ops \in ProgramsOn(d)
            /\ ops = <<Insert(d)>> => "overwrite" \in Environment \/ (live[d] = None /\ ~StagedInsert(d))
            /\ ops = <<Delete(d), Insert(d)>> => live[d] # None
            /\ ops = <<Insert(d), Delete(d)>> => "insert_then_delete" \in Environment
  BY ProgramsAre
<1>3. /\ begun \in Nat /\ last_tx_id \in Nat /\ begun + 1 \in Txs /\ begun + 1 \in 0 .. MAX_TX
      /\ tx_buffer \in [Txs -> Seq(IndexOps)] /\ Txs \subseteq Nat
  <2>1. begun \in Nat /\ last_tx_id \in Nat /\ MAX_TX \in Nat /\ Txs \subseteq Nat
    BY <1>1, Numbers
  <2>2. begun + 1 \in Txs /\ begun + 1 \in 0 .. MAX_TX
    BY <1>0, <2>1 DEF Txs
  <2> QED BY <1>1, <2>1, <2>2 DEF TypeVars
<1>4. /\ tx_buffer'[begun + 1] = ops
      /\ \A t \in Txs \ {begun + 1} : tx_buffer'[t] = tx_buffer[t]
  BY <1>0, <1>3
<1>5. ops \in Seq(IndexOps) /\ IsProgram(ops)
  BY <1>2, ProgramFacts DEF IsProgram
<1>6. TypeVars'
  <2>1. tx_buffer' \in [Txs -> Seq(IndexOps)]
    BY <1>0, <1>3, <1>5
  <2> QED BY <1>0, <1>1, <1>3, <2>1 DEF TypeVars
<1>7. BufferInv'
  <2>1. last_tx_id <= begun /\ last_tx_id' <= begun'
    BY <1>0, <1>1, <1>3 DEF BufferInv
  <2>2. ASSUME NEW t \in Txs, tx_buffer'[t] # <<>>
        PROVE  /\ IsProgram(tx_buffer'[t]) /\ t <= begun' /\ t # last_tx_id'
               /\ Busy' => t # commit'.tx
    <3>1. CASE t = begun + 1
      <4>1. t <= begun' /\ t # last_tx_id
        BY <3>1, <2>1, <1>0, <1>3
      <4>2. ASSUME Busy PROVE t # commit.tx
        <5>1. commit.tx <= begun /\ commit.tx \in Nat
          BY <4>2, <1>1, <1>3 DEF CommitInv
        <5> QED BY <5>1, <3>1, <1>3
      <4> QED BY <4>1, <4>2, <3>1, <1>0, <1>4, <1>5 DEF Busy
    <3>2. CASE t # begun + 1
      <4>1. /\ IsProgram(tx_buffer[t]) /\ t <= begun /\ t # last_tx_id
            /\ Busy => t # commit.tx
        BY <3>2, <2>2, <1>1, <1>4 DEF BufferInv
      <4>2. t <= begun'
        BY <4>1, <1>0, <1>3
      <4> QED BY <4>1, <4>2, <3>2, <1>0, <1>4 DEF Busy
    <3> QED BY <3>1, <3>2
  <2> QED BY <2>1, <2>2 DEF BufferInv
<1>8. CommitInv'
  <2>1. commit.tx \in Nat
    BY <1>1, Numbers
  <2>2. commit.tx <= begun => commit.tx <= begun'
    BY <2>1, <1>0, <1>3
  <2> QED BY <2>2, <1>0, <1>1 DEF CommitInv, Busy, AppliedBefore
<1>9. ASSUME Plain PROVE StageInv'
  <2>1. StageInv
    BY <1>9 DEF Inv, PlainInv
  <2>2. ops # <<Insert(d), Delete(d)>> /\ (ops = <<Insert(d)>> => live[d] = None /\ ~StagedInsert(d))
    BY <1>2, <1>9 DEF Plain
  <2>3. ASSUME NEW t \in Txs, NEW e \in Docs, tx_buffer'[t] = <<Insert(e)>>
        PROVE  /\ live'[e] = None
               /\ \A u \in Txs \ {t} : \A i \in DOMAIN tx_buffer'[u] : tx_buffer'[u][i] # Insert(e)
               /\ \A i \in DOMAIN commit'.ops : commit'.ops[i] # Insert(e)
    <3>1. CASE t = begun + 1
      <4>1. ops = <<Insert(e)>>
        BY <1>4, <2>3, <3>1
      <4>2. e = d
        <5>1. ops[1] = Insert(e) /\ ops[1].doc = d
          BY <4>1, <1>2, ProgramFacts
        <5> QED BY <5>1, OpFacts
      <4> QED BY <4>1, <4>2, <2>2, <3>1, <1>0, <1>4 DEF StagedInsert
    <3>2. CASE t # begun + 1
      <4>1. /\ live[e] = None
            /\ \A u \in Txs \ {t} : \A i \in DOMAIN tx_buffer[u] : tx_buffer[u][i] # Insert(e)
            /\ \A i \in DOMAIN commit.ops : commit.ops[i] # Insert(e)
        BY <2>1, <2>3, <3>2, <1>4 DEF StageInv
      <4>2. ASSUME NEW i \in DOMAIN ops PROVE ops[i] # Insert(e)
        <5>1. SUFFICES ASSUME ops[i] = Insert(e) PROVE FALSE
          OBVIOUS
        <5>2. e = d
          BY <5>1, <1>2, ProgramFacts, OpFacts
        <5>3. CASE ops = <<Insert(d)>>
          <6>1. StagedInsert(d)
            <7>1. 1 \in DOMAIN tx_buffer[t] /\ tx_buffer[t][1] = Insert(d)
              BY <2>3, <3>2, <1>4, <5>2
            <7> QED BY <7>1 DEF StagedInsert
          <6> QED BY <6>1, <5>3, <2>2
        <5>4. CASE ops = <<Delete(d), Insert(d)>>
          BY <5>4, <5>2, <4>1, <1>2
        <5>5. CASE ops = <<Delete(d)>>
          BY <5>5, <5>1, <5>2, OpFacts
        <5> QED BY <5>3, <5>4, <5>5, <2>2, <1>2 DEF ProgramsOn
      <4> QED BY <4>1, <4>2, <1>0, <1>4
    <3> QED BY <3>1, <3>2
  <2>4. ASSUME NEW t \in Txs, NEW e \in Docs PROVE tx_buffer'[t] # <<Insert(e), Delete(e)>>
    <3>1. CASE t = begun + 1
      <4>1. SUFFICES ASSUME ops = <<Insert(e), Delete(e)>> PROVE FALSE
        BY <1>4, <3>1
      <4>2. ops[1] = Insert(e) /\ ops[1].doc = d
        BY <4>1, <1>2, ProgramFacts
      <4>3. e = d
        BY <4>2, OpFacts
      <4> QED BY <4>1, <4>3, <2>2
    <3>2. CASE t # begun + 1
      BY <3>2, <2>1, <1>4 DEF StageInv
    <3> QED BY <3>1, <3>2
  <2> QED BY <2>1, <2>3, <2>4, <1>0 DEF StageInv
<1> QED BY <1>0, <1>6, <1>7, <1>8, <1>9, BufferOnly

\* rollback, and a commit that fails after it has drained the buffer.
LEMMA DiscardStep ==
  ASSUME Inv, NEW t \in Txs, CommitFails(t) \/ Rollback(t)
  PROVE  Inv'
<1>0. /\ tx_buffer' = [tx_buffer EXCEPT ![t] = <<>>]
      /\ UNCHANGED <<index, seq_log, last_tx_id, begun, commit, jobs, rebuild, pins, live,
                     unordered, late, torn, exposed>>
  BY DEF CommitFails, Rollback
<1>1. TypeVars /\ BufferInv /\ CommitInv
  BY DEF Inv
<1>2. tx_buffer \in [Txs -> Seq(IndexOps)]
  BY <1>1 DEF TypeVars
<1>3. tx_buffer'[t] = <<>> /\ \A u \in Txs \ {t} : tx_buffer'[u] = tx_buffer[u]
  BY <1>0, <1>2
<1>4. TypeVars'
  <2>1. tx_buffer' \in [Txs -> Seq(IndexOps)]
    BY <1>0, <1>2
  <2> QED BY <1>0, <1>1, <2>1 DEF TypeVars
<1>5. BufferInv'
  BY <1>0, <1>1, <1>3 DEF BufferInv, Busy
<1>6. CommitInv'
  BY <1>0, <1>1, CommitFrame
<1>7. ASSUME Plain PROVE StageInv'
  <2>1. StageInv
    BY <1>7 DEF Inv, PlainInv
  <2>2. \A e \in Docs : <<>> # <<Insert(e)>> /\ <<>> # <<Insert(e), Delete(e)>>
    OBVIOUS
  <2>3. DOMAIN <<>> = {}
    OBVIOUS
  <2>4. ASSUME NEW w \in Txs, NEW e \in Docs, tx_buffer'[w] = <<Insert(e)>>
        PROVE  /\ live'[e] = None
               /\ \A u \in Txs \ {w} : \A i \in DOMAIN tx_buffer'[u] : tx_buffer'[u][i] # Insert(e)
               /\ \A i \in DOMAIN commit'.ops : commit'.ops[i] # Insert(e)
    <3>1. w # t /\ tx_buffer[w] = <<Insert(e)>>
      BY <2>2, <2>4, <1>3
    <3>2. /\ live[e] = None
          /\ \A u \in Txs \ {w} : \A i \in DOMAIN tx_buffer[u] : tx_buffer[u][i] # Insert(e)
          /\ \A i \in DOMAIN commit.ops : commit.ops[i] # Insert(e)
      BY <3>1, <2>1 DEF StageInv
    <3> QED BY <3>2, <2>3, <1>0, <1>3
  <2>5. \A w \in Txs, e \in Docs : tx_buffer'[w] # <<Insert(e), Delete(e)>>
    BY <2>1, <2>2, <1>3 DEF StageInv
  <2> QED BY <2>1, <2>4, <2>5, <1>0 DEF StageInv
<1> QED BY <1>0, <1>4, <1>5, <1>6, <1>7, BufferOnly

-----------------------------------------------------------------------------
(* A commit.                                                               *)

\* commit takes write_mutex and drains the buffer.
LEMMA CommitStarts ==
  ASSUME Inv, NEW t \in Txs, Commit(t)
  PROVE  Inv'
<1>0. /\ ~Busy /\ rebuild.at # "replay" /\ tx_buffer[t] # <<>>
      /\ tx_buffer' = [tx_buffer EXCEPT ![t] = <<>>]
      /\ commit' = [at |-> "apply", tx |-> t, ops |-> tx_buffer[t], todo |-> DOMAIN tx_buffer[t]]
      /\ UNCHANGED <<index, seq_log, last_tx_id, begun, jobs, rebuild, pins, live, unordered, late, torn, exposed>>
  BY DEF Commit, WriteLocked, Busy
<1>1. TypeVars /\ BufferInv /\ CommitInv
  BY DEF Inv
<1>2. tx_buffer \in [Txs -> Seq(IndexOps)]
  BY <1>1 DEF TypeVars
<1>3. tx_buffer'[t] = <<>> /\ \A u \in Txs \ {t} : tx_buffer'[u] = tx_buffer[u]
  BY <1>0, <1>2
<1>4. /\ commit'.at = "apply" /\ commit'.tx = t /\ commit'.ops = tx_buffer[t]
      /\ commit'.todo = DOMAIN tx_buffer[t] /\ Busy'
  BY <1>0 DEF Busy
<1>5. IsProgram(tx_buffer[t]) /\ t <= begun /\ t # last_tx_id /\ last_tx_id <= begun
  BY <1>0, <1>1 DEF BufferInv
<1>6. TypeVars'
  <2>1. tx_buffer' \in [Txs -> Seq(IndexOps)]
    BY <1>0, <1>2
  <2>2. tx_buffer[t] \in Seq(IndexOps) /\ DOMAIN tx_buffer[t] \subseteq Nat
    BY <1>2
  <2>3. commit' \in [at : {"idle", "apply", "advance"},
                     tx : Txs \union {None}, ops : Seq(IndexOps), todo : SUBSET Nat]
    BY <1>0, <2>2
  <2> QED BY <1>0, <1>1, <2>1, <2>3 DEF TypeVars
<1>7. BufferInv'
  BY <1>0, <1>1, <1>3, <1>4 DEF BufferInv
<1>8. CommitInv'
  BY <1>0, <1>4, <1>5 DEF CommitInv
<1>9. RebuildInv'
  <2>1. RebuildInv
    BY DEF Inv
  <2> QED BY <2>1, <1>0 DEF RebuildInv, Rebuilding, snap
<1>10. ~Older /\ commit.at # "advance" /\ commit'.at # "advance" /\ commit.ops = <<>> /\ commit.at = "idle"
  BY <1>0, <1>1, <1>4 DEF Older, CommitInv, IdleCommit, Busy
<1>11. \A d : (Excepted(d) => Excepted(d)') /\ (Unordered(d) => Unordered(d)') /\ ~BusyOn(d)
  BY <1>0, <1>10 DEF Excepted, Unordered, BusyOn
<1>12. \A d \in Docs : Applied(d)' = Applied(d) /\ Applied(d) = live[d] /\ Recorded(d)' = Recorded(d)
  <2>1. AppliedKinds' = {}
    BY <1>4 DEF AppliedKinds
  <2> QED BY <2>1, <1>0, <1>10, <1>11 DEF Applied, Recorded
<1>13. BoundInv'
  BY <1>0, <1>10 DEF Inv, BoundInv, NodesBound, Known, Log, Busy
<1>14. LogInv'
  BY <1>0, <1>12 DEF Inv, LogInv, Log
<1>15. ChainInv'
  BY <1>0, <1>10, <1>11 DEF Inv, ChainInv, Log, Rebuilding, snap
<1>16. LatestIndex' /\ LatestReplay' /\ ReplayInv'
  <2>1. LatestIndex'
    BY <1>0, <1>12 DEF Inv, LatestIndex
  <2> QED BY <2>1, <1>0, ReplayFrame DEF Inv
<1>17. LatestBuild'
  <2>1. \A d, v : Copied(d, v)' <=> Copied(d, v)
    BY <1>0 DEF Copied
  <2> QED BY <2>1, <1>0, <1>11 DEF Inv, LatestBuild, Log, snap
<1>18. ASSUME Plain PROVE StageInv'
  <2>1. StageInv
    BY <1>18 DEF Inv, PlainInv
  <2>2. \A e \in Docs : <<>> # <<Insert(e)>> /\ <<>> # <<Insert(e), Delete(e)>>
    OBVIOUS
  <2>3. DOMAIN <<>> = {}
    OBVIOUS
  <2> QED BY <2>1, <2>2, <2>3, <1>0, <1>3, <1>4 DEF StageInv
<1>19. GhostIndex => GhostIndex'
  BY <1>0, <1>12 DEF GhostIndex
<1>20. GhostBuild => GhostBuild'
  BY <1>0, <1>11 DEF GhostBuild, Rebuilding, Log, snap
<1>21. GhostReplay => GhostReplay'
  BY <1>0, GhostReplayFrame
<1>22. PlainInv'
  BY <1>0, <1>18, <1>19, <1>20, <1>21 DEF Inv, PlainInv
<1>23. DeletionsInv' /\ ClosedInv'
  BY <1>0, <1>10, <1>11 DEF Inv, DeletionsInv, ClosedInv, Log
<1>24. PinInv'
  BY <1>0, <1>11 DEF Inv, PinInv, Rebuilding
<1>25. IndexOK(index)' /\ IndexOK(rebuild.new)'
  BY <1>0 DEF Inv
<1> QED BY <1>6, <1>7, <1>8, <1>9, <1>13, <1>14, <1>15, <1>16, <1>17, <1>22, <1>23, <1>24, <1>25 DEF Inv

\* What one do_delete or apply_insert of a commit does to its document and to no other.
LEMMA ApplyFacts ==
  ASSUME Inv, CommitApply
  PROVE  \E d \in Docs :
            /\ Busy /\ Busy' /\ Doc = d /\ commit.tx \in Txs /\ CommitSame /\ CommitInv'
            /\ commit' \in [at : {"idle", "apply", "advance"},
                            tx : Txs \union {None}, ops : Seq(IndexOps), todo : SUBSET Nat]
            /\ \/ index' = do_delete(index, d) /\ Applied(d)' = None
               \/ /\ index' = do_insert(index, d, commit.tx, commit.tx)
                  /\ Applied(d)' = commit.tx
                  /\ Plain => Applied(d) = None
            /\ \A e \in Docs \ {d} : Applied(e)' = Applied(e)
<1>1. PICK i \in commit.todo :
        /\ \A j \in commit.todo : AppliedBefore(i, j)
        /\ index' = IF commit.ops[i].kind = "delete" THEN do_delete(index, commit.ops[i].doc)
                    ELSE do_insert(index, commit.ops[i].doc, commit.tx, commit.tx)
        /\ commit' = [commit EXCEPT !.todo = @ \ {i}]
  BY DEF CommitApply
<1>2. commit.at = "apply" /\ Busy /\ UNCHANGED <<live, last_tx_id, begun>>
  BY DEF CommitApply, Busy
<1>3. /\ commit.tx \in Txs /\ commit.tx <= begun /\ commit.tx # last_tx_id
      /\ IsProgram(commit.ops) /\ commit.todo \subseteq DOMAIN commit.ops
      /\ \A a \in DOMAIN commit.ops \ commit.todo, b \in commit.todo : AppliedBefore(a, b)
  BY <1>2 DEF Inv, CommitInv
<1>4. commit \in [at : {"idle", "apply", "advance"},
                  tx : Txs \union {None}, ops : Seq(IndexOps), todo : SUBSET Nat]
  BY DEF Inv, TypeVars
<1>5. PICK d \in Docs : commit.ops \in ProgramsOn(d)
  BY <1>3 DEF IsProgram
<1>6. /\ commit'.at = "apply" /\ commit'.tx = commit.tx /\ commit'.ops = commit.ops
      /\ commit'.todo = commit.todo \ {i}
      /\ commit' \in [at : {"idle", "apply", "advance"},
                      tx : Txs \union {None}, ops : Seq(IndexOps), todo : SUBSET Nat]
  BY <1>1, <1>2, <1>4
<1>7. /\ commit.ops[1].doc = d /\ DOMAIN commit.ops \subseteq {1, 2} /\ i \in DOMAIN commit.ops
      /\ commit.ops[i].doc = d
      /\ \A a \in DOMAIN commit.ops : commit.ops[a].kind \in {"insert", "delete"}
  <2>1. /\ commit.ops[1].doc = d /\ DOMAIN commit.ops \subseteq {1, 2}
        /\ \A a \in DOMAIN commit.ops : commit.ops[a] \in {Insert(d), Delete(d)}
    BY <1>5, ProgramFacts
  <2>2. i \in DOMAIN commit.ops
    BY <1>1, <1>3
  <2> QED BY <2>1, <2>2, OpFacts
<1>8. Doc = d /\ Doc' = d /\ Busy' /\ CommitSame
  BY <1>2, <1>6, <1>7 DEF Doc, Busy, CommitSame
<1>9. CommitInv'
  <2>1. ASSUME NEW a \in DOMAIN commit'.ops \ commit'.todo, NEW b \in commit'.todo
        PROVE  AppliedBefore(a, b)'
    <3>1. b \in commit.todo /\ (a = i \/ a \in DOMAIN commit.ops \ commit.todo)
      BY <1>6
    <3>2. AppliedBefore(a, b)
      BY <3>1, <1>1, <1>3
    <3> QED BY <3>2, <1>6 DEF AppliedBefore
  <2> QED BY <2>1, <1>2, <1>3, <1>6, <1>8 DEF CommitInv
<1>10. AppliedKinds' = AppliedKinds \union {commit.ops[i].kind}
  BY <1>6, <1>7, <1>1 DEF AppliedKinds
<1>11. \A e \in Docs \ {d} : Applied(e)' = Applied(e)
  BY <1>2, <1>8 DEF Applied, BusyOn
<1>12. CASE commit.ops[i].kind = "delete"
  <2>1. index' = do_delete(index, d)
    BY <1>1, <1>7, <1>12
  <2>2. "insert" \notin AppliedKinds
    <3>1. ASSUME NEW a \in DOMAIN commit.ops \ commit.todo PROVE commit.ops[a].kind # "insert"
      BY <3>1, <1>1, <1>3, <1>12 DEF AppliedBefore
    <3> QED BY <3>1 DEF AppliedKinds
  <2>3. "insert" \notin AppliedKinds' /\ "delete" \in AppliedKinds'
    BY <2>2, <1>10, <1>12
  <2>4. Applied(d)' = None
    BY <2>3, <1>8 DEF Applied, BusyOn
  <2> QED BY <2>1, <2>4, <1>2, <1>3, <1>6, <1>8, <1>9, <1>11
<1>13. CASE commit.ops[i].kind = "insert"
  <2>1. index' = do_insert(index, d, commit.tx, commit.tx)
    BY <1>1, <1>7, <1>13
  <2>2. Applied(d)' = commit.tx
    BY <1>6, <1>8, <1>10, <1>13 DEF Applied, BusyOn
  <2>3. ASSUME Plain PROVE Applied(d) = None
    <3>0. StageInv
      BY <2>3 DEF Inv, PlainInv
    <3>1. CASE commit.ops = <<Insert(d)>>
      <4>1. live[d] = None
        BY <3>0, <3>1 DEF StageInv
      <4>2. DOMAIN commit.ops = {1}
        BY <3>1
      <4>3. DOMAIN commit.ops \ commit.todo = {}
        BY <4>2, <1>1, <1>7
      <4>4. AppliedKinds = {}
        BY <4>3 DEF AppliedKinds
      <4> QED BY <4>1, <4>4, <1>2, <1>8 DEF Applied, BusyOn
    <3>2. CASE commit.ops = <<Delete(d), Insert(d)>>
      <4>1. DOMAIN commit.ops = {1, 2} /\ commit.ops[1].kind = "delete" /\ commit.ops[2].kind = "insert"
        BY <3>2, OpFacts
      <4>2. i = 2
        BY <4>1, <1>7, <1>13
      <4>3. 1 \notin commit.todo
        BY <4>1, <4>2, <1>1 DEF AppliedBefore
      <4>4. AppliedKinds = {"delete"}
        BY <4>1, <4>2, <4>3, <1>1 DEF AppliedKinds
      <4> QED BY <4>4, <1>2, <1>8 DEF Applied, BusyOn
    <3>3. CASE commit.ops = <<Delete(d)>>
      <4>1. DOMAIN commit.ops = {1} /\ commit.ops[1].kind = "delete"
        BY <3>3, OpFacts
      <4> QED BY <4>1, <1>7, <1>13
    <3>4. commit.ops # <<Insert(d), Delete(d)>>
      BY <3>0 DEF StageInv
    <3> QED BY <3>1, <3>2, <3>3, <3>4, <1>5 DEF ProgramsOn
  <2> QED BY <2>1, <2>2, <2>3, <1>2, <1>3, <1>6, <1>8, <1>9, <1>11
<1> QED BY <1>7, <1>12, <1>13

\* commit applies an operation to the live index, perhaps in the middle of a rebuild.
LEMMA ApplyStep ==
  ASSUME Inv, CommitApply
  PROVE  Inv'
<1>0. UNCHANGED <<seq_log, last_tx_id, tx_buffer, begun, jobs, rebuild, pins, live, unordered,
                  late, torn, exposed>>
  BY DEF CommitApply
<1>1. PICK d \in Docs :
            /\ Busy /\ Busy' /\ Doc = d /\ commit.tx \in Txs /\ CommitSame /\ CommitInv'
            /\ commit' \in [at : {"idle", "apply", "advance"},
                            tx : Txs \union {None}, ops : Seq(IndexOps), todo : SUBSET Nat]
            /\ \/ index' = do_delete(index, d) /\ Applied(d)' = None
               \/ /\ index' = do_insert(index, d, commit.tx, commit.tx)
                  /\ Applied(d)' = commit.tx
                  /\ Plain => Applied(d) = None
            /\ \A e \in Docs \ {d} : Applied(e)' = Applied(e)
  BY ApplyFacts
<1>2. TypeVars /\ IndexOK(index) /\ RebuildInv /\ BoundInv
  BY DEF Inv
<1>3. /\ IndexOK(index') /\ OnlyOn(index, index', d)
      /\ Applied(d)' # None => HasVector(index', d, Applied(d)')
      /\ Applied(d)' = None => ~Mapped(index', d)
      /\ Plain /\ Single(index, d) /\ (Applied(d) = None => ~Mapped(index, d)) => Single(index', d)
  <2>1. CASE index' = do_delete(index, d) /\ Applied(d)' = None
    BY <2>1, <1>2, DeleteOK
  <2>2. CASE /\ index' = do_insert(index, d, commit.tx, commit.tx)
             /\ Applied(d)' = commit.tx
             /\ Plain => Applied(d) = None
    <3>1. commit.tx # None
      BY <1>1, <1>2, Numbers DEF None
    <3> QED BY <2>2, <3>1, <1>1, <1>2, InsertOK
  <2> QED BY <1>1, <2>1, <2>2
<1>4. /\ DOMAIN index.nodes \subseteq DOMAIN index'.nodes
      /\ \A i \in DOMAIN index.nodes : index'.nodes[i] = index.nodes[i]
      /\ \A e : NodesOf(index, e) \subseteq NodesOf(index', e)
      /\ \A e \in Docs \ {d} :
           /\ NodesOf(index', e) = NodesOf(index, e)
           /\ Mapped(index', e) <=> Mapped(index, e)
           /\ \A v : HasVector(index', e, v) <=> HasVector(index, e, v)
           /\ Single(index', e) <=> Single(index, e)
  BY <1>2, <1>3, OnlyOnKeeps
<1>5. rebuild.todo \subseteq DOMAIN index.nodes /\ \A j \in rebuild.todo : index'.nodes[j] = index.nodes[j]
  BY <1>2, <1>4 DEF RebuildInv
<1>6. TypeVars'
  <2>1. index' \in Indexes
    BY <1>3 DEF IndexOK
  <2> QED BY <2>1, <1>0, <1>1, <1>2 DEF TypeVars
<1>7. BufferInv'
  BY <1>0, <1>1, BufferFrame DEF Inv, CommitSame
<1>8. RebuildInv'
  <2>1. rebuild'.todo \subseteq DOMAIN index'.nodes
    BY <1>0, <1>4, <1>5
  <2> QED BY <2>1, <1>0, <1>1, <1>2 DEF RebuildInv, Rebuilding, snap
<1>9. BoundInv'
  <2>1. NodesBound(index)'
    <3>1. ASSUME NEW j \in DOMAIN index'.nodes
          PROVE  j \in DOMAIN index.nodes \/ (index'.nodes[j].committed_tx = commit.tx /\ index'.nodes[j].doc = d)
      <4>1. CASE index' = do_delete(index, d)
        BY <4>1, <3>1, <1>2, DeleteOK
      <4>2. CASE index' = do_insert(index, d, commit.tx, commit.tx)
        <5>1. commit.tx \in Txs
          BY <1>1
        <5> QED BY <3>1, <4>2, <5>1, <1>2, InsertOK
      <4> QED BY <4>1, <4>2, <1>1
    <3>2. Doc' = d /\ commit'.tx = commit.tx
      BY <1>1 DEF CommitSame, Doc
    <3>3. \A j \in DOMAIN index.nodes :
            \/ index.nodes[j].committed_tx <= last_tx_id
            \/ index.nodes[j].committed_tx = commit.tx /\ index.nodes[j].doc = d
      BY <1>1, <1>2 DEF BoundInv, NodesBound
    <3> QED BY <3>1, <3>2, <3>3, <1>0, <1>1, <1>4 DEF NodesBound
  <2> QED BY <2>1, <1>0, <1>1, <1>2, BoundFrame DEF BoundInv
<1>10. LogInv' /\ ChainInv'
  BY <1>0, <1>1, LogFrame, ChainFrame DEF Inv
<1>11. LatestIndex'
  <2> SUFFICES ASSUME NEW e \in Docs \ late
               PROVE  /\ Applied(e)' # None => HasVector(index', e, Applied(e)')
                      /\ live[e] # None => NodesOf(index', e) # {}
    BY <1>0 DEF LatestIndex
  <2>1. /\ Applied(e) # None => HasVector(index, e, Applied(e))
        /\ live[e] # None => NodesOf(index, e) # {}
    BY DEF Inv, LatestIndex
  <2>2. live[e] # None => NodesOf(index', e) # {}
    BY <2>1, <1>4
  <2> QED BY <2>1, <2>2, <1>1, <1>3, <1>4
<1>12. \A e : (Excepted(e)' <=> Excepted(e)) /\ (Unordered(e)' <=> Unordered(e)) /\ (BusyOn(e)' <=> BusyOn(e))
  BY <1>0, <1>1 DEF Excepted, Unordered, BusyOn, Older, Doc, CommitSame
<1>13. LatestBuild'
  <2>1. \A e, v : Copied(e, v) => Copied(e, v)'
    BY <1>0, <1>5 DEF Copied
  <2> QED BY <2>1, <1>0, <1>12 DEF Inv, LatestBuild, Log, snap
<1>14. LatestReplay' /\ ReplayInv'
  BY <1>0, ReplayFrame DEF Inv
<1>15. PlainInv'
  <2> SUFFICES ASSUME Plain PROVE StageInv' /\ (~torn' => GhostIndex' /\ GhostBuild' /\ GhostReplay')
    BY DEF PlainInv
  <2>1. StageInv'
    BY <1>0, <1>1, StageFrame DEF Inv, PlainInv, CommitSame
  <2>2. SUFFICES ASSUME ~torn PROVE GhostIndex' /\ GhostBuild' /\ GhostReplay'
    BY <1>0, <2>1
  <2>3. GhostIndex /\ GhostBuild /\ GhostReplay
    BY <2>2 DEF Inv, PlainInv
  <2>4. GhostIndex'
    <3> SUFFICES ASSUME NEW e \in Docs \ late
                 PROVE  Single(index', e) /\ (Applied(e)' = None => ~Mapped(index', e))
      BY <1>0 DEF GhostIndex
    <3>1. Single(index, e) /\ (Applied(e) = None => ~Mapped(index, e))
      BY <2>3 DEF GhostIndex
    <3> QED BY <3>1, <1>1, <1>3, <1>4
  <2>5. GhostBuild'
    BY <2>3, <1>0, <1>5, <1>12 DEF GhostBuild, Rebuilding, Log, snap
  <2>6. GhostReplay'
    BY <2>3, <1>0, GhostReplayFrame
  <2> QED BY <2>4, <2>5, <2>6
<1>16. DeletionsInv' /\ ClosedInv'
  BY <1>0, <1>1, DeletionsFrame, ClosedFrame DEF Inv
<1>17. PinInv'
  <2> SUFFICES ASSUME ~torn, NEW r \in Readers \ exposed, NEW e \in Docs, pins[r] # None, ~Unordered(e),
                      is_visible(seq_log, e, pins[r])
               PROVE  /\ NodesOf(index', e) # {}
                      /\ Rebuilding => \/ NodesOf(rebuild.new, e) # {}
                                       \/ \E i \in rebuild.todo : index'.nodes[i].doc = e
    BY <1>0, <1>12 DEF PinInv, Rebuilding
  <2>1. /\ NodesOf(index, e) # {}
        /\ Rebuilding => \/ NodesOf(rebuild.new, e) # {}
                         \/ \E i \in rebuild.todo : index.nodes[i].doc = e
    BY DEF Inv, PinInv
  <2> QED BY <2>1, <1>4, <1>5
<1>18. IndexOK(rebuild.new)'
  BY <1>0 DEF Inv
<1> QED BY <1>1, <1>3, <1>6, <1>7, <1>8, <1>9, <1>10, <1>11, <1>13, <1>14, <1>15, <1>16, <1>17, <1>18 DEF Inv

\* What a program makes of its document.
LEMMA OutcomeFacts ==
  ASSUME NEW d \in Docs, NEW ops \in ProgramsOn(d), NEW vectors
  PROVE  /\ Outcome(vectors, ops)[d] = IF Puts(ops, d) THEN commit.tx ELSE None
         /\ \A e \in Docs \ {d} : Outcome(vectors, ops)[e] = vectors[e]
         /\ Outcome(vectors, ops) = [e \in Docs |-> IF e # d THEN vectors[e]
                                                    ELSE IF Puts(ops, d) THEN commit.tx ELSE None]
<1> DEFINE on(e) == {i \in DOMAIN ops : ops[i].doc = e}
           last(e) == CHOOSE k \in on(e) : \A j \in on(e) : j <= k
<1>1. Outcome(vectors, ops) =
        [e \in Docs |-> IF e \notin DocsOf(ops) THEN vectors[e]
                        ELSE IF ops[last(e)].kind = "insert" THEN commit.tx ELSE None]
  BY DEF Outcome
<1>2. /\ 1 \in DOMAIN ops /\ \A i \in DOMAIN ops : ops[i].doc = d
      /\ DOMAIN ops \subseteq {1, 2}
  BY ProgramFacts
<1>3. DocsOf(ops) = {d} /\ on(d) = DOMAIN ops
  BY <1>2 DEF DocsOf
<1>4. last(d) \in DOMAIN ops /\ \A j \in DOMAIN ops : j <= last(d)
  <2> DEFINE Top(k) == k \in DOMAIN ops /\ \A j \in DOMAIN ops : j <= k
  <2>1. \E k : Top(k)
    <3>1. CASE 2 \in DOMAIN ops
      <4>1. Top(2)
        BY <3>1, <1>2
      <4> QED BY <4>1
    <3>2. CASE 2 \notin DOMAIN ops
      <4>1. Top(1)
        BY <3>2, <1>2
      <4> QED BY <4>1
    <3> QED BY <3>1, <3>2
  <2>2. last(d) = CHOOSE k \in DOMAIN ops : \A j \in DOMAIN ops : j <= k
    BY <1>3
  <2> QED BY <2>1, <2>2
<1> HIDE DEF last
<1>5. ops[last(d)].kind = "insert" <=> Puts(ops, d)
  <2>1. CASE ops = <<Insert(d)>>
    <3>1. DOMAIN ops = {1} /\ ops[1] = Insert(d)
      BY <2>1
    <3> QED BY <3>1, <2>1, <1>4, OpFacts DEF Puts
  <2>2. CASE ops = <<Delete(d)>>
    <3>1. DOMAIN ops = {1} /\ ops[1] = Delete(d) /\ Len(ops) = 1
      BY <2>2
    <3>2. ops # <<Insert(d)>> /\ ops # <<Delete(d), Insert(d)>>
      BY <3>1, OpFacts
    <3> QED BY <3>1, <3>2, <1>4, OpFacts DEF Puts
  <2>3. CASE ops = <<Delete(d), Insert(d)>>
    <3>1. DOMAIN ops = {1, 2} /\ ops[2] = Insert(d)
      BY <2>3
    <3>2. last(d) = 2
      BY <3>1, <1>4
    <3> QED BY <3>1, <3>2, <2>3, OpFacts DEF Puts
  <2>4. CASE ops = <<Insert(d), Delete(d)>>
    <3>1. DOMAIN ops = {1, 2} /\ ops[1] = Insert(d) /\ ops[2] = Delete(d) /\ Len(ops) = 2
      BY <2>4
    <3>2. last(d) = 2
      BY <3>1, <1>4
    <3>3. ops # <<Insert(d)>> /\ ops # <<Delete(d), Insert(d)>>
      BY <3>1, OpFacts
    <3> QED BY <3>1, <3>2, <3>3, OpFacts DEF Puts
  <2> QED BY <2>1, <2>2, <2>3, <2>4 DEF ProgramsOn
<1>6. \A e \in Docs : (e \notin DocsOf(ops)) <=> e # d
  BY <1>3
<1> QED BY <1>1, <1>5, <1>6

\* Before a commit logs, nothing in the log is newer than the last commit.
LEMMA LogEntryKnown ==
  ASSUME TypeVars, BoundInv, commit.at # "advance", NEW e \in Docs
  PROVE  /\ \A i \in EntriesOf(Log, e) :
              /\ Log[i].insert_seq <= last_tx_id /\ Log[i].delete_seq <= last_tx_id
         /\ seq_log.deletions[e] <= last_tx_id
BY DEF BoundInv, Known, EntriesOf

\* commit logs its operations.
LEMMA LogStepInv ==
  ASSUME Inv, CommitLog
  PROVE  Inv'
<1>0. /\ commit.at = "apply" /\ commit.todo = {}
      /\ seq_log' = RecordAll(seq_log, commit.ops)
      /\ jobs' = (jobs \/ is_rebuild_required)
      /\ commit' = [commit EXCEPT !.at = "advance"]
      /\ UNCHANGED <<index, last_tx_id, tx_buffer, begun, rebuild, pins, live,
                     unordered, late, torn, exposed>>
  BY DEF CommitLog
<1>1. TypeVars /\ CommitInv /\ RebuildInv /\ BoundInv /\ LogInv /\ ChainInv
  BY DEF Inv
<1>2. commit \in [at : {"idle", "apply", "advance"},
                  tx : Txs \union {None}, ops : Seq(IndexOps), todo : SUBSET Nat]
      /\ seq_log \in Logs
  BY <1>1 DEF TypeVars
<1>3. /\ commit'.at = "advance" /\ commit'.tx = commit.tx /\ commit'.ops = commit.ops
      /\ commit'.todo = commit.todo
      /\ commit' \in [at : {"idle", "apply", "advance"},
                      tx : Txs \union {None}, ops : Seq(IndexOps), todo : SUBSET Nat]
  BY <1>0, <1>2
<1>4. Busy /\ Busy' /\ commit.tx \in Txs /\ commit.tx # last_tx_id
  BY <1>0, <1>1, <1>3 DEF Busy, CommitInv
<1>5. PICK d \in Docs : commit.ops \in ProgramsOn(d)
  BY <1>1, <1>4 DEF CommitInv, IsProgram
<1>6. Doc = d /\ Doc' = d
  BY <1>3, <1>5, ProgramFacts DEF Doc
<1>7. /\ last_tx_id \in Nat /\ commit.tx \in Nat /\ snap \in Nat
      /\ \A r \in Readers : pins[r] \in Nat
  BY <1>1, Numbers
<1>8. /\ \A e \in Docs : OnlyLastOpen(Log, e)
      /\ \A e \in Docs : \A i \in EntriesOf(Log, e) :
            Log[i].insert_seq <= last_tx_id /\ Log[i].delete_seq <= last_tx_id
      /\ \A e \in Docs : seq_log.deletions[e] <= last_tx_id
  BY <1>0, <1>1, LogEntryKnown DEF LogInv
<1>9. /\ seq_log' \in Logs /\ LogStep(seq_log, seq_log', d, commit.tx) /\ OnlyLastOpen(Log', d)
      /\ Puts(commit.ops, d) => \E i \in EntriesOf(Log', d) :
            Log'[i].delete_seq = None /\ Log'[i].insert_seq = commit.tx
      /\ ~Puts(commit.ops, d) => AllClosed(Log', d)
  <2>1. OnlyLastOpen(seq_log.entries, d)
    BY <1>8 DEF Log
  <2> QED BY <2>1, <1>0, <1>2, <1>4, <1>5, RecordAllStep DEF Log
<1>10. \A e \in Docs \ {d} :
          /\ EntriesOf(Log', e) = EntriesOf(Log, e)
          /\ \A i \in EntriesOf(Log, e) : /\ Log'[i].insert_seq = Log[i].insert_seq
                                          /\ Log'[i].delete_seq = Log[i].delete_seq
          /\ OnlyLastOpen(Log', e) <=> OnlyLastOpen(Log, e)
          /\ AllClosed(Log', e) <=> AllClosed(Log, e)
          /\ \A c : Changed(Log', e, c) <=> Changed(Log, e, c)
          /\ \A c : LiveAt(Log', e, c) <=> LiveAt(Log, e, c)
          /\ \A c : Chain(Log', e, c) <=> Chain(Log, e, c)
          /\ \A c : VisibleIn(Log', e, c) <=> VisibleIn(Log, e, c)
          /\ seq_log'.deletions[e] = seq_log.deletions[e]
  <2> TAKE e \in Docs \ {d}
  <2>1. Log = seq_log.entries /\ Log' = seq_log'.entries
    BY DEF Log
  <2>2. e \in Docs /\ e # d
    OBVIOUS
  <2>3. seq_log \in Logs /\ seq_log' \in Logs /\ LogStep(seq_log, seq_log', d, commit.tx)
    BY <1>2, <1>9
  <2> QED BY <2>1, <2>2, <2>3, LogStepOthers
<1>11. ASSUME ~Older
       PROVE  /\ last_tx_id < commit.tx
              /\ \A c \in Nat : c <= last_tx_id =>
                   /\ Chain(Log, d, c) => Chain(Log', d, c)
                   /\ LiveAt(Log, d, c) => LiveAt(Log', d, c)
                   /\ VisibleIn(Log', d, c) => VisibleIn(Log, d, c)
  <2>1. last_tx_id < commit.tx
    BY <1>4, <1>7, <1>11 DEF Older
  <2>2. OnlyLastOpen(seq_log.entries, d)
        /\ \A i \in EntriesOf(seq_log.entries, d) :
             seq_log.entries[i].insert_seq <= last_tx_id /\ seq_log.entries[i].delete_seq <= last_tx_id
    BY <1>8 DEF Log
  <2> QED BY <2>1, <2>2, <1>2, <1>4, <1>7, <1>9, LogStepNewer DEF Log
<1>12. \A e : (Excepted(e)' <=> Excepted(e)) /\ (Unordered(e)' <=> Unordered(e))
              /\ (BusyOn(e)' <=> BusyOn(e)) /\ (Older' <=> Older)
  BY <1>0, <1>3, <1>4, <1>6 DEF Excepted, Unordered, BusyOn, Older
<1>13. \A e \in Docs : Applied(e)' = Applied(e) /\ (Recorded(e) = live[e])
  <2>1. AppliedKinds' = AppliedKinds
    BY <1>3 DEF AppliedKinds
  <2> QED BY <2>1, <1>0, <1>3, <1>12 DEF Applied, Recorded
<1>14. /\ \A e \in Docs \ {d} : Recorded(e)' = live[e]
       /\ Recorded(d)' = IF Puts(commit.ops, d) THEN commit.tx ELSE None
  <2>1. \A e \in Docs : Outcome(live, commit.ops)[e]' = Outcome(live, commit.ops)[e]
    BY <1>0, <1>3 DEF Outcome, DocsOf
  <2>2. Outcome(live, commit.ops)[d] = IF Puts(commit.ops, d) THEN commit.tx ELSE None
    BY <1>5, OutcomeFacts
  <2> QED BY <2>1, <2>2, <1>0, <1>3, <1>6 DEF Recorded
<1>15. TypeVars'
  <2>1. jobs' \in BOOLEAN
    BY <1>0
  <2> QED BY <2>1, <1>0, <1>1, <1>3, <1>9 DEF TypeVars
<1>16. BufferInv'
  BY <1>0, <1>3, <1>4, BufferFrame DEF Inv
<1>17. CommitInv'
  <2>1. /\ commit.tx \in Txs /\ commit.tx <= begun /\ commit.tx # last_tx_id /\ IsProgram(commit.ops)
    BY <1>1, <1>4 DEF CommitInv
  <2> QED BY <2>1, <1>0, <1>3, <1>4 DEF CommitInv
<1>18. RebuildInv'
  BY <1>0, <1>1, <1>4 DEF RebuildInv, Rebuilding, snap
<1>19. BoundInv'
  <2>1. NodesBound(index)' /\ NodesBound(rebuild.new)'
    BY <1>0, <1>1, <1>3, <1>4, <1>6 DEF BoundInv, NodesBound
  <2>2. ASSUME NEW i \in DOMAIN Log'
        PROVE  Known(Log[i].doc, Log[i].insert_seq)' /\ Known(Log[i].doc, Log[i].delete_seq)'
    <3>1. CASE i \in DOMAIN Log
      <4>1. /\ Log'[i].doc = Log[i].doc /\ Log'[i].insert_seq = Log[i].insert_seq
            /\ Log'[i].delete_seq = IF Log[i].doc = d /\ Log[i].delete_seq = None THEN commit.tx
                                    ELSE Log[i].delete_seq
        BY <3>1, <1>9 DEF LogStep, ClosedIn, Log
      <4>2. Log[i].insert_seq <= last_tx_id /\ Log[i].delete_seq <= last_tx_id
        BY <3>1, <1>0, <1>1 DEF BoundInv, Known
      <4> QED BY <4>1, <4>2, <1>0, <1>3, <1>6 DEF Known
    <3>2. CASE i \notin DOMAIN Log
      <4>1. /\ Log'[i].doc = d /\ Log'[i].insert_seq = commit.tx
            /\ Log'[i].delete_seq = 0 \/ Log'[i].delete_seq = commit.tx
        BY <3>2, <2>2, <1>9 DEF LogStep, Log, None
      <4>2. 0 <= last_tx_id
        BY <1>7
      <4> QED BY <4>1, <4>2, <1>0, <1>3, <1>6 DEF Known
    <3> QED BY <3>1, <3>2
  <2>3. ASSUME NEW e \in Docs PROVE Known(e, seq_log.deletions[e])'
    <3>1. CASE e # d
      BY <3>1, <1>0, <1>8, <1>10 DEF Known
    <3>2. CASE e = d
      <4>1. seq_log'.deletions[d] \in {commit.tx, seq_log.deletions[d], 0}
        BY <1>9 DEF LogStep, None
      <4>2. 0 <= last_tx_id
        BY <1>7
      <4> QED BY <4>1, <4>2, <3>2, <1>0, <1>3, <1>6, <1>8 DEF Known
    <3> QED BY <3>1, <3>2
  <2>4. \A r \in Readers : pins'[r] <= last_tx_id'
    BY <1>0, <1>1 DEF BoundInv
  <2> QED BY <2>1, <2>2, <2>3, <2>4 DEF BoundInv
<1>20. LogInv'
  <2> SUFFICES ASSUME NEW e \in Docs
               PROVE  /\ OnlyLastOpen(Log', e)
                      /\ Recorded(e)' # None => \E i \in EntriesOf(Log', e) :
                            Log'[i].delete_seq = None /\ Log'[i].insert_seq = Recorded(e)'
                      /\ Recorded(e)' = None => AllClosed(Log', e)
    BY DEF LogInv
  <2>1. CASE e # d
    <3>1. /\ Recorded(e) # None => \E i \in EntriesOf(Log, e) :
                            Log[i].delete_seq = None /\ Log[i].insert_seq = Recorded(e)
          /\ Recorded(e) = None => AllClosed(Log, e)
      BY <1>1 DEF LogInv
    <3> QED BY <3>1, <2>1, <1>8, <1>10, <1>13, <1>14
  <2>2. CASE e = d
    <3>1. commit.tx # None
      BY <1>1, <1>4, Numbers DEF None
    <3> QED BY <3>1, <2>2, <1>9, <1>14
  <2> QED BY <2>1, <2>2
<1>21. ChainInv'
  <2>1. ASSUME ~Older PROVE Chain(Log', d, last_tx_id)
    <3>1. \A i \in EntriesOf(Log, d) : ~(Log[i].insert_seq > last_tx_id) /\ ~(Log[i].delete_seq > last_tx_id)
      <4>1. \A i \in EntriesOf(Log, d) : Log[i].insert_seq \in Nat /\ Log[i].delete_seq \in Nat
        BY <1>2, EntryTypes DEF Logs, Log, EntriesOf
      <4> QED BY <4>1, <1>7, <1>8
    <3>2. Chain(Log, d, last_tx_id)
      BY <3>1 DEF Chain
    <3> QED BY <3>2, <2>1, <1>7, <1>11
  <2>2. ASSUME Rebuilding, NEW e \in Docs, ~Excepted(e) PROVE Chain(Log', e, snap)
    <3>1. Chain(Log, e, snap) /\ snap <= last_tx_id
      BY <2>2, <1>1 DEF ChainInv, RebuildInv
    <3>2. CASE e # d
      BY <3>1, <3>2, <1>10
    <3>3. CASE e = d
      <4>1. ~Older
        BY <2>2, <3>3, <1>6 DEF Excepted
      <4> QED BY <3>1, <3>3, <4>1, <1>7, <1>11
    <3> QED BY <3>2, <3>3
  <2> QED BY <2>1, <2>2, <1>0, <1>6, <1>12 DEF ChainInv, Rebuilding, snap
<1>22. LatestIndex'
  BY <1>0, <1>13 DEF Inv, LatestIndex
<1>23. rebuild.at # "replay" /\ rebuild'.at # "replay"
  BY <1>0, <1>1, <1>4 DEF RebuildInv
<1>24. LatestReplay' /\ ReplayInv' /\ GhostReplay'
  BY <1>23 DEF LatestReplay, ReplayInv, GhostReplay
<1>25. LatestBuild'
  <2>1. \A e, v : Copied(e, v)' <=> Copied(e, v)
    BY <1>0 DEF Copied
  <2>2. \A e \in Docs : ~BusyOn(e) => e # d
    BY <1>4, <1>6 DEF BusyOn
  <2>3. snap' = snap
    BY <1>0 DEF snap
  <2> QED BY <2>1, <2>2, <2>3, <1>0, <1>10, <1>12 DEF Inv, LatestBuild
<1>26. PlainInv'
  <2>1. StageInv => StageInv'
    BY <1>0, <1>3, StageFrame
  <2>2. GhostIndex => GhostIndex'
    BY <1>0, <1>13 DEF GhostIndex
  <2>3. ASSUME GhostBuild PROVE GhostBuild'
    <3>0. snap' = snap /\ (Rebuilding' <=> Rebuilding)
      BY <1>0 DEF snap, Rebuilding
    <3>1. ASSUME Rebuilding, NEW e \in Docs, ~Excepted(e), LiveAt(Log, e, snap)
          PROVE  LiveAt(Log', e, snap)
      <4>1. CASE e # d
        BY <3>1, <4>1, <1>10
      <4>2. CASE e = d
        <5>1. ~Older
          BY <3>1, <4>2, <1>6 DEF Excepted
        <5>2. snap <= last_tx_id
          BY <3>1, <1>1 DEF RebuildInv
        <5> QED BY <3>1, <4>2, <5>1, <5>2, <1>7, <1>11
      <4> QED BY <4>1, <4>2
    <3> QED BY <2>3, <3>0, <3>1, <1>0, <1>12 DEF GhostBuild
  <2> QED BY <2>1, <2>2, <2>3, <1>0, <1>24 DEF Inv, PlainInv
<1>27. DeletionsInv'
  <2> SUFFICES ASSUME NEW e \in Docs, ~Unordered(e), AllClosed(Log', e), NEW i \in EntriesOf(Log', e)
               PROVE  Log'[i].delete_seq <= seq_log'.deletions[e]
    BY <1>12 DEF DeletionsInv
  <2>1. AllClosed(Log, e) => \A j \in EntriesOf(Log, e) : Log[j].delete_seq <= seq_log.deletions[e]
    BY DEF Inv, DeletionsInv
  <2>2. CASE e # d
    BY <2>1, <2>2, <1>10
  <2>3. CASE e = d
    <3>1. ~Older
      BY <2>3, <1>6 DEF Unordered
    <3>2. last_tx_id < commit.tx
      BY <3>1, <1>11
    <3>3. /\ \A j \in EntriesOf(seq_log.entries, d) : seq_log.entries[j].delete_seq <= last_tx_id
          /\ AllClosed(seq_log.entries, d) =>
                \A j \in EntriesOf(seq_log.entries, d) : seq_log.entries[j].delete_seq <= seq_log.deletions[d]
          /\ AllClosed(seq_log'.entries, d)
      BY <2>1, <2>3, <1>8 DEF Log
    <3>4. \A j \in EntriesOf(seq_log'.entries, d) : seq_log'.entries[j].delete_seq <= seq_log'.deletions[d]
      BY <3>2, <3>3, <1>2, <1>4, <1>7, <1>9, LogStepDeletions
    <3> QED BY <3>4, <2>3 DEF Log
  <2> QED BY <2>2, <2>3
<1>28. ClosedInv'
  <2> SUFFICES ASSUME ~Older, NEW i \in EntriesOf(Log', d),
                      Log'[i].delete_seq = commit.tx, Log'[i].insert_seq # commit.tx
               PROVE  live[d] # None
    BY <1>0, <1>3, <1>6, <1>12 DEF ClosedInv
  <2>1. i \in DOMAIN Log
    BY <1>9 DEF LogStep, EntriesOf, Log
  <2>2. /\ Log'[i].doc = Log[i].doc
        /\ Log'[i].delete_seq = IF Log[i].doc = d /\ Log[i].delete_seq = None THEN commit.tx
                                ELSE Log[i].delete_seq
    BY <2>1, <1>9 DEF LogStep, ClosedIn, Log
  <2>3. i \in EntriesOf(Log, d)
    BY <2>1, <2>2 DEF EntriesOf
  <2>4. Log[i].delete_seq \in Nat
    BY <2>1, <1>2, EntryTypes DEF Logs, Log
  <2>5. Log[i].delete_seq = None
    <3>1. last_tx_id < commit.tx /\ Log[i].delete_seq <= last_tx_id
      BY <2>3, <1>8, <1>11
    <3> QED BY <3>1, <2>2, <2>4, <1>7
  <2>6. ~AllClosed(Log, d)
    BY <2>3, <2>5 DEF AllClosed
  <2> QED BY <2>6, <1>1, <1>13 DEF LogInv
<1>29. PinInv'
  <2> SUFFICES ASSUME ~torn, NEW r \in Readers \ exposed, NEW e \in Docs, pins[r] # None, ~Unordered(e),
                      is_visible(seq_log', e, pins[r])
               PROVE  is_visible(seq_log, e, pins[r])
    BY <1>0, <1>12 DEF Inv, PinInv, Rebuilding
  <2>1. VisibleIn(Log', e, pins[r])
    BY <1>7, <1>9, VisibleIs DEF Log
  <2>2. VisibleIn(Log, e, pins[r])
    <3>1. CASE e # d
      BY <3>1, <2>1, <1>10
    <3>2. CASE e = d
      <4>1. ~Older
        BY <3>2, <1>6 DEF Unordered
      <4>2. pins[r] <= last_tx_id
        BY <1>1 DEF BoundInv
      <4> QED BY <3>2, <4>1, <4>2, <2>1, <1>7, <1>11
    <3> QED BY <3>1, <3>2
  <2> QED BY <2>2, <1>2, <1>7, VisibleIs DEF Log
<1>30. IndexOK(index)' /\ IndexOK(rebuild.new)'
  BY <1>0 DEF Inv
<1> QED BY <1>15, <1>16, <1>17, <1>18, <1>19, <1>20, <1>21, <1>22, <1>24, <1>25, <1>26, <1>27, <1>28,
           <1>29, <1>30 DEF Inv

\* What the index has of the document when all operations of a commit are applied.
LEMMA AllApplied ==
  ASSUME NEW d \in Docs, commit.ops \in ProgramsOn(d), commit.todo = {}, Busy
  PROVE  /\ Doc = d
         /\ Puts(commit.ops, d) => Applied(d) = commit.tx
         /\ ~Puts(commit.ops, d) /\ commit.ops # <<Insert(d), Delete(d)>> => Applied(d) = None
<1>0. AppliedKinds = {commit.ops[i].kind : i \in DOMAIN commit.ops}
  BY DEF AppliedKinds
<1>1. Doc = d /\ BusyOn(d)
  BY ProgramFacts DEF Doc, BusyOn
<1>2. CASE commit.ops = <<Insert(d)>>
  <2>1. DOMAIN commit.ops = {1} /\ commit.ops[1].kind = "insert" /\ Puts(commit.ops, d)
    BY <1>2, OpFacts DEF Puts
  <2> QED BY <2>1, <1>0, <1>1 DEF Applied
<1>3. CASE commit.ops = <<Delete(d), Insert(d)>>
  <2>1. 2 \in DOMAIN commit.ops /\ commit.ops[2].kind = "insert" /\ Puts(commit.ops, d)
    BY <1>3, OpFacts DEF Puts
  <2> QED BY <2>1, <1>0, <1>1 DEF Applied
<1>4. CASE commit.ops = <<Delete(d)>>
  <2>1. DOMAIN commit.ops = {1} /\ commit.ops[1] = Delete(d) /\ commit.ops[1].kind = "delete"
    BY <1>4, OpFacts
  <2>2. AppliedKinds = {"delete"}
    BY <2>1, <1>0
  <2>3. Applied(d) = None
    BY <2>2, <1>1 DEF Applied
  <2>4. ~Puts(commit.ops, d)
    <3>1. Len(commit.ops) = 1
      BY <1>4
    <3> QED BY <3>1, <2>1, OpFacts DEF Puts
  <2> QED BY <2>3, <2>4, <1>1
<1>5. CASE commit.ops = <<Insert(d), Delete(d)>>
  <2>1. Len(commit.ops) = 2 /\ commit.ops[1] = Insert(d)
    BY <1>5
  <2>2. ~Puts(commit.ops, d)
    BY <2>1, OpFacts DEF Puts
  <2> QED BY <2>2, <1>1, <1>5
<1> QED BY <1>2, <1>3, <1>4, <1>5 DEF ProgramsOn

\* commit advances last_tx_id and releases write_mutex: the history takes the outcome.
LEMMA AdvanceStep ==
  ASSUME Inv, CommitAdvance
  PROVE  Inv'
<1>0. /\ commit.at = "advance"
      /\ last_tx_id' = IF commit.tx > last_tx_id THEN commit.tx ELSE last_tx_id
      /\ commit' = IdleCommit
      /\ live' = Outcome(live, commit.ops)
      /\ unordered' = unordered \union (IF commit.tx < last_tx_id THEN DocsOf(commit.ops) ELSE {})
      /\ late' = IF rebuild.at # "idle"
                 THEN late \union (IF commit.tx < last_tx_id THEN DocsOf(commit.ops) ELSE {}) ELSE late
      /\ UNCHANGED <<index, seq_log, tx_buffer, begun, jobs, rebuild, pins, torn, exposed>>
  BY DEF CommitAdvance
<1>1. TypeVars /\ BufferInv /\ CommitInv /\ RebuildInv /\ BoundInv /\ LogInv /\ ChainInv
  BY DEF Inv
<1>2. /\ Busy /\ commit.tx \in Txs /\ commit.tx <= begun /\ commit.tx # last_tx_id /\ commit.todo = {}
      /\ IsProgram(commit.ops)
  BY <1>0, <1>1 DEF Busy, CommitInv
<1>3. PICK d \in Docs : commit.ops \in ProgramsOn(d)
  BY <1>2 DEF IsProgram
<1>4. /\ Doc = d
      /\ Puts(commit.ops, d) => Applied(d) = commit.tx
      /\ ~Puts(commit.ops, d) /\ commit.ops # <<Insert(d), Delete(d)>> => Applied(d) = None
  BY <1>2, <1>3, AllApplied
<1>5. /\ last_tx_id \in Nat /\ commit.tx \in Nat /\ snap \in Nat /\ begun \in Nat
      /\ commit.tx # None /\ last_tx_id <= begun
  BY <1>1, <1>2, Numbers DEF BufferInv, None
<1>6. last_tx_id' \in Nat /\ last_tx_id <= last_tx_id' /\ commit.tx <= last_tx_id'
      /\ last_tx_id' \in {last_tx_id, commit.tx}
  BY <1>0, <1>5
<1>7. /\ commit'.at = "idle" /\ commit'.ops = <<>> /\ commit'.todo = {} /\ ~Busy' /\ ~Older'
      /\ \A e : ~BusyOn(e)'
      /\ commit' \in [at : {"idle", "apply", "advance"},
                      tx : Txs \union {None}, ops : Seq(IndexOps), todo : SUBSET Nat]
  BY <1>0 DEF IdleCommit, Busy, Older, BusyOn
<1>8. /\ \A e \in Docs \ {d} : live'[e] = live[e] /\ Applied(e) = live[e]
      /\ live'[d] = IF Puts(commit.ops, d) THEN commit.tx ELSE None
      /\ \A e \in Docs : live'[e] = Recorded(e)
      /\ live' \in [Docs -> Txs \union {None}]
  <2>1. /\ Outcome(live, commit.ops)[d] = IF Puts(commit.ops, d) THEN commit.tx ELSE None
        /\ \A e \in Docs \ {d} : Outcome(live, commit.ops)[e] = live[e]
        /\ Outcome(live, commit.ops) = [e \in Docs |-> IF e # d THEN live[e]
                                              ELSE IF Puts(commit.ops, d) THEN commit.tx ELSE None]
    BY <1>3, OutcomeFacts
  <2>2. live \in [Docs -> Txs \union {None}]
    BY <1>1 DEF TypeVars
  <2>3. live' \in [Docs -> Txs \union {None}]
    BY <2>1, <2>2, <1>0, <1>2
  <2>4. \A e \in Docs \ {d} : Applied(e) = live[e]
    BY <1>4 DEF Applied, BusyOn
  <2> QED BY <2>1, <2>3, <2>4, <1>0, <1>4 DEF Recorded
<1>9. DocsOf(commit.ops) = {d}
  <2>1. 1 \in DOMAIN commit.ops /\ \A i \in DOMAIN commit.ops : commit.ops[i].doc = d
    BY <1>3, ProgramFacts
  <2> QED BY <2>1 DEF DocsOf
<1>10. /\ late \subseteq late' /\ \A e : Unordered(e) => Unordered(e)'
       /\ Rebuilding => \A e : Excepted(e) => Excepted(e)'
       /\ \A e : Excepted(e)' <=> e \in late'
  BY <1>0, <1>4, <1>7, <1>9 DEF Unordered, Excepted, Older, Rebuilding
<1>11. Rebuilding => snap <= last_tx_id
  BY <1>1 DEF RebuildInv
<1>12. \A e \in Docs : Applied(e)' = live'[e] /\ Recorded(e)' = live'[e]
  BY <1>7 DEF Applied, Recorded
<1>13. TypeVars'
  <2>1. last_tx_id' \in 0 .. MAX_TX
    <3>1. MAX_TX \in Nat /\ commit.tx <= MAX_TX /\ last_tx_id <= MAX_TX
      BY <1>1, <1>2, Numbers DEF TypeVars
    <3> QED BY <3>1, <1>5, <1>6
  <2>2. late' \subseteq unordered' /\ unordered' \subseteq Docs
    BY <1>0, <1>1, <1>9 DEF TypeVars
  <2> QED BY <2>1, <2>2, <1>0, <1>1, <1>7, <1>8 DEF TypeVars
<1>14. BufferInv'
  <2>1. last_tx_id' <= begun'
    BY <1>0, <1>2, <1>5, <1>6
  <2>2. \A t \in Txs : tx_buffer[t] # <<>> =>
          IsProgram(tx_buffer[t]) /\ t <= begun /\ t # last_tx_id /\ t # commit.tx
    BY <1>1, <1>2 DEF BufferInv
  <2> QED BY <2>1, <2>2, <1>0, <1>6, <1>7 DEF BufferInv
<1>15. CommitInv'
  BY <1>0, <1>7 DEF CommitInv
<1>16. RebuildInv'
  <2>1. Rebuilding' => snap' <= last_tx_id'
    BY <1>0, <1>5, <1>6, <1>11 DEF Rebuilding, snap
  <2> QED BY <2>1, <1>0, <1>1, <1>7 DEF RebuildInv
<1>17. BoundInv'
  <2>1. \A n \in Nat : n <= last_tx_id \/ n = commit.tx => n <= last_tx_id'
    BY <1>5, <1>6
  <2>2. ASSUME NEW ix \in Indexes, NodesBound(ix)
        PROVE  \A i \in DOMAIN ix.nodes : ix.nodes[i].committed_tx <= last_tx_id'
    <3>1. \A i \in DOMAIN ix.nodes : ix.nodes[i].committed_tx \in Nat
      <4>1. \A i \in DOMAIN ix.nodes : ix.nodes[i] \in Nodes
        BY DEF Indexes
      <4> QED BY <4>1, <1>1, Numbers DEF Nodes
    <3> QED BY <2>1, <2>2, <3>1 DEF NodesBound
  <2>3. NodesBound(index)' /\ NodesBound(rebuild.new)'
    BY <2>2, <1>0, <1>1 DEF BoundInv, NodesBound, TypeVars
  <2>4. ASSUME NEW i \in DOMAIN Log'
        PROVE  Log'[i].insert_seq <= last_tx_id' /\ Log'[i].delete_seq <= last_tx_id'
    <3>1. Log' = Log /\ i \in DOMAIN Log
      BY <2>4, <1>0 DEF Log
    <3>2. Log[i].insert_seq \in Nat /\ Log[i].delete_seq \in Nat
      BY <3>1, <1>1, EntryTypes DEF TypeVars, Logs, Log
    <3> QED BY <2>1, <3>1, <3>2, <1>1 DEF BoundInv, Known
  <2>5. ASSUME NEW e \in Docs PROVE seq_log'.deletions[e] <= last_tx_id'
    <3>1. seq_log.deletions[e] \in Nat
      BY <1>1, Numbers
    <3> QED BY <2>1, <3>1, <1>0, <1>1 DEF BoundInv, Known
  <2>6. \A r \in Readers : pins'[r] <= last_tx_id'
    <3>1. \A r \in Readers : pins[r] \in Nat /\ pins[r] <= last_tx_id
      BY <1>1, Numbers DEF BoundInv
    <3> QED BY <2>1, <3>1, <1>0
  <2> QED BY <2>3, <2>4, <2>5, <2>6 DEF BoundInv, Known
<1>18. LogInv'
  BY <1>0, <1>1, <1>8, <1>12 DEF LogInv, Log
<1>19. ChainInv'
  BY <1>0, <1>1, <1>7, <1>10 DEF ChainInv, Log, Rebuilding, snap
<1>20. LatestIndex'
  <2> SUFFICES ASSUME NEW e \in Docs \ late', live'[e] # None
               PROVE  HasVector(index, e, live'[e]) /\ NodesOf(index, e) # {}
    BY <1>0, <1>12 DEF LatestIndex
  <2>1. /\ Applied(e) # None => HasVector(index, e, Applied(e))
        /\ live[e] # None => NodesOf(index, e) # {}
    BY <1>10 DEF Inv, LatestIndex
  <2>2. live'[e] = Applied(e)
    BY <1>4, <1>8
  <2>3. Mapped(index, e) /\ IndexOK(index)
    BY <2>1, <2>2 DEF HasVector, Inv
  <2>4. NodesOf(index, e) # {}
    BY <2>3, VectorNode
  <2> QED BY <2>1, <2>2, <2>4
<1>21. LatestBuild'
  <2> SUFFICES ASSUME rebuild.at = "build", NEW e \in Docs, ~Excepted(e)', ~Changed(Log, e, snap), live'[e] # None
               PROVE  Copied(e, live'[e])
    BY <1>0 DEF LatestBuild, Log, snap, Copied
  <2>1. Rebuilding /\ ~Excepted(e)
    BY <1>10 DEF Rebuilding
  <2>2. CASE e # d
    <3>1. ~BusyOn(e) /\ live'[e] = live[e]
      BY <2>2, <1>4, <1>8 DEF BusyOn
    <3> QED BY <3>1, <2>1 DEF Inv, LatestBuild
  <2>3. CASE e = d
    <3>1. Recorded(d) = commit.tx
      BY <2>3, <1>8
    <3>2. \E i \in EntriesOf(Log, d) : Log[i].insert_seq = commit.tx
      BY <3>1, <1>1, <1>5 DEF LogInv
    <3>3. commit.tx > snap
      <4>1. ~Older /\ snap <= last_tx_id
        BY <2>1, <2>3, <1>4, <1>11 DEF Excepted
      <4> QED BY <4>1, <1>2, <1>5 DEF Older
    <3> QED BY <3>2, <3>3, <2>3 DEF Changed
  <2> QED BY <2>2, <2>3
<1>22. rebuild.at # "replay" /\ rebuild'.at # "replay"
  BY <1>0, <1>1, <1>2 DEF RebuildInv
<1>23. LatestReplay' /\ ReplayInv' /\ GhostReplay'
  BY <1>22 DEF LatestReplay, ReplayInv, GhostReplay
<1>24. PlainInv'
  <2> SUFFICES ASSUME Plain PROVE StageInv' /\ (~torn' => GhostIndex' /\ GhostBuild' /\ GhostReplay')
    BY DEF PlainInv
  <2>0. StageInv
    BY DEF Inv, PlainInv
  <2>1. StageInv'
    <3>1. ASSUME NEW t \in Txs, NEW e \in Docs, tx_buffer'[t] = <<Insert(e)>>
          PROVE  /\ live'[e] = None
                 /\ \A u \in Txs \ {t} : \A i \in DOMAIN tx_buffer'[u] : tx_buffer'[u][i] # Insert(e)
                 /\ \A i \in DOMAIN commit'.ops : commit'.ops[i] # Insert(e)
      <4>1. /\ live[e] = None
            /\ \A u \in Txs \ {t} : \A i \in DOMAIN tx_buffer[u] : tx_buffer[u][i] # Insert(e)
            /\ \A i \in DOMAIN commit.ops : commit.ops[i] # Insert(e)
        BY <2>0, <3>1, <1>0 DEF StageInv
      <4>2. DOMAIN commit'.ops = {}
        BY <1>7
      <4>3. live'[e] = None
        <5>1. CASE e # d
          BY <4>1, <5>1, <1>8
        <5>2. CASE e = d
          <6>1. commit.ops # <<Insert(d)>>
            <7>1. SUFFICES ASSUME commit.ops = <<Insert(d)>> PROVE FALSE
              OBVIOUS
            <7>2. 1 \in DOMAIN commit.ops /\ commit.ops[1] = Insert(d)
              BY <7>1
            <7> QED BY <7>2, <4>1, <5>2
          <6>2. commit.ops # <<Delete(d), Insert(d)>>
            <7>1. SUFFICES ASSUME commit.ops = <<Delete(d), Insert(d)>> PROVE FALSE
              OBVIOUS
            <7>2. 2 \in DOMAIN commit.ops /\ commit.ops[2] = Insert(d)
              BY <7>1
            <7> QED BY <7>2, <4>1, <5>2
          <6> QED BY <6>1, <6>2, <5>2, <1>8 DEF Puts
        <5> QED BY <5>1, <5>2
      <4> QED BY <4>1, <4>2, <4>3, <1>0
    <3>2. \A e \in Docs : <<>> # <<Insert(e)>> /\ <<>> # <<Insert(e), Delete(e)>>
      OBVIOUS
    <3> QED BY <2>0, <3>1, <3>2, <1>0, <1>7 DEF StageInv
  <2>2. SUFFICES ASSUME ~torn PROVE GhostIndex' /\ GhostBuild'
    BY <2>1, <1>0, <1>23
  <2>3. GhostIndex /\ GhostBuild
    BY <2>2 DEF Inv, PlainInv
  <2>4. GhostIndex'
    <3> SUFFICES ASSUME NEW e \in Docs \ late'
                 PROVE  Single(index, e) /\ (live'[e] = None => ~Mapped(index, e))
      BY <1>0, <1>12 DEF GhostIndex
    <3>1. Single(index, e) /\ (Applied(e) = None => ~Mapped(index, e))
      BY <2>3, <1>10 DEF GhostIndex
    <3>2. live'[e] = Applied(e)
      <4>1. commit.ops # <<Insert(d), Delete(d)>>
        BY <2>0 DEF StageInv
      <4> QED BY <4>1, <1>4, <1>8
    <3> QED BY <3>1, <3>2
  <2>5. GhostBuild'
    BY <2>3, <1>0, <1>10 DEF GhostBuild, Rebuilding, Log, snap
  <2> QED BY <2>4, <2>5
<1>25. DeletionsInv'
  BY <1>0, <1>10 DEF Inv, DeletionsInv, Log
<1>26. ClosedInv'
  BY <1>7 DEF ClosedInv
<1>27. PinInv'
  BY <1>0, <1>10 DEF Inv, PinInv, Rebuilding
<1>28. IndexOK(index)' /\ IndexOK(rebuild.new)'
  BY <1>0 DEF Inv
<1> QED BY <1>13, <1>14, <1>15, <1>16, <1>17, <1>18, <1>19, <1>20, <1>21, <1>23, <1>24, <1>25, <1>26,
           <1>27, <1>28 DEF Inv

-----------------------------------------------------------------------------
(* The rebuild.                                                            *)

\* Steps of a rebuild before the swap keep all that is said of the live index, the log
\* and the transactions.
LEMMA RebuildOnly ==
  ASSUME Inv, UNCHANGED <<index, seq_log, last_tx_id, tx_buffer, begun, commit, pins, live,
                          unordered, late, exposed>>,
         torn => torn', TypeVars', IndexOK(rebuild.new)', RebuildInv', NodesBound(rebuild.new)',
         Rebuilding' => \A d \in Docs : ~Excepted(d) => Chain(Log, d, rebuild'.snapshot_tx),
         LatestBuild', LatestReplay', ReplayInv',
         Plain /\ ~torn' => GhostBuild' /\ GhostReplay', PinInv'
  PROVE  Inv'
<1>0. CommitSame
  BY DEF CommitSame
<1>1. IndexOK(index)'
  BY DEF Inv
<1>2. BufferInv' /\ CommitInv' /\ LogInv'
  <2>1. Busy' <=> Busy
    BY DEF Busy
  <2> QED BY <2>1, <1>0, BufferFrame, CommitFrame, LogFrame DEF Inv
<1>3. BoundInv'
  BY <1>0, BoundFrame DEF Inv, BoundInv
<1>4. ChainInv'
  <2>1. \A d : Excepted(d)' <=> Excepted(d)
    BY DEF Excepted, Older, Busy, Doc
  <2>2. Log' = Log /\ Doc' = Doc /\ (Older' <=> Older)
    BY DEF Log, Doc, Older, Busy
  <2> QED BY <2>1, <2>2 DEF Inv, ChainInv, snap
<1>5. LatestIndex'
  BY LatestIndexFrame DEF Inv
<1>6. PlainInv'
  <2>1. ASSUME Plain, ~torn' PROVE GhostIndex'
    BY <2>1, GhostIndexFrame DEF Inv, PlainInv
  <2>2. Plain => StageInv'
    BY StageFrame DEF Inv, PlainInv
  <2> QED BY <2>1, <2>2 DEF PlainInv
<1>7. DeletionsInv' /\ ClosedInv'
  BY <1>0, DeletionsFrame, ClosedFrame DEF Inv
<1> QED BY <1>1, <1>2, <1>3, <1>4, <1>5, <1>6, <1>7 DEF Inv

\* A rebuild takes the flag, finds it taken, or fails: nothing is swapped.
LEMMA SimpleRebuildStep ==
  ASSUME Inv, RebuildStart \/ RebuildSkipped \/ RebuildFails
  PROVE  Inv'
<1>0. UNCHANGED <<index, seq_log, last_tx_id, tx_buffer, begun, commit, pins, live,
                  unordered, late, torn, exposed>>
  BY DEF RebuildStart, RebuildSkipped, RebuildFails
<1>1. TypeVars /\ RebuildInv /\ BoundInv /\ PinInv /\ IndexOK(rebuild.new)
  BY DEF Inv
<1>2. rebuild \in [at : {"idle", "phase1", "build", "replay"}, new : Indexes,
                    snapshot_tx : 0 .. MAX_TX, todo : SUBSET Nat, dead : SUBSET Nat,
                    delta : SUBSET [op : IndexOps, seq : Txs, entry : Nat]]
      /\ jobs \in BOOLEAN
  BY <1>1 DEF TypeVars
<1>3. CASE RebuildSkipped
  <2>1. rebuild' = rebuild /\ jobs' = FALSE
    BY <1>3 DEF RebuildSkipped
  <2>2. TypeVars'
    BY <2>1, <1>0, <1>1 DEF TypeVars
  <2>3. CommitSame
    BY <1>0 DEF CommitSame
  <2>4. IndexOK(rebuild.new)' /\ RebuildInv' /\ NodesBound(rebuild.new)'
    BY <2>1, <2>3, <1>0, <1>1, RebuildFrame, BoundFrame DEF BoundInv
  <2>5. Rebuilding' => \A d \in Docs : ~Excepted(d) => Chain(Log, d, rebuild'.snapshot_tx)
    BY <2>1 DEF Inv, ChainInv, Rebuilding, snap
  <2>6. LatestBuild' /\ LatestReplay' /\ ReplayInv'
    BY <2>1, <2>3, <1>0, LatestBuildFrame, ReplayFrame DEF Inv
  <2>7. Plain /\ ~torn' => GhostBuild' /\ GhostReplay'
    BY <2>1, <2>3, <1>0, GhostBuildFrame, GhostReplayFrame DEF Inv, PlainInv
  <2>8. PinInv'
    BY <2>1, <2>3, <1>0, <1>1, PinFrame
  <2> QED BY <2>2, <2>4, <2>5, <2>6, <2>7, <2>8, <1>0, RebuildOnly
<1>4. CASE RebuildStart \/ RebuildFails
  <2>1. /\ rebuild'.at \in {"idle", "phase1"} /\ rebuild'.delta = {} /\ rebuild'.todo = {}
        /\ rebuild' \in [at : {"idle", "phase1", "build", "replay"}, new : Indexes,
                    snapshot_tx : 0 .. MAX_TX, todo : SUBSET Nat, dead : SUBSET Nat,
                    delta : SUBSET [op : IndexOps, seq : Txs, entry : Nat]]
        /\ rebuild'.new \in {rebuild.new, EmptyIndex} /\ jobs' \in BOOLEAN
    <3>1. CASE RebuildStart
      <4>1. /\ rebuild.at = "idle" /\ rebuild' = [rebuild EXCEPT !.at = "phase1"] /\ jobs' \in {FALSE, jobs}
        BY <3>1 DEF RebuildStart
      <4>2. rebuild.delta = {} /\ rebuild.todo = {}
        BY <4>1, <1>1 DEF RebuildInv
      <4> QED BY <4>1, <4>2, <1>2
    <3>2. CASE RebuildFails
      <4>1. rebuild' = IdleRebuild /\ jobs' = jobs
        BY <3>2 DEF RebuildFails
      <4> QED BY <4>1, <1>2, IdleRebuildFacts
    <3> QED BY <1>4, <3>1, <3>2
  <2>2. TypeVars'
    BY <2>1, <1>0, <1>1 DEF TypeVars
  <2>3. IndexOK(rebuild.new)' /\ NodesBound(rebuild.new)'
    <3>1. CASE rebuild'.new = rebuild.new
      BY <3>1, <1>0, <1>1 DEF BoundInv, NodesBound, Busy, Doc
    <3>2. CASE rebuild'.new = EmptyIndex
      BY <3>2, EmptyIndexOK DEF NodesBound
    <3> QED BY <2>1, <3>1, <3>2
  <2>4. RebuildInv' /\ LatestBuild' /\ LatestReplay' /\ ReplayInv' /\ GhostBuild' /\ GhostReplay'
    BY <2>1, NotRebuilding
  <2>5. ~Rebuilding'
    BY <2>1 DEF Rebuilding
  <2>6. PinInv'
    <3>1. \A d : Unordered(d)' <=> Unordered(d)
      BY <1>0 DEF Unordered, Older, Busy, Doc
    <3> QED BY <3>1, <2>5, <1>0, <1>1 DEF PinInv
  <2> QED BY <2>2, <2>3, <2>4, <2>5, <2>6, <1>0, RebuildOnly
<1> QED BY <1>3, <1>4

\* The least pinned snapshot.
LEMMA MinRetention ==
  ASSUME TypeVars, NEW r \in Readers, pins[r] # None
  PROVE  Pinned # {} /\ min_retention_seq \in Nat /\ min_retention_seq <= pins[r]
<1>1. \A x \in Readers : pins[x] \in Nat
  BY Numbers
<1>2. Pinned \subseteq Nat /\ pins[r] \in Pinned
  BY <1>1 DEF Pinned
<1>3. \E s \in Pinned : \A p \in Pinned : s <= p
  BY <1>2, LeastExists
<1>4. min_retention_seq \in Pinned /\ \A p \in Pinned : min_retention_seq <= p
  BY <1>3 DEF min_retention_seq
<1> QED BY <1>2, <1>4

\* Phase 1 takes its snapshot: every live node is to be copied, and every tombstone that
\* a pinned reader needs.
LEMMA SnapshotStep ==
  ASSUME Inv, RebuildSnapshot
  PROVE  Inv'
<1> DEFINE Todo == {i \in DOMAIN index.nodes : /\ index.nodes[i].committed_tx <= last_tx_id
                                               /\ (IsDeleted(i) => Retained(i))}
           Dead == {i \in DOMAIN index.nodes : IsDeleted(i)}
<1>0. /\ rebuild.at = "phase1"
      /\ rebuild' = [at |-> "build", new |-> EmptyIndex, snapshot_tx |-> last_tx_id,
                     todo |-> Todo, dead |-> Dead, delta |-> {}]
      /\ torn' = (torn \/ commit.at # "idle")
      /\ UNCHANGED <<index, seq_log, last_tx_id, tx_buffer, begun, commit, jobs, pins,
                     live, unordered, late, exposed>>
  BY DEF RebuildSnapshot
<1>1. TypeVars /\ IndexOK(index) /\ CommitInv /\ BoundInv /\ LogInv /\ ChainInv /\ LatestIndex
  BY DEF Inv
<1>2. \A i \in Todo : i \in DOMAIN index.nodes /\ (i \in Dead => Retained(i))
  OBVIOUS
<1>3. \A i \in DOMAIN index.nodes : i \notin index.deleted_nodes =>
         i \notin Dead /\ (index.nodes[i].committed_tx <= last_tx_id => i \in Todo)
  BY DEF IsDeleted
<1>4. \A i \in DOMAIN index.nodes : Retained(i) /\ index.nodes[i].committed_tx <= last_tx_id => i \in Todo
  OBVIOUS
<1>5. \A i \in Todo \ Dead : \/ i \notin index.deleted_nodes
                             \/ ~(seq_log.deletions[index.nodes[i].doc] <= last_tx_id)
  BY DEF IsDeleted
<1>6. Todo \subseteq DOMAIN index.nodes /\ Dead \subseteq DOMAIN index.nodes
      /\ DOMAIN index.nodes \subseteq Nat
  <2>1. index.nodes \in Seq(Nodes)
    BY <1>1 DEF TypeVars, Indexes
  <2> QED BY <2>1
<1> HIDE DEF Todo, Dead
<1>7. /\ rebuild'.at = "build" /\ rebuild'.new = EmptyIndex /\ rebuild'.snapshot_tx = last_tx_id
      /\ rebuild'.todo = Todo /\ rebuild'.dead = Dead /\ rebuild'.delta = {}
      /\ Rebuilding' /\ snap' = last_tx_id
  BY <1>0 DEF Rebuilding, snap
<1>8. last_tx_id \in Nat /\ \A r \in Readers : pins[r] \in Nat /\ pins[r] <= last_tx_id
  BY <1>1, Numbers DEF BoundInv
<1>9. /\ Log' = Log /\ live' = live /\ late' = late
      /\ \A d : /\ Excepted(d)' <=> Excepted(d)
                /\ Unordered(d)' <=> Unordered(d)
                /\ BusyOn(d)' <=> BusyOn(d)
  BY <1>0 DEF Log, Excepted, Unordered, BusyOn, Older, Busy, Doc
<1>10. \A i \in DOMAIN index.nodes : ~BusyOn(index.nodes[i].doc) => index.nodes[i].committed_tx <= last_tx_id
  BY <1>1 DEF BoundInv, NodesBound, BusyOn
<1>11. TypeVars'
  <2>1. rebuild' \in [at : {"idle", "phase1", "build", "replay"}, new : Indexes,
                    snapshot_tx : 0 .. MAX_TX, todo : SUBSET Nat, dead : SUBSET Nat,
                    delta : SUBSET [op : IndexOps, seq : Txs, entry : Nat]]
    <3>1. last_tx_id \in 0 .. MAX_TX /\ Todo \in SUBSET Nat /\ Dead \in SUBSET Nat
      BY <1>1, <1>6 DEF TypeVars
    <3> QED BY <3>1, <1>0, EmptyIndexOK
  <2>2. torn' \in BOOLEAN
    BY <1>0
  <2> QED BY <2>1, <2>2, <1>0, <1>1 DEF TypeVars
<1>12. IndexOK(rebuild.new)' /\ NodesBound(rebuild.new)'
  BY <1>7, EmptyIndexOK DEF NodesBound
<1>13. RebuildInv'
  <2>1. last_tx_id <= last_tx_id'
    BY <1>0, <1>8
  <2> QED BY <2>1, <1>0, <1>6, <1>7 DEF RebuildInv
<1>14. ASSUME NEW d \in Docs, ~Excepted(d) PROVE Chain(Log, d, last_tx_id)
  <2>1. CASE commit.at = "advance" /\ d = Doc
    <3>1. ~Older
      BY <1>14, <2>1 DEF Excepted
    <3> QED BY <2>1, <3>1, <1>1 DEF ChainInv
  <2>2. CASE ~(commit.at = "advance" /\ d = Doc)
    <3>1. \A i \in EntriesOf(Log, d) : Log[i].insert_seq <= last_tx_id /\ Log[i].delete_seq <= last_tx_id
      BY <2>2, <1>1 DEF BoundInv, Known, EntriesOf
    <3>2. \A i \in EntriesOf(Log, d) : Log[i].insert_seq \in Nat /\ Log[i].delete_seq \in Nat
      BY <1>1, EntryTypes DEF TypeVars, Logs, Log, EntriesOf
    <3>3. \A i \in EntriesOf(Log, d) : ~(Log[i].insert_seq > last_tx_id) /\ ~(Log[i].delete_seq > last_tx_id)
      BY <3>1, <3>2, <1>8
    <3> QED BY <3>3 DEF Chain
  <2> QED BY <2>1, <2>2
\* The node a document is mapped to is copied, after its other nodes.
<1>15. ASSUME NEW d \in Docs, ~BusyOn(d), Mapped(index, d)
       PROVE  /\ index.doc_to_node[d] \in Todo \ Dead
              /\ index.nodes[index.doc_to_node[d]].doc = d
              /\ \A j \in Todo : index.nodes[j].doc = d => j <= index.doc_to_node[d]
  <2>1. /\ index.doc_to_node[d] \in DOMAIN index.nodes \ index.deleted_nodes
        /\ index.nodes[index.doc_to_node[d]].doc = d
        /\ \A j \in NodesOf(index, d) : j <= index.doc_to_node[d]
    BY <1>1, <1>15, VectorNode DEF NodesOf
  <2>2. index.doc_to_node[d] \in Todo \ Dead
    BY <2>1, <1>3, <1>10, <1>15
  <2> QED BY <2>1, <2>2, <1>6 DEF NodesOf
<1>16. LatestBuild'
  <2> SUFFICES ASSUME NEW d \in Docs, ~Excepted(d), ~BusyOn(d), live[d] # None
               PROVE  Copied(d, live[d])'
    BY <1>9 DEF LatestBuild
  <2>1. HasVector(index, d, live[d])
    <3>1. Applied(d) = live[d] /\ d \notin late
      BY DEF Applied, Excepted
    <3> QED BY <3>1, <1>1 DEF LatestIndex
  <2>2. Mapped(index, d) /\ index.nodes[index.doc_to_node[d]].vec = live[d]
    BY <2>1 DEF HasVector
  <2> QED BY <2>2, <1>0, <1>7, <1>15 DEF Copied
<1>17. LatestReplay' /\ ReplayInv' /\ GhostReplay'
  BY <1>7 DEF LatestReplay, ReplayInv, GhostReplay
<1>18. ASSUME Plain, ~torn' PROVE GhostBuild'
  <2>0. ~torn /\ ~Busy /\ GhostIndex /\ commit.at = "idle" /\ \A d : ~BusyOn(d)
    BY <1>0, <1>18 DEF Inv, PlainInv, Busy, BusyOn
  <2> SUFFICES ASSUME NEW d \in Docs, ~Excepted(d), NEW i \in Todo \ Dead, index.nodes[i].doc = d
               PROVE  LiveAt(Log, d, last_tx_id) /\ \A j \in Todo : index.nodes[j].doc = d => j <= i
    <3>1. \A d \in Docs : ~Mapped(rebuild'.new, d) /\ Single(rebuild'.new, d)
      BY <1>7, EmptyIndexOK
    <3> QED BY <3>1, <1>0, <1>7, <1>9 DEF GhostBuild
  <2>1. seq_log.deletions[d] <= last_tx_id
    BY <1>1, <2>0 DEF BoundInv, Known
  <2>2. i \in NodesOf(index, d) \ index.deleted_nodes
    BY <2>1, <1>5, <1>6 DEF NodesOf
  <2>3. d \notin late /\ Single(index, d) /\ (Applied(d) = None => ~Mapped(index, d))
    BY <2>0 DEF GhostIndex, Excepted
  <2>4. i = index.doc_to_node[d] /\ Mapped(index, d)
    <3>1. i = index.doc_to_node[d]
      BY <2>2, <2>3 DEF Single
    <3>2. i # 0
      <4>1. index.nodes \in Seq(Nodes)
        BY <1>1 DEF TypeVars, Indexes
      <4> QED BY <4>1, <2>2 DEF NodesOf
    <3> QED BY <3>1, <3>2 DEF Mapped, None
  <2>5. Recorded(d) = Applied(d) /\ Applied(d) # None
    BY <2>0, <2>3, <2>4 DEF Recorded, Applied
  <2>6. PICK k \in EntriesOf(Log, d) : Log[k].delete_seq = None
    BY <2>5, <1>1 DEF LogInv
  <2>7. Log[k].insert_seq <= last_tx_id
    BY <2>0, <1>1 DEF BoundInv, Known, EntriesOf
  <2>8. LiveAt(Log, d, last_tx_id)
    BY <2>6, <2>7 DEF LiveAt
  <2> QED BY <2>0, <2>4, <2>8, <1>15
<1>19. PinInv'
  <2> SUFFICES ASSUME ~torn', NEW r \in Readers \ exposed, NEW d \in Docs, pins[r] # None, ~Unordered(d),
                      is_visible(seq_log, d, pins[r])
               PROVE  /\ NodesOf(index, d) # {}
                      /\ \E i \in Todo : index.nodes[i].doc = d
    BY <1>0, <1>7, <1>9 DEF PinInv
  <2>0. ~torn /\ ~Busy /\ commit.at = "idle" /\ ~BusyOn(d)
    BY <1>0 DEF Busy, BusyOn
  <2>1. NodesOf(index, d) # {}
    BY <2>0 DEF Inv, PinInv
  <2>2. d \notin late
    BY <1>1 DEF Unordered, TypeVars
  <2>3. CASE live[d] # None
    <3>1. HasVector(index, d, live[d])
      BY <2>0, <2>2, <2>3, <1>1 DEF LatestIndex, Applied
    <3>2. Mapped(index, d)
      BY <3>1 DEF HasVector
    <3> QED BY <2>0, <2>1, <3>2, <1>15
  <2>4. CASE live[d] = None
    <3>1. PICK i \in NodesOf(index, d) : TRUE
      BY <2>1
    <3>2. i \in DOMAIN index.nodes /\ index.nodes[i].doc = d /\ index.nodes[i].committed_tx <= last_tx_id
      BY <2>0, <1>10 DEF NodesOf
    <3>3. AllClosed(Log, d)
      <4>1. Recorded(d) = None
        BY <2>0, <2>4 DEF Recorded
      <4> QED BY <4>1, <1>1 DEF LogInv
    <3>4. VisibleIn(Log, d, pins[r])
      BY <1>1, <1>8, VisibleIs DEF Log, TypeVars
    <3>5. PICK k \in EntriesOf(Log, d) : Log[k].delete_seq = None \/ Log[k].delete_seq > pins[r]
      BY <3>4 DEF VisibleIn
    <3>6. Log[k].delete_seq > pins[r] /\ Log[k].delete_seq <= seq_log.deletions[d]
      BY <3>3, <3>5 DEF AllClosed, Inv, DeletionsInv
    <3>7. Pinned # {} /\ min_retention_seq \in Nat /\ min_retention_seq <= pins[r]
      BY <1>1, MinRetention
    <3>8. Log[k].delete_seq \in Nat /\ seq_log.deletions[d] \in Nat /\ pins[r] \in Nat
      BY <1>1, <1>8, Numbers, EntryTypes DEF TypeVars, Logs, Log, EntriesOf
    <3>9. seq_log.deletions[d] # None /\ seq_log.deletions[d] >= min_retention_seq
      BY <3>6, <3>7, <3>8 DEF None
    <3>10. Retained(i)
      BY <3>2, <3>7, <3>9 DEF Retained
    <3> QED BY <2>1, <3>2, <3>10, <1>4
  <2> QED BY <2>3, <2>4
<1> QED BY <1>0, <1>7, <1>11, <1>12, <1>13, <1>14, <1>16, <1>17, <1>18, <1>19, RebuildOnly

\* Phase 1 copies a node.
LEMMA InsertStep ==
  ASSUME Inv, RebuildInsert
  PROVE  Inv'
<1>0. PICK i \in rebuild.todo :
        /\ \A j \in rebuild.todo : i <= j
        /\ rebuild' = [rebuild EXCEPT
             !.new = IF i \in rebuild.dead
                     THEN do_delete(do_insert(rebuild.new, index.nodes[i].doc, index.nodes[i].vec,
                                              index.nodes[i].committed_tx), index.nodes[i].doc)
                     ELSE do_insert(rebuild.new, index.nodes[i].doc, index.nodes[i].vec,
                                    index.nodes[i].committed_tx),
             !.todo = @ \ {i}]
  BY DEF RebuildInsert
<1>1. rebuild.at = "build" /\ UNCHANGED <<index, seq_log, last_tx_id, tx_buffer, begun, commit, jobs, pins,
                   live, unordered, late, torn, exposed>>
  BY DEF RebuildInsert
<1>2. TypeVars /\ IndexOK(index) /\ IndexOK(rebuild.new) /\ RebuildInv /\ BoundInv
  BY DEF Inv
<1>3. PICK d, v, c, more, new :
        /\ d = index.nodes[i].doc /\ v = index.nodes[i].vec /\ c = index.nodes[i].committed_tx
        /\ more = do_insert(rebuild.new, d, v, c)
        /\ new = IF i \in rebuild.dead THEN do_delete(more, d) ELSE more
  OBVIOUS
<1>4. i \in DOMAIN index.nodes /\ rebuild.todo \subseteq DOMAIN index.nodes /\ d \in Docs /\ v \in Txs /\ c \in Txs
      /\ rebuild.todo \subseteq Nat
  <2>1. index.nodes \in Seq(Nodes) /\ rebuild.todo \subseteq Nat
    BY <1>2 DEF TypeVars, Indexes
  <2>2. i \in DOMAIN index.nodes /\ rebuild.todo \subseteq DOMAIN index.nodes
    BY <1>0, <1>2 DEF RebuildInv
  <2>3. index.nodes[i] \in Nodes
    BY <2>1, <2>2
  <2> QED BY <2>1, <2>2, <2>3, <1>3 DEF Nodes
<1>5. rebuild \in [at : {"idle", "phase1", "build", "replay"}, new : Indexes,
                    snapshot_tx : 0 .. MAX_TX, todo : SUBSET Nat, dead : SUBSET Nat,
                    delta : SUBSET [op : IndexOps, seq : Txs, entry : Nat]]
  BY <1>2 DEF TypeVars
<1>6. /\ IndexOK(more) /\ OnlyOn(rebuild.new, more, d)
      /\ HasVector(more, d, v) /\ NodesOf(more, d) # {}
      /\ Single(rebuild.new, d) /\ ~Mapped(rebuild.new, d) => Single(more, d)
      /\ \A k \in DOMAIN more.nodes :
           k \in DOMAIN rebuild.new.nodes \/ (more.nodes[k].committed_tx = c /\ more.nodes[k].doc = d)
  BY <1>2, <1>3, <1>4, InsertOK
<1>7. /\ IndexOK(new) /\ OnlyOn(rebuild.new, new, d) /\ new.nodes = more.nodes
      /\ NodesOf(new, d) # {}
      /\ i \notin rebuild.dead => HasVector(new, d, v)
      /\ i \in rebuild.dead => ~Mapped(new, d)
      /\ Single(rebuild.new, d) /\ ~Mapped(rebuild.new, d) => Single(new, d)
  <2>1. CASE i \notin rebuild.dead
    <3>1. new = more
      BY <2>1, <1>3
    <3> QED BY <2>1, <3>1, <1>6
  <2>2. CASE i \in rebuild.dead
    <3>1. new = do_delete(more, d)
      BY <2>2, <1>3
    <3>2. /\ IndexOK(new) /\ OnlyOn(more, new, d) /\ new.nodes = more.nodes
          /\ ~Mapped(new, d) /\ NodesOf(new, d) = NodesOf(more, d)
          /\ Single(more, d) => Single(new, d)
      BY <3>1, <1>4, <1>6, DeleteOK
    <3>3. OnlyOn(rebuild.new, new, d)
      BY <3>2, <1>6, OnlyOnTwice
    <3> QED BY <2>2, <3>2, <3>3, <1>6
  <2> QED BY <2>1, <2>2
<1>8. /\ \A e : NodesOf(rebuild.new, e) \subseteq NodesOf(new, e)
      /\ \A e \in Docs \ {d} :
           /\ Mapped(new, e) <=> Mapped(rebuild.new, e)
           /\ \A w : HasVector(new, e, w) <=> HasVector(rebuild.new, e, w)
           /\ Single(new, e) <=> Single(rebuild.new, e)
      /\ \A k \in DOMAIN rebuild.new.nodes : new.nodes[k] = rebuild.new.nodes[k]
  BY <1>2, <1>7, OnlyOnKeeps
<1>9. rebuild' = [rebuild EXCEPT !.new = new, !.todo = @ \ {i}]
  BY <1>0, <1>3
<1>10. /\ rebuild'.at = "build" /\ rebuild'.new = new /\ rebuild'.snapshot_tx = rebuild.snapshot_tx
       /\ rebuild'.todo = rebuild.todo \ {i} /\ rebuild'.dead = rebuild.dead
       /\ rebuild'.delta = rebuild.delta
       /\ Rebuilding /\ Rebuilding' /\ snap' = snap
       /\ rebuild' \in [at : {"idle", "phase1", "build", "replay"}, new : Indexes,
                    snapshot_tx : 0 .. MAX_TX, todo : SUBSET Nat, dead : SUBSET Nat,
                    delta : SUBSET [op : IndexOps, seq : Txs, entry : Nat]]
  <2>1. new \in Indexes
    BY <1>7 DEF IndexOK
  <2> QED BY <2>1, <1>1, <1>5, <1>9 DEF Rebuilding, snap
<1>11. /\ Log' = Log /\ live' = live /\ late' = late
       /\ \A e : /\ Excepted(e)' <=> Excepted(e)
                 /\ Unordered(e)' <=> Unordered(e)
                 /\ BusyOn(e)' <=> BusyOn(e)
  BY <1>1 DEF Log, Excepted, Unordered, BusyOn, Older, Busy, Doc
<1>12. TypeVars'
  BY <1>1, <1>2, <1>10 DEF TypeVars
<1>13. RebuildInv'
  BY <1>1, <1>2, <1>10 DEF RebuildInv
<1>14. NodesBound(rebuild.new)'
  <2>1. c <= last_tx_id \/ (Busy /\ c = commit.tx /\ d = Doc)
    BY <1>2, <1>3, <1>4 DEF BoundInv, NodesBound
  <2>2. ASSUME NEW k \in DOMAIN new.nodes
        PROVE  \/ new.nodes[k].committed_tx <= last_tx_id
               \/ Busy /\ new.nodes[k].committed_tx = commit.tx /\ new.nodes[k].doc = Doc
    <3>1. CASE k \in DOMAIN rebuild.new.nodes
      BY <3>1, <1>2, <1>8 DEF BoundInv, NodesBound
    <3>2. CASE k \notin DOMAIN rebuild.new.nodes
      BY <3>2, <2>1, <2>2, <1>6, <1>7
    <3> QED BY <3>1, <3>2
  <2> QED BY <2>2, <1>1, <1>10 DEF NodesBound, Busy, Doc
<1>15. Rebuilding' => \A e \in Docs : ~Excepted(e) => Chain(Log, e, rebuild'.snapshot_tx)
  BY <1>10 DEF Inv, ChainInv, snap
<1>16. LatestBuild'
  <2> SUFFICES ASSUME NEW e \in Docs, ~Excepted(e), ~BusyOn(e), ~Changed(Log, e, snap), live[e] # None
               PROVE  Copied(e, live[e])'
    BY <1>10, <1>11 DEF LatestBuild
  <2>1. Copied(e, live[e])
    BY <1>1 DEF Inv, LatestBuild
  <2>2. CASE \E k \in rebuild.todo \ rebuild.dead :
               /\ index.nodes[k].doc = e /\ index.nodes[k].vec = live[e]
               /\ \A j \in rebuild.todo : index.nodes[j].doc = e => j <= k
    <3>1. PICK k \in rebuild.todo \ rebuild.dead :
               /\ index.nodes[k].doc = e /\ index.nodes[k].vec = live[e]
               /\ \A j \in rebuild.todo : index.nodes[j].doc = e => j <= k
      BY <2>2
    <3>2. CASE k = i
      <4>1. d = e /\ v = live[e] /\ HasVector(new, e, live[e])
        BY <3>1, <3>2, <1>3, <1>7
      <4>2. \A j \in rebuild.todo \ {i} : index.nodes[j].doc # e
        BY <3>1, <3>2, <1>0, <1>4
      <4> QED BY <4>1, <4>2, <1>1, <1>10 DEF Copied
    <3>3. CASE k # i
      <4>1. k \in rebuild'.todo \ rebuild'.dead /\ \A j \in rebuild'.todo : index'.nodes[j].doc = e => j <= k
        BY <3>1, <3>3, <1>1, <1>10
      <4> QED BY <4>1, <3>1, <1>1, <1>11 DEF Copied
    <3> QED BY <3>2, <3>3
  <2>3. CASE /\ \A j \in rebuild.todo : index.nodes[j].doc # e
             /\ HasVector(rebuild.new, e, live[e])
    <3>1. e # d
      BY <2>3, <1>3
    <3>2. HasVector(new, e, live[e])
      BY <3>1, <2>3, <1>8
    <3> QED BY <3>2, <2>3, <1>1, <1>10 DEF Copied
  <2> QED BY <2>1, <2>2, <2>3 DEF Copied
<1>17. LatestReplay' /\ ReplayInv' /\ GhostReplay'
  BY <1>10 DEF LatestReplay, ReplayInv, GhostReplay
<1>18. ASSUME Plain, ~torn' PROVE GhostBuild'
  <2>1. GhostBuild
    BY <1>1, <1>18 DEF Inv, PlainInv
  <2> SUFFICES ASSUME NEW e \in Docs, ~Excepted(e)
               PROVE  /\ Single(new, e)
                      /\ \A k \in (rebuild.todo \ {i}) \ rebuild.dead : index.nodes[k].doc = e =>
                           LiveAt(Log, e, snap) /\ \A j \in rebuild.todo \ {i} : index.nodes[j].doc = e => j <= k
                      /\ Mapped(new, e) => \A j \in rebuild.todo \ {i} : index.nodes[j].doc # e
                      /\ Mapped(new, e) => LiveAt(Log, e, snap)
    BY <1>1, <1>10, <1>11 DEF GhostBuild
  <2>2. /\ Single(rebuild.new, e)
        /\ \A k \in rebuild.todo \ rebuild.dead : index.nodes[k].doc = e =>
               LiveAt(Log, e, snap) /\ \A j \in rebuild.todo : index.nodes[j].doc = e => j <= k
        /\ Mapped(rebuild.new, e) => \A j \in rebuild.todo : index.nodes[j].doc # e
        /\ Mapped(rebuild.new, e) => LiveAt(Log, e, snap)
    BY <2>1, <1>1, <1>10 DEF GhostBuild
  <2>3. \A k \in (rebuild.todo \ {i}) \ rebuild.dead : index.nodes[k].doc = e =>
           LiveAt(Log, e, snap) /\ \A j \in rebuild.todo \ {i} : index.nodes[j].doc = e => j <= k
    BY <2>2
  <2>4. CASE e # d
    BY <2>2, <2>3, <2>4, <1>8
  <2>5. CASE e = d
    <3>1. ~Mapped(rebuild.new, d)
      BY <2>2, <2>5, <1>0, <1>3
    <3>2. Single(new, d)
      BY <2>2, <2>5, <3>1, <1>7
    <3>3. ASSUME Mapped(new, d)
          PROVE  LiveAt(Log, d, snap) /\ \A j \in rebuild.todo \ {i} : index.nodes[j].doc # d
      <4>1. i \in rebuild.todo \ rebuild.dead
        BY <3>3, <1>0, <1>7
      <4>2. LiveAt(Log, d, snap) /\ \A j \in rebuild.todo : index.nodes[j].doc = d => j <= i
        BY <4>1, <2>2, <2>5, <1>3
      <4> QED BY <4>2, <1>0, <1>4
    <3> QED BY <3>2, <3>3, <2>3, <2>5
  <2> QED BY <2>4, <2>5
<1>19. PinInv'
  <2> SUFFICES ASSUME ~torn, NEW r \in Readers \ exposed, NEW e \in Docs, pins[r] # None, ~Unordered(e),
                      is_visible(seq_log, e, pins[r])
               PROVE  /\ NodesOf(index, e) # {}
                      /\ \/ NodesOf(new, e) # {}
                         \/ \E k \in rebuild.todo \ {i} : index.nodes[k].doc = e
    BY <1>1, <1>10, <1>11 DEF PinInv
  <2>1. /\ NodesOf(index, e) # {}
        /\ \/ NodesOf(rebuild.new, e) # {}
           \/ \E k \in rebuild.todo : index.nodes[k].doc = e
    BY <1>10 DEF Inv, PinInv
  <2> QED BY <2>1, <1>3, <1>7, <1>8
<1>20. IndexOK(rebuild.new)'
  BY <1>7, <1>10
<1> QED BY <1>1, <1>12, <1>13, <1>14, <1>15, <1>16, <1>17, <1>18, <1>19, <1>20, RebuildOnly

-----------------------------------------------------------------------------
(* Phase 2.                                                                *)

\* The delta asked for at s.
LEMMA ChangesAre ==
  ASSUME NEW log \in Logs, NEW s \in Nat, NEW E, E = log.entries
  PROVE  /\ \A i \in DOMAIN E : E[i].insert_seq > s =>
              \E c \in changes_since(log, s) :
                 c.op = Insert(E[i].doc) /\ c.seq = E[i].insert_seq /\ c.entry = i
         /\ \A i \in DOMAIN E : E[i].delete_seq > s =>
              \E c \in changes_since(log, s) :
                 c.op = Delete(E[i].doc) /\ c.seq = E[i].delete_seq /\ c.entry = i
         /\ \A c \in changes_since(log, s) :
              /\ c \in [op : IndexOps, seq : Txs, entry : Nat] /\ c.seq > s
              /\ c.entry \in DOMAIN E
              /\ \/ c.op = Insert(E[c.entry].doc) /\ c.seq = E[c.entry].insert_seq
                 \/ c.op = Delete(E[c.entry].doc) /\ c.seq = E[c.entry].delete_seq
<1>0. E \in Seq(Entry)
  BY DEF Logs
<1>1. \A i \in DOMAIN E :
        /\ i \in Nat /\ E[i].doc \in Docs
        /\ E[i].insert_seq \in Txs /\ E[i].insert_seq \in Nat
        /\ E[i].delete_seq \in Txs \union {None} /\ E[i].delete_seq \in Nat
  BY <1>0, EntryTypes
<1> DEFINE I(i) == [op |-> Insert(E[i].doc), seq |-> E[i].insert_seq, entry |-> i]
           D(i) == [op |-> Delete(E[i].doc), seq |-> E[i].delete_seq, entry |-> i]
<1>2. changes_since(log, s) = {I(i) : i \in {k \in DOMAIN E : E[k].insert_seq > s}}
                              \union {D(i) : i \in {k \in DOMAIN E : E[k].delete_seq > s}}
  BY DEF changes_since
<1>3. \A i : /\ I(i).op = Insert(E[i].doc) /\ I(i).seq = E[i].insert_seq /\ I(i).entry = i
             /\ D(i).op = Delete(E[i].doc) /\ D(i).seq = E[i].delete_seq /\ D(i).entry = i
  OBVIOUS
<1>4. \A e \in Docs : Insert(e) \in IndexOps /\ Delete(e) \in IndexOps
  BY DEF IndexOps
<1>5. ASSUME NEW i \in DOMAIN E, E[i].insert_seq > s
      PROVE  I(i) \in [op : IndexOps, seq : Txs, entry : Nat]
  BY <1>1, <1>4
<1>6. ASSUME NEW i \in DOMAIN E, E[i].delete_seq > s
      PROVE  D(i) \in [op : IndexOps, seq : Txs, entry : Nat]
  <2>1. E[i].delete_seq # 0
    BY <1>1, <1>6
  <2>2. E[i].delete_seq \in Txs
    BY <2>1, <1>1 DEF None
  <2> QED BY <2>2, <1>1, <1>4
<1> HIDE DEF I, D
<1>7. \A i \in DOMAIN E : E[i].insert_seq > s => I(i) \in changes_since(log, s)
  BY <1>2
<1>8. \A i \in DOMAIN E : E[i].delete_seq > s => D(i) \in changes_since(log, s)
  BY <1>2
<1>9. ASSUME NEW c \in changes_since(log, s)
      PROVE  /\ c \in [op : IndexOps, seq : Txs, entry : Nat] /\ c.seq > s
             /\ c.entry \in DOMAIN E
             /\ \/ c.op = Insert(E[c.entry].doc) /\ c.seq = E[c.entry].insert_seq
                \/ c.op = Delete(E[c.entry].doc) /\ c.seq = E[c.entry].delete_seq
  <2>1. CASE \E i \in DOMAIN E : E[i].insert_seq > s /\ c = I(i)
    BY <2>1, <1>3, <1>5
  <2>2. CASE \E i \in DOMAIN E : E[i].delete_seq > s /\ c = D(i)
    BY <2>2, <1>3, <1>6
  <2> QED BY <2>1, <2>2, <1>2
<1> QED BY <1>3, <1>7, <1>8, <1>9

\* The order of the delta is strict.
LEMMA EarlierStrict ==
  ASSUME NEW c \in [op : IndexOps, seq : Txs, entry : Nat],
         NEW o \in [op : IndexOps, seq : Txs, entry : Nat], Earlier(c, o)
  PROVE  ~Earlier(o, c) /\ c # o
<1>1. c.seq \in Nat /\ o.seq \in Nat /\ c.entry \in Nat /\ o.entry \in Nat
  BY HnswAssumption DEF Txs
<1> QED BY <1>1 DEF Earlier

\* A change of the delta and the entry it comes from.
LEMMA ChangeOf ==
  ASSUME NEW log \in Logs, NEW s \in Nat, NEW E, E = log.entries, NEW d \in Docs,
         NEW c \in changes_since(log, s)
  PROVE  /\ c \in [op : IndexOps, seq : Txs, entry : Nat]
         /\ c.op = Insert(d) => /\ c.entry \in EntriesOf(E, d)
                                /\ c.seq = E[c.entry].insert_seq /\ E[c.entry].insert_seq > s
         /\ c.op = Delete(d) => /\ c.entry \in EntriesOf(E, d)
                                /\ c.seq = E[c.entry].delete_seq /\ E[c.entry].delete_seq > s
<1>1. /\ c \in [op : IndexOps, seq : Txs, entry : Nat] /\ c.seq > s
      /\ c.entry \in DOMAIN E
      /\ \/ c.op = Insert(E[c.entry].doc) /\ c.seq = E[c.entry].insert_seq
         \/ c.op = Delete(E[c.entry].doc) /\ c.seq = E[c.entry].delete_seq
  BY ChangesAre
<1>2. ASSUME c.op = Insert(d)
      PROVE  c.entry \in EntriesOf(E, d) /\ c.seq = E[c.entry].insert_seq /\ E[c.entry].insert_seq > s
  <2>1. c.op # Delete(E[c.entry].doc)
    BY <1>2, OpFacts
  <2>2. E[c.entry].doc = d
    BY <2>1, <1>1, <1>2, OpFacts
  <2> QED BY <2>1, <2>2, <1>1 DEF EntriesOf
<1>3. ASSUME c.op = Delete(d)
      PROVE  c.entry \in EntriesOf(E, d) /\ c.seq = E[c.entry].delete_seq /\ E[c.entry].delete_seq > s
  <2>1. c.op # Insert(E[c.entry].doc)
    BY <1>3, OpFacts
  <2>2. E[c.entry].doc = d
    BY <2>1, <1>1, <1>3, OpFacts
  <2> QED BY <2>1, <2>2, <1>1 DEF EntriesOf
<1> QED BY <1>1, <1>2, <1>3

\* The types of the fields of an entry of d.
LEMMA EntryOfTypes ==
  ASSUME TypeVars, NEW d \in Docs, NEW i \in EntriesOf(Log, d)
  PROVE  /\ i \in Nat /\ i \in DOMAIN Log /\ Log[i].doc = d
         /\ Log[i].insert_seq \in Nat /\ Log[i].delete_seq \in Nat
BY EntryTypes DEF TypeVars, Logs, Log, EntriesOf

\* Phase 2 asks for the delta: a document is in the copies, or the log has its changes in
\* order.
LEMMA LockStep ==
  ASSUME Inv, RebuildLock
  PROVE  Inv'
<1> DEFINE delta == changes_since(seq_log, snap)
<1>0. /\ rebuild.at = "build" /\ rebuild.todo = {} /\ commit.at = "idle"
      /\ rebuild' = [rebuild EXCEPT !.at = "replay", !.delta = delta]
      /\ UNCHANGED <<index, seq_log, last_tx_id, tx_buffer, begun, commit, jobs, pins,
                     live, unordered, late, torn, exposed>>
  BY DEF RebuildLock, snap
<1>1. TypeVars /\ RebuildInv /\ BoundInv /\ LogInv /\ ChainInv /\ LatestIndex
  BY DEF Inv
<1>2. rebuild \in [at : {"idle", "phase1", "build", "replay"}, new : Indexes,
                    snapshot_tx : 0 .. MAX_TX, todo : SUBSET Nat, dead : SUBSET Nat,
                    delta : SUBSET [op : IndexOps, seq : Txs, entry : Nat]]
      /\ seq_log \in Logs /\ snap \in Nat
  BY <1>1, Numbers DEF TypeVars
<1>3. /\ \A i \in DOMAIN Log : Log[i].insert_seq > snap =>
              \E c \in delta : c.op = Insert(Log[i].doc) /\ c.seq = Log[i].insert_seq /\ c.entry = i
      /\ \A i \in DOMAIN Log : Log[i].delete_seq > snap =>
              \E c \in delta : c.op = Delete(Log[i].doc) /\ c.seq = Log[i].delete_seq /\ c.entry = i
      /\ \A c \in delta : c \in [op : IndexOps, seq : Txs, entry : Nat]
  <2>1. Log = seq_log.entries /\ snap \in Nat /\ seq_log \in Logs
    BY <1>2 DEF Log
  <2>2. \A i \in DOMAIN Log : Log[i].insert_seq > snap =>
              \E c \in delta : c.op = Insert(Log[i].doc) /\ c.seq = Log[i].insert_seq /\ c.entry = i
    BY <2>1, ChangesAre
  <2>3. \A i \in DOMAIN Log : Log[i].delete_seq > snap =>
              \E c \in delta : c.op = Delete(Log[i].doc) /\ c.seq = Log[i].delete_seq /\ c.entry = i
    BY <2>1, ChangesAre
  <2>4. \A c \in delta : c \in [op : IndexOps, seq : Txs, entry : Nat]
    BY <2>1, ChangesAre
  <2> QED BY <2>2, <2>3, <2>4
<1>4. ASSUME NEW d \in Docs, NEW c \in delta
      PROVE  /\ c.op = Insert(d) => /\ c.entry \in EntriesOf(Log, d)
                                    /\ c.seq = Log[c.entry].insert_seq /\ Log[c.entry].insert_seq > snap
             /\ c.op = Delete(d) => /\ c.entry \in EntriesOf(Log, d)
                                    /\ c.seq = Log[c.entry].delete_seq /\ Log[c.entry].delete_seq > snap
  <2>1. Log = seq_log.entries
    BY DEF Log
  <2> QED BY <2>1, <1>2, ChangeOf
<1> HIDE DEF delta
<1>5. /\ rebuild'.at = "replay" /\ rebuild'.new = rebuild.new /\ rebuild'.snapshot_tx = rebuild.snapshot_tx
      /\ rebuild'.todo = {} /\ rebuild'.dead = rebuild.dead /\ rebuild'.delta = delta
      /\ Rebuilding /\ Rebuilding' /\ snap' = snap
      /\ rebuild' \in [at : {"idle", "phase1", "build", "replay"}, new : Indexes,
                    snapshot_tx : 0 .. MAX_TX, todo : SUBSET Nat, dead : SUBSET Nat,
                    delta : SUBSET [op : IndexOps, seq : Txs, entry : Nat]]
  <2>1. delta \in SUBSET [op : IndexOps, seq : Txs, entry : Nat]
    BY <1>3
  <2> QED BY <2>1, <1>0, <1>2 DEF Rebuilding, snap
<1>6. /\ ~Busy /\ ~Busy' /\ Log' = Log /\ live' = live /\ late' = late
      /\ \A d : /\ Excepted(d) <=> d \in late
                /\ Unordered(d)' <=> Unordered(d)
                /\ ~BusyOn(d)
      /\ \A d : Recorded(d) = live[d]
  BY <1>0 DEF Busy, Log, Excepted, Unordered, Older, BusyOn, Recorded, Doc
<1>7. TypeVars'
  BY <1>0, <1>1, <1>5 DEF TypeVars
<1>8. RebuildInv'
  BY <1>0, <1>1, <1>5, <1>6 DEF RebuildInv
<1>9. IndexOK(rebuild.new)' /\ NodesBound(rebuild.new)'
  BY <1>0, <1>5 DEF Inv, BoundInv, NodesBound, Busy, Doc
<1>10. \A d \in Docs : ~Excepted(d) => Chain(Log, d, snap)
  BY <1>1, <1>5 DEF ChainInv
<1>11. ReplayInv'
  <2>1. changes_since(seq_log', snap') = delta
    BY <1>0, <1>5 DEF delta
  <2> QED BY <2>1, <1>5 DEF ReplayInv
<1>12. LatestBuild'
  BY <1>5 DEF LatestBuild
<1>13. LatestReplay'
  <2> SUFFICES ASSUME NEW d \in Docs \ late, live[d] # None
               PROVE  /\ (\A c \in delta : c.op # Insert(d)) => HasVector(rebuild.new, d, live[d])
                      /\ \A c \in delta : c.op = Delete(d) =>
                            \E o \in delta : o.op = Insert(d) /\ Earlier(c, o)
    BY <1>5, <1>6 DEF LatestReplay
  <2>1. PICK k \in EntriesOf(Log, d) : Log[k].delete_seq = None /\ Log[k].insert_seq = live[d]
    BY <1>1, <1>6 DEF LogInv
  <2>2. ASSUME NEW i \in EntriesOf(Log, d), Log[i].delete_seq > snap
        PROVE  i < k /\ Log[k].insert_seq > snap /\ Log[i].delete_seq <= Log[k].insert_seq
    <3>1. i \in Nat /\ k \in Nat /\ Log[i].delete_seq \in Nat
      BY <1>1, EntryOfTypes
    <3>2. i # k
      BY <2>1, <2>2, <1>2 DEF None
    <3>3. ~(k < i)
      BY <2>1, <1>1 DEF LogInv, OnlyLastOpen
    <3>4. i < k
      BY <3>1, <3>2, <3>3
    <3>5. Chain(Log, d, snap)
      BY <1>6, <1>10
    <3>6. Log[k].insert_seq > snap
      BY <3>4, <3>5, <2>1, <2>2 DEF Chain
    <3> QED BY <3>4, <3>5, <3>6 DEF Chain
  <2>3. ASSUME \A c \in delta : c.op # Insert(d) PROVE HasVector(rebuild.new, d, live[d])
    <3>1. \A i \in EntriesOf(Log, d) : ~(Log[i].insert_seq > snap)
      BY <2>3, <1>3 DEF EntriesOf
    <3>2. ~Changed(Log, d, snap)
      BY <3>1, <2>2 DEF Changed
    <3>3. Copied(d, live[d])
      BY <3>2, <1>0, <1>6 DEF Inv, LatestBuild
    <3> QED BY <3>3, <1>0 DEF Copied
  <2>4. ASSUME NEW c \in delta, c.op = Delete(d)
        PROVE  \E o \in delta : o.op = Insert(d) /\ Earlier(c, o)
    <3>1. c.entry \in EntriesOf(Log, d) /\ c.seq = Log[c.entry].delete_seq /\ Log[c.entry].delete_seq > snap
      BY <2>4, <1>4
    <3>2. c.entry < k /\ Log[k].insert_seq > snap /\ Log[c.entry].delete_seq <= Log[k].insert_seq
      BY <2>2, <3>1
    <3>3. k \in DOMAIN Log /\ Log[k].doc = d
      BY <2>1 DEF EntriesOf
    <3>4. PICK o \in delta : o.op = Insert(d) /\ o.seq = Log[k].insert_seq /\ o.entry = k
      BY <3>2, <3>3, <1>3
    <3>5. Log[c.entry].delete_seq \in Nat /\ Log[k].insert_seq \in Nat
      BY <2>1, <3>1, <1>1, EntryOfTypes
    <3>6. Earlier(c, o)
      BY <3>1, <3>2, <3>4, <3>5 DEF Earlier
    <3> QED BY <3>4, <3>6
  <2> QED BY <2>3, <2>4
<1>14. ASSUME Plain, ~torn' PROVE GhostBuild' /\ GhostReplay'
  <2>1. GhostBuild
    BY <1>0, <1>14 DEF Inv, PlainInv
  <2>2. GhostBuild'
    <3>1. \A d : Excepted(d)' <=> Excepted(d)
      BY <1>0 DEF Excepted, Older, Busy, Doc
    <3> QED BY <2>1, <3>1, <1>5 DEF GhostBuild
  <2>3. GhostReplay'
    <3> SUFFICES ASSUME NEW d \in Docs \ late, Mapped(rebuild.new, d)
                 PROVE  /\ live[d] = None => \E c \in delta : c.op = Delete(d)
                        /\ \A c \in delta : c.op = Insert(d) =>
                              \E o \in delta : o.op = Delete(d) /\ Earlier(o, c)
      BY <1>5, <1>6 DEF GhostReplay
    <3>1. LiveAt(Log, d, snap)
      BY <2>1, <1>0, <1>5, <1>6 DEF GhostBuild
    <3>2. PICK i \in EntriesOf(Log, d) :
            Log[i].insert_seq <= snap /\ (Log[i].delete_seq = None \/ Log[i].delete_seq > snap)
      BY <3>1 DEF LiveAt
    <3>3. i \in Nat /\ i \in DOMAIN Log /\ Log[i].doc = d /\ Log[i].insert_seq \in Nat /\ Log[i].delete_seq \in Nat
      BY <1>1, EntryOfTypes
    <3>4. ASSUME live[d] = None PROVE \E c \in delta : c.op = Delete(d)
      <4>1. Log[i].delete_seq # None
        BY <3>4, <1>1, <1>6 DEF LogInv, AllClosed
      <4> QED BY <4>1, <3>2, <3>3, <1>3
    <3>5. ASSUME NEW c \in delta, c.op = Insert(d)
          PROVE  \E o \in delta : o.op = Delete(d) /\ Earlier(o, c)
      <4> DEFINE j == c.entry
      <4>1. j \in EntriesOf(Log, d) /\ c.seq = Log[j].insert_seq /\ Log[j].insert_seq > snap
        BY <3>5, <1>4
      <4>2. j \in Nat /\ Log[j].insert_seq \in Nat
        BY <4>1, <1>1, EntryOfTypes
      <4>3. Chain(Log, d, snap)
        BY <1>6, <1>10
      <4>4. ~(j < i)
        <5>1. ~(Log[i].insert_seq > snap)
          BY <3>2, <3>3, <1>2
        <5> QED BY <5>1, <4>1, <4>3 DEF Chain
      <4>5. i # j
        BY <3>2, <4>1, <4>2, <1>2
      <4>6. i < j
        BY <4>2, <4>4, <4>5, <3>3
      <4>7. Log[i].delete_seq # None /\ Log[i].delete_seq <= Log[j].insert_seq
        BY <4>1, <4>3, <4>6, <1>1 DEF Chain, LogInv, OnlyLastOpen
      <4>8. PICK o \in delta : o.op = Delete(d) /\ o.seq = Log[i].delete_seq /\ o.entry = i
        BY <4>7, <3>2, <3>3, <1>3
      <4>9. Earlier(o, c)
        BY <4>1, <4>2, <4>6, <4>7, <4>8, <3>3 DEF Earlier
      <4> QED BY <4>8, <4>9
    <3> QED BY <3>4, <3>5
  <2> QED BY <2>2, <2>3
<1>15. PinInv'
  BY <1>0, <1>5, <1>6 DEF Inv, PinInv
<1>16. Rebuilding' => \A d \in Docs : ~Excepted(d) => Chain(Log, d, rebuild'.snapshot_tx)
  BY <1>5, <1>10 DEF snap
<1> QED BY <1>0, <1>7, <1>8, <1>9, <1>11, <1>12, <1>13, <1>14, <1>15, <1>16, RebuildOnly

\* Phase 2 replays the earliest change of the delta.
LEMMA ReplayStep ==
  ASSUME Inv, RebuildReplay
  PROVE  Inv'
<1>0. PICK c \in rebuild.delta :
        /\ \A o \in rebuild.delta \ {c} : Earlier(c, o)
        /\ rebuild' = [rebuild EXCEPT !.new = Delta(@, c), !.delta = @ \ {c}]
  BY DEF RebuildReplay
<1>1. rebuild.at = "replay" /\ UNCHANGED <<index, seq_log, last_tx_id, tx_buffer, begun, commit, jobs, pins,
                                           live, unordered, late, torn, exposed>>
  BY DEF RebuildReplay
<1>2. TypeVars /\ IndexOK(index) /\ IndexOK(rebuild.new) /\ RebuildInv /\ BoundInv /\ LogInv /\ ChainInv
      /\ LatestIndex /\ LatestReplay /\ ReplayInv
  BY DEF Inv
<1>3. rebuild \in [at : {"idle", "phase1", "build", "replay"}, new : Indexes,
                    snapshot_tx : 0 .. MAX_TX, todo : SUBSET Nat, dead : SUBSET Nat,
                    delta : SUBSET [op : IndexOps, seq : Txs, entry : Nat]]
      /\ seq_log \in Logs /\ snap \in Nat
  BY <1>2, Numbers DEF TypeVars
<1>4. /\ ~Busy /\ rebuild.todo = {} /\ Rebuilding
      /\ \A d : /\ Excepted(d) <=> d \in late
                /\ ~BusyOn(d) /\ Applied(d) = live[d] /\ Recorded(d) = live[d]
      /\ commit.at = "idle"
  BY <1>1, <1>2 DEF RebuildInv, Busy, Rebuilding, Excepted, Older, BusyOn, Applied, Recorded
<1>5. c \in changes_since(seq_log, snap) /\ c \in [op : IndexOps, seq : Txs, entry : Nat]
      /\ rebuild.delta \subseteq changes_since(seq_log, snap)
      /\ rebuild.delta \subseteq [op : IndexOps, seq : Txs, entry : Nat]
  BY <1>0, <1>1, <1>2, <1>3 DEF ReplayInv
<1>6. PICK d \in Docs : c.op = Insert(d) \/ c.op = Delete(d)
  BY <1>5 DEF IndexOps
<1>7. PICK new : new = Delta(rebuild.new, c)
  OBVIOUS
<1>8. /\ c.op = Delete(d) => new = do_delete(rebuild.new, d)
      /\ c.op = Insert(d) /\ ~Mapped(index, d) => new = rebuild.new
      /\ c.op = Insert(d) /\ Mapped(index, d) =>
            new = do_insert(rebuild.new, d, index.nodes[index.doc_to_node[d]].vec, c.seq)
  BY <1>7, OpFacts DEF Delta, Mapped
<1>9. ASSUME Mapped(index, d) PROVE index.nodes[index.doc_to_node[d]].vec \in Txs /\ c.seq \in Txs
  <2>1. index.doc_to_node[d] \in DOMAIN index.nodes
    BY <1>2, <1>9 DEF IndexOK
  <2>2. index.nodes[index.doc_to_node[d]] \in Nodes
    BY <2>1, <1>2 DEF TypeVars, Indexes
  <2> QED BY <2>2, <1>5 DEF Nodes
<1>10. /\ IndexOK(new) /\ OnlyOn(rebuild.new, new, d)
       /\ c.op = Delete(d) => ~Mapped(new, d)
       /\ c.op = Insert(d) /\ Mapped(index, d) =>
             HasVector(new, d, index.nodes[index.doc_to_node[d]].vec)
       /\ Single(rebuild.new, d) /\ (c.op = Insert(d) => ~Mapped(rebuild.new, d)) => Single(new, d)
       /\ \A k \in DOMAIN new.nodes : k \in DOMAIN rebuild.new.nodes \/ new.nodes[k].committed_tx = c.seq
  <2>1. CASE c.op = Delete(d)
    <3>1. c.op # Insert(d) /\ new = do_delete(rebuild.new, d)
      BY <2>1, <1>8, OpFacts
    <3> QED BY <3>1, <1>2, DeleteOK
  <2>2. CASE c.op = Insert(d) /\ ~Mapped(index, d)
    <3>1. c.op # Delete(d) /\ new = rebuild.new
      BY <2>2, <1>8, OpFacts
    <3> QED BY <3>1, <2>2, <1>2 DEF OnlyOn
  <2>3. CASE c.op = Insert(d) /\ Mapped(index, d)
    <3>1. c.op # Delete(d)
          /\ new = do_insert(rebuild.new, d, index.nodes[index.doc_to_node[d]].vec, c.seq)
      BY <2>3, <1>8, OpFacts
    <3> QED BY <3>1, <2>3, <1>2, <1>9, InsertOK
  <2> QED BY <2>1, <2>2, <2>3, <1>6
<1>11. /\ \A e : NodesOf(rebuild.new, e) \subseteq NodesOf(new, e)
       /\ \A e \in Docs \ {d} :
            /\ Mapped(new, e) <=> Mapped(rebuild.new, e)
            /\ \A w : HasVector(new, e, w) <=> HasVector(rebuild.new, e, w)
            /\ Single(new, e) <=> Single(rebuild.new, e)
       /\ \A k \in DOMAIN rebuild.new.nodes : new.nodes[k] = rebuild.new.nodes[k]
  BY <1>2, <1>10, OnlyOnKeeps
<1>12. /\ rebuild'.at = "replay" /\ rebuild'.new = new /\ rebuild'.snapshot_tx = rebuild.snapshot_tx
       /\ rebuild'.todo = {} /\ rebuild'.dead = rebuild.dead
       /\ rebuild'.delta = rebuild.delta \ {c}
       /\ Rebuilding' /\ snap' = snap
       /\ rebuild' \in [at : {"idle", "phase1", "build", "replay"}, new : Indexes,
                    snapshot_tx : 0 .. MAX_TX, todo : SUBSET Nat, dead : SUBSET Nat,
                    delta : SUBSET [op : IndexOps, seq : Txs, entry : Nat]]
  <2>1. new \in Indexes
    BY <1>10 DEF IndexOK
  <2>2. rebuild' = [rebuild EXCEPT !.new = new, !.delta = @ \ {c}]
    BY <1>0, <1>7
  <2> QED BY <2>1, <2>2, <1>1, <1>3, <1>4 DEF Rebuilding, snap
<1>13. /\ Log' = Log /\ live' = live /\ late' = late
       /\ \A e : /\ Excepted(e)' <=> Excepted(e)
                 /\ Unordered(e)' <=> Unordered(e)
  BY <1>1 DEF Log, Excepted, Unordered, Older, Busy, Doc
<1>14. \A e \in Docs \ {d} : c.op # Insert(e) /\ c.op # Delete(e)
  BY <1>6, OpFacts
<1>15. \A o \in rebuild.delta : o # c => ~Earlier(o, c)
  BY <1>0, <1>5, EarlierStrict
<1>16. TypeVars'
  BY <1>1, <1>2, <1>12 DEF TypeVars
<1>17. RebuildInv'
  <2>1. ~Busy /\ Rebuilding /\ snap <= last_tx_id
    BY <1>2, <1>4 DEF RebuildInv, Rebuilding
  <2>2. ~Busy' /\ snap' <= last_tx_id'
    BY <2>1, <1>1, <1>12 DEF Busy
  <2> QED BY <2>2, <1>12 DEF RebuildInv
<1>18. NodesBound(rebuild.new)'
  <2>1. c.seq <= last_tx_id
    <3>1. \A i \in DOMAIN Log : Log[i].insert_seq <= last_tx_id /\ Log[i].delete_seq <= last_tx_id
      BY <1>2, <1>4 DEF BoundInv, Known
    <3>2. c.entry \in DOMAIN Log /\ (c.seq = Log[c.entry].insert_seq \/ c.seq = Log[c.entry].delete_seq)
      <4>1. Log = seq_log.entries
        BY DEF Log
      <4> QED BY <4>1, <1>3, <1>5, ChangesAre
    <3> QED BY <3>1, <3>2
  <2>2. \A k \in DOMAIN rebuild.new.nodes : rebuild.new.nodes[k].committed_tx <= last_tx_id
    BY <1>2, <1>4 DEF BoundInv, NodesBound
  <2> QED BY <2>1, <2>2, <1>1, <1>10, <1>11, <1>12 DEF NodesBound
<1>19. Rebuilding' => \A e \in Docs : ~Excepted(e) => Chain(Log, e, rebuild'.snapshot_tx)
  BY <1>2, <1>4, <1>12 DEF ChainInv, snap
<1>20. LatestBuild'
  BY <1>12 DEF LatestBuild
<1>21. ReplayInv'
  <2>1. ASSUME NEW a \in rebuild.delta \ {c}, NEW o \in changes_since(seq_log, snap), Earlier(a, o)
        PROVE  o \in rebuild.delta \ {c}
    <3>1. o \in rebuild.delta
      BY <2>1, <1>1, <1>2 DEF ReplayInv
    <3> QED BY <2>1, <3>1, <1>15
  <2> QED BY <2>1, <1>1, <1>5, <1>12 DEF ReplayInv
<1>22. LatestReplay'
  <2> SUFFICES ASSUME NEW e \in Docs \ late, live[e] # None
               PROVE  /\ (\A a \in rebuild.delta \ {c} : a.op # Insert(e)) => HasVector(new, e, live[e])
                      /\ \A a \in rebuild.delta \ {c} : a.op = Delete(e) =>
                            \E o \in rebuild.delta \ {c} : o.op = Insert(e) /\ Earlier(a, o)
    BY <1>12, <1>13 DEF LatestReplay
  <2>1. /\ (\A a \in rebuild.delta : a.op # Insert(e)) => HasVector(rebuild.new, e, live[e])
        /\ \A a \in rebuild.delta : a.op = Delete(e) =>
              \E o \in rebuild.delta : o.op = Insert(e) /\ Earlier(a, o)
    BY <1>1, <1>2 DEF LatestReplay
  <2>2. ASSUME NEW a \in rebuild.delta \ {c}, a.op = Delete(e)
        PROVE  \E o \in rebuild.delta \ {c} : o.op = Insert(e) /\ Earlier(a, o)
    <3>1. PICK o \in rebuild.delta : o.op = Insert(e) /\ Earlier(a, o)
      BY <2>1, <2>2
    <3>2. o # c
      BY <2>2, <3>1, <1>15
    <3> QED BY <3>1, <3>2
  <2>3. ASSUME \A a \in rebuild.delta \ {c} : a.op # Insert(e) PROVE HasVector(new, e, live[e])
    <3>1. CASE c.op = Insert(e)
      <4>1. e = d
        BY <3>1, <1>14
      <4>2. HasVector(index, d, live[d])
        BY <4>1, <1>2, <1>4 DEF LatestIndex
      <4> QED BY <3>1, <4>1, <4>2, <1>10 DEF HasVector
    <3>2. CASE c.op # Insert(e)
      <4>1. HasVector(rebuild.new, e, live[e])
        BY <2>1, <2>3, <3>2
      <4>2. c.op # Delete(e)
        BY <2>1, <2>3, <3>2, <1>0
      <4>3. e # d
        BY <3>2, <4>2, <1>6
      <4> QED BY <4>1, <4>3, <1>11
    <3> QED BY <3>1, <3>2
  <2> QED BY <2>2, <2>3
<1>23. ASSUME Plain, ~torn' PROVE GhostBuild' /\ GhostReplay'
  <2>1. GhostIndex /\ GhostBuild /\ GhostReplay
    BY <1>1, <1>23 DEF Inv, PlainInv
  \* an insert comes when its document is not mapped
  <2>2. ASSUME c.op = Insert(d), d \notin late PROVE ~Mapped(rebuild.new, d)
    <3>1. SUFFICES ASSUME Mapped(rebuild.new, d) PROVE FALSE
      OBVIOUS
    <3>2. PICK o \in rebuild.delta : o.op = Delete(d) /\ Earlier(o, c)
      BY <2>1, <2>2, <3>1, <1>0, <1>1 DEF GhostReplay
    <3>3. o # c
      BY <2>2, <3>2, OpFacts
    <3> QED BY <3>2, <3>3, <1>15
  <2>3. GhostBuild'
    <3> SUFFICES ASSUME NEW e \in Docs, ~Excepted(e) PROVE Single(new, e)
      BY <1>12, <1>13 DEF GhostBuild
    <3>1. Single(rebuild.new, e) /\ e \notin late
      BY <2>1, <1>4 DEF GhostBuild
    <3> QED BY <3>1, <2>2, <1>10, <1>11
  <2>4. GhostReplay'
    <3> SUFFICES ASSUME NEW e \in Docs \ late, Mapped(new, e)
                 PROVE  /\ live[e] = None => \E a \in rebuild.delta \ {c} : a.op = Delete(e)
                        /\ \A a \in rebuild.delta \ {c} : a.op = Insert(e) =>
                              \E o \in rebuild.delta \ {c} : o.op = Delete(e) /\ Earlier(o, a)
      BY <1>12, <1>13 DEF GhostReplay
    <3>1. CASE e # d
      <4>1. /\ live[e] = None => \E a \in rebuild.delta : a.op = Delete(e)
            /\ \A a \in rebuild.delta : a.op = Insert(e) =>
                  \E o \in rebuild.delta : o.op = Delete(e) /\ Earlier(o, a)
        BY <3>1, <2>1, <1>1, <1>11 DEF GhostReplay
      <4> QED BY <3>1, <4>1, <1>14
    <3>2. CASE e = d
      <4>1. c.op = Insert(d)
        BY <3>2, <1>6, <1>10
      <4>2. Mapped(index, d)
        <5>1. SUFFICES ASSUME ~Mapped(index, d) PROVE FALSE
          OBVIOUS
        <5>2. new = rebuild.new
          BY <5>1, <4>1, <1>8
        <5> QED BY <5>2, <3>2, <4>1, <2>2
      <4>3. live[d] # None
        BY <4>2, <3>2, <2>1, <1>4 DEF GhostIndex
      <4>4. ASSUME NEW a \in rebuild.delta \ {c}, a.op = Insert(d)
            PROVE  \E o \in rebuild.delta \ {c} : o.op = Delete(d) /\ Earlier(o, a)
        <5> DEFINE j == c.entry
                   k == a.entry
        <5>1. /\ j \in EntriesOf(Log, d) /\ c.seq = Log[j].insert_seq /\ Log[j].insert_seq > snap
              /\ k \in EntriesOf(Log, d) /\ a.seq = Log[k].insert_seq /\ Log[k].insert_seq > snap
          <6>1. Log = seq_log.entries /\ a \in changes_since(seq_log, snap)
            BY <1>5 DEF Log
          <6> QED BY <6>1, <4>1, <4>4, <1>3, <1>5, ChangeOf
        <5>2. /\ j \in Nat /\ k \in Nat /\ Log[j].insert_seq \in Nat /\ Log[k].insert_seq \in Nat
              /\ Log[j].delete_seq \in Nat /\ Log[k].delete_seq \in Nat
              /\ j \in DOMAIN Log /\ Log[j].doc = d
          BY <5>1, <1>2, EntryOfTypes
        <5>3. Chain(Log, d, snap) /\ OnlyLastOpen(Log, d)
          BY <3>2, <1>2, <1>4 DEF ChainInv, LogInv
        <5>4. Earlier(c, a)
          BY <4>4, <1>0
        <5>5. j # k
          <6>1. SUFFICES ASSUME j = k PROVE FALSE
            OBVIOUS
          <6>2. c.seq = a.seq /\ c.entry = a.entry /\ c.op = a.op
            BY <6>1, <5>1, <4>1, <4>4
          <6>3. a \in [op : IndexOps, seq : Txs, entry : Nat]
            BY <1>5
          <6> QED BY <6>2, <6>3, <4>4, <1>5
        <5>6. ~(k < j)
          <6>1. SUFFICES ASSUME k < j PROVE FALSE
            OBVIOUS
          <6>2. Log[k].delete_seq # None
            BY <6>1, <5>1, <5>3 DEF OnlyLastOpen
          <6>3. Log[k].insert_seq <= Log[k].delete_seq /\ Log[k].delete_seq <= Log[j].insert_seq
            BY <6>1, <6>2, <5>1, <5>3 DEF Chain
          <6>4. Log[j].insert_seq < Log[k].insert_seq \/ (Log[j].insert_seq = Log[k].insert_seq /\ ~(k < j))
            BY <5>1, <5>2, <5>4, <5>5 DEF Earlier
          <6> QED BY <6>1, <6>3, <6>4, <5>2
        <5>7. j < k
          BY <5>2, <5>5, <5>6
        <5>8. Log[j].delete_seq # None
          BY <5>1, <5>3, <5>7 DEF OnlyLastOpen
        <5>9. Log[j].insert_seq <= Log[j].delete_seq /\ Log[j].delete_seq <= Log[k].insert_seq
          BY <5>1, <5>3, <5>7, <5>8 DEF Chain
        <5>10. Log[j].delete_seq > snap
          BY <5>1, <5>2, <5>9, <1>3
        <5>11. PICK o \in changes_since(seq_log, snap) :
                 o.op = Delete(d) /\ o.seq = Log[j].delete_seq /\ o.entry = j
          <6>1. Log = seq_log.entries
            BY DEF Log
          <6> QED BY <6>1, <5>2, <5>10, <1>3, ChangesAre
        <5>12. Earlier(c, o)
          <6>1. c.op.kind = "insert" /\ o.op.kind = "delete"
            BY <4>1, <5>11, OpFacts
          <6> QED BY <6>1, <5>1, <5>2, <5>9, <5>11 DEF Earlier
        <5>13. o \in rebuild.delta \ {c}
          <6>1. o # c
            BY <4>1, <5>11, OpFacts
          <6> QED BY <6>1, <5>12, <1>0, <1>1, <1>2 DEF ReplayInv
        <5>14. Earlier(o, a)
          BY <5>1, <5>2, <5>7, <5>9, <5>11 DEF Earlier
        <5> QED BY <5>11, <5>13, <5>14
      <4> QED BY <3>2, <4>3, <4>4
    <3> QED BY <3>1, <3>2
  <2> QED BY <2>3, <2>4
<1>24. PinInv'
  <2> SUFFICES ASSUME ~torn, NEW r \in Readers \ exposed, NEW e \in Docs, pins[r] # None, ~Unordered(e),
                      is_visible(seq_log, e, pins[r])
               PROVE  NodesOf(index, e) # {} /\ NodesOf(new, e) # {}
    BY <1>1, <1>12, <1>13 DEF PinInv
  <2>1. NodesOf(index, e) # {} /\ NodesOf(rebuild.new, e) # {}
    BY <1>4 DEF Inv, PinInv
  <2> QED BY <2>1, <1>11
<1>25. IndexOK(rebuild.new)'
  BY <1>10, <1>12
<1> QED BY <1>1, <1>16, <1>17, <1>18, <1>19, <1>20, <1>21, <1>22, <1>23, <1>24, <1>25, RebuildOnly

-----------------------------------------------------------------------------
(* The swap.                                                               *)

\* Phase 2 swaps the indexes: nothing of the delta is left.
LEMMA SwapStep ==
  ASSUME Inv, RebuildSwap
  PROVE  Inv'
<1>0. /\ rebuild.at = "replay" /\ rebuild.delta = {} /\ index' = rebuild.new /\ rebuild' = IdleRebuild
      /\ UNCHANGED <<seq_log, last_tx_id, tx_buffer, begun, commit, jobs, pins, live, unordered,
                     late, torn, exposed>>
  BY DEF RebuildSwap
<1>1. TypeVars /\ IndexOK(rebuild.new) /\ RebuildInv /\ BoundInv
  BY DEF Inv
<1>2. /\ rebuild'.at = "idle" /\ rebuild'.new = EmptyIndex
      /\ rebuild'.todo = {} /\ rebuild'.delta = {}
      /\ ~Rebuilding'
  BY <1>0, IdleRebuildFacts DEF Rebuilding
<1>3. /\ ~Busy /\ rebuild.todo = {} /\ Rebuilding /\ ~Busy' /\ commit.at = "idle" /\ commit'.at = "idle"
  BY <1>0, <1>1 DEF RebuildInv, Busy, Rebuilding
<1>4. CommitSame
  BY <1>0 DEF CommitSame
<1>5. \A d : /\ Applied(d)' = live[d]
             /\ Excepted(d) <=> d \in late
             /\ Unordered(d)' <=> Unordered(d)
  BY <1>0, <1>3 DEF Applied, BusyOn, Excepted, Unordered, Older
<1>6. TypeVars'
  <2>1. rebuild.new \in Indexes
    BY <1>1 DEF IndexOK
  <2> QED BY <2>1, <1>0, <1>1, IdleRebuildFacts DEF TypeVars
<1>7. IndexOK(index)' /\ IndexOK(rebuild.new)'
  BY <1>0, <1>1, <1>2, EmptyIndexOK
<1>8. BufferInv' /\ CommitInv' /\ LogInv'
  <2>1. BufferInv'
    BY <1>0, <1>3, BufferFrame DEF Inv
  <2>2. CommitInv'
    BY <1>0, CommitFrame DEF Inv
  <2>3. LogInv'
    BY <1>0, <1>4, LogFrame DEF Inv
  <2> QED BY <2>1, <2>2, <2>3
<1>9. RebuildInv' /\ LatestBuild' /\ LatestReplay' /\ ReplayInv' /\ GhostBuild' /\ GhostReplay'
  BY <1>2, NotRebuilding
<1>10. BoundInv'
  <2>1. NodesBound(index)'
    BY <1>0, <1>1 DEF BoundInv, NodesBound, Busy, Doc
  <2>2. NodesBound(rebuild.new)'
    BY <1>2, EmptyIndexOK DEF NodesBound
  <2> QED BY <2>1, <2>2, <1>0, <1>1, <1>4, BoundFrame
<1>11. ChainInv'
  BY <1>2, <1>3 DEF ChainInv
<1>12. LatestIndex'
  <2> SUFFICES ASSUME NEW d \in Docs \ late, live[d] # None
               PROVE  HasVector(rebuild.new, d, live[d]) /\ NodesOf(rebuild.new, d) # {}
    BY <1>0, <1>5 DEF LatestIndex
  <2>1. HasVector(rebuild.new, d, live[d])
    BY <1>0 DEF Inv, LatestReplay
  <2>2. Mapped(rebuild.new, d)
    BY <2>1 DEF HasVector
  <2> QED BY <2>1, <2>2, <1>1, VectorNode
<1>13. PlainInv'
  <2>1. Plain => StageInv'
    BY <1>0, StageFrame DEF Inv, PlainInv
  <2>2. ASSUME Plain, ~torn' PROVE GhostIndex'
    <3>1. GhostBuild /\ GhostReplay
      BY <2>2, <1>0 DEF Inv, PlainInv
    <3> SUFFICES ASSUME NEW d \in Docs \ late
                 PROVE  Single(rebuild.new, d) /\ (live[d] = None => ~Mapped(rebuild.new, d))
      BY <1>0, <1>5 DEF GhostIndex
    <3>2. Single(rebuild.new, d)
      BY <3>1, <1>3, <1>5 DEF GhostBuild
    <3>3. live[d] = None => ~Mapped(rebuild.new, d)
      BY <3>1, <1>0 DEF GhostReplay
    <3> QED BY <3>2, <3>3
  <2> QED BY <2>1, <2>2, <1>9 DEF PlainInv
<1>14. DeletionsInv' /\ ClosedInv'
  BY <1>0, <1>4, DeletionsFrame, ClosedFrame DEF Inv
<1>15. PinInv'
  <2> SUFFICES ASSUME ~torn, NEW r \in Readers \ exposed, NEW e \in Docs, pins[r] # None, ~Unordered(e),
                      is_visible(seq_log, e, pins[r])
               PROVE  NodesOf(rebuild.new, e) # {}
    BY <1>0, <1>2, <1>5 DEF PinInv
  <2> QED BY <1>3 DEF Inv, PinInv
<1> QED BY <1>6, <1>7, <1>8, <1>9, <1>10, <1>11, <1>12, <1>13, <1>14, <1>15 DEF Inv

-----------------------------------------------------------------------------
(* Readers.                                                                *)

\* A document visible at the last commit is one that should be live, so no rebuild
\* has dropped it.
LEMMA VisibleLast ==
  ASSUME Inv, NEW d \in Docs, ~Unordered(d), is_visible(seq_log, d, last_tx_id)
  PROVE  NodesOf(index, d) # {}
<1>1. TypeVars /\ CommitInv /\ BoundInv /\ LogInv /\ LatestIndex /\ ClosedInv
  BY DEF Inv
<1>2. last_tx_id \in Nat /\ seq_log \in Logs /\ commit.tx \in Nat
  BY <1>1, Numbers DEF TypeVars
<1>3. d \notin late
  BY <1>1 DEF Unordered, TypeVars
<1>4. SUFFICES live[d] # None
  BY <1>1, <1>3 DEF LatestIndex
<1>5. VisibleIn(Log, d, last_tx_id)
  BY <1>2, VisibleIs DEF Log
<1>6. PICK k \in EntriesOf(Log, d) :
        /\ Log[k].insert_seq <= last_tx_id
        /\ Log[k].delete_seq = None \/ Log[k].delete_seq > last_tx_id
  BY <1>5 DEF VisibleIn
<1>7. k \in Nat /\ k \in DOMAIN Log /\ Log[k].doc = d
      /\ Log[k].insert_seq \in Nat /\ Log[k].delete_seq \in Nat
  BY <1>1, <1>6, EntryOfTypes
<1>8. CASE Log[k].delete_seq = None
  <2>1. Recorded(d) # None
    BY <1>1, <1>6, <1>8 DEF LogInv, AllClosed
  <2>2. PICK i \in EntriesOf(Log, d) : Log[i].delete_seq = None /\ Log[i].insert_seq = Recorded(d)
    BY <2>1, <1>1 DEF LogInv
  <2>3. i \in Nat
    BY <1>1, <2>2, EntryOfTypes
  <2>4. i = k
    BY <2>2, <2>3, <1>1, <1>6, <1>7, <1>8 DEF LogInv, OnlyLastOpen
  <2>5. CASE commit.at = "advance" /\ d = Doc
    <3>1. Busy /\ IsProgram(commit.ops) /\ commit.tx # last_tx_id
      BY <2>5, <1>1 DEF Busy, CommitInv
    <3>2. PICK e \in Docs : commit.ops \in ProgramsOn(e)
      BY <3>1 DEF IsProgram
    <3>3. Doc = e
      BY <3>2, ProgramFacts DEF Doc
    <3>4. Recorded(d) = commit.tx
      BY <2>1, <2>5, <3>2, <3>3, OutcomeFacts DEF Recorded
    <3>5. commit.tx < last_tx_id
      BY <3>1, <3>4, <2>2, <2>4, <1>2, <1>6
    <3> QED BY <3>1, <3>5, <2>5 DEF Unordered, Older
  <2>6. CASE ~(commit.at = "advance" /\ d = Doc)
    BY <2>1, <2>6 DEF Recorded
  <2> QED BY <2>5, <2>6
<1>9. CASE Log[k].delete_seq # None
  <2>1. Known(d, Log[k].delete_seq)
    BY <1>1, <1>7 DEF BoundInv
  <2>2. commit.at = "advance" /\ d = Doc /\ Log[k].delete_seq = commit.tx
    BY <2>1, <1>2, <1>6, <1>7, <1>9 DEF Known
  <2>3. ~Older
    BY <2>2 DEF Unordered
  <2>4. Log[k].insert_seq # commit.tx
    BY <2>2, <1>2, <1>6, <1>7, <1>9
  <2> QED BY <2>2, <2>3, <2>4, <1>1, <1>6 DEF ClosedInv
<1> QED BY <1>8, <1>9

\* A reader pins its snapshot or drops the pin.
LEMMA PinStep ==
  ASSUME Inv, NEW q \in Readers, Pin(q) \/ Unpin(q)
  PROVE  Inv'
<1>0. /\ UNCHANGED <<index, seq_log, last_tx_id, tx_buffer, begun, commit, jobs, rebuild, live,
                     unordered, late, torn>>
      /\ pins' \in {[pins EXCEPT ![q] = last_tx_id], [pins EXCEPT ![q] = None]}
      /\ exposed' \in {exposed, exposed \union {q}, exposed \ {q}}
  BY DEF Pin, Unpin
<1>1. TypeVars /\ IndexOK(index) /\ IndexOK(rebuild.new) /\ BoundInv /\ PinInv
  BY DEF Inv
<1>2. Pin(q) => last_tx_id # 0
  BY DEF Pin
<1>3. CommitSame
  BY <1>0 DEF CommitSame
<1>4. \A d : Unordered(d)' <=> Unordered(d)
  BY <1>0 DEF Unordered, Older, Busy, Doc
<1>5. pins' \in [Readers -> Txs \union {None}] /\ \A r \in Readers : pins'[r] <= last_tx_id
  <2>1. /\ pins \in [Readers -> Txs \union {None}] /\ last_tx_id \in Nat
        /\ \A r \in Readers : pins[r] <= last_tx_id
    BY <1>1, Numbers DEF TypeVars, BoundInv
  <2>2. CASE Unpin(q)
    BY <2>1, <2>2 DEF Unpin, None
  <2>3. CASE Pin(q)
    <3>1. last_tx_id \in Txs
      BY <2>3, <1>1, <1>2 DEF TypeVars, Txs
    <3> QED BY <3>1, <2>1, <2>3 DEF Pin
  <2> QED BY <2>2, <2>3
<1>6. TypeVars'
  BY <1>0, <1>1, <1>5 DEF TypeVars
<1>7. IndexOK(index)' /\ IndexOK(rebuild.new)'
  BY <1>0, <1>1
<1>8. BufferInv' /\ CommitInv' /\ RebuildInv' /\ LogInv' /\ ChainInv'
  <2>1. Busy' <=> Busy
    BY <1>0 DEF Busy
  <2>2. BufferInv' /\ CommitInv'
    BY <2>1, <1>0, BufferFrame, CommitFrame DEF Inv
  <2>3. RebuildInv' /\ LogInv' /\ ChainInv'
    BY <1>0, <1>3, RebuildFrame, LogFrame, ChainFrame DEF Inv
  <2> QED BY <2>2, <2>3
<1>9. BoundInv'
  BY <1>0, <1>1, <1>5 DEF BoundInv, NodesBound, Known, Busy, Doc, Log
<1>10. LatestIndex' /\ LatestBuild' /\ LatestReplay' /\ ReplayInv'
  BY <1>0, <1>3, LatestIndexFrame, LatestBuildFrame, ReplayFrame DEF Inv
<1>11. PlainInv'
  <2>1. Plain => StageInv'
    BY <1>0, StageFrame DEF Inv, PlainInv
  <2>2. ASSUME Plain, ~torn' PROVE GhostIndex' /\ GhostBuild' /\ GhostReplay'
    <3>1. GhostIndex /\ GhostBuild /\ GhostReplay
      BY <2>2, <1>0 DEF Inv, PlainInv
    <3> QED BY <3>1, <1>0, <1>3, GhostIndexFrame, GhostBuildFrame, GhostReplayFrame
  <2> QED BY <2>1, <2>2 DEF PlainInv
<1>12. DeletionsInv' /\ ClosedInv'
  BY <1>0, <1>3, DeletionsFrame, ClosedFrame DEF Inv
<1>13. PinInv'
  <2> SUFFICES ASSUME ~torn, NEW r \in Readers \ exposed', NEW e \in Docs, pins'[r] # None, ~Unordered(e),
                      is_visible(seq_log, e, pins'[r])
               PROVE  /\ NodesOf(index, e) # {}
                      /\ Rebuilding => \/ NodesOf(rebuild.new, e) # {}
                                       \/ \E i \in rebuild.todo : index.nodes[i].doc = e
    BY <1>0, <1>4 DEF PinInv, Rebuilding
  <2>0. pins \in [Readers -> Txs \union {None}]
    BY <1>1 DEF TypeVars
  <2>1. CASE r # q
    <3>1. pins'[r] = pins[r] /\ r \notin exposed
      BY <2>0, <2>1, <1>0
    <3> QED BY <3>1, <1>1 DEF PinInv
  <2>2. CASE r = q
    <3>1. Pin(q)
      BY <2>0, <2>2 DEF Unpin
    <3>2. pins'[r] = last_tx_id /\ ~Rebuilding
      BY <2>0, <2>2, <3>1 DEF Pin, Rebuilding
    <3> QED BY <3>2, VisibleLast
  <2> QED BY <2>1, <2>2
<1> QED BY <1>6, <1>7, <1>8, <1>9, <1>10, <1>11, <1>12, <1>13 DEF Inv

-----------------------------------------------------------------------------
(* The theorems.                                                           *)

\* A step in which nothing happens.
LEMMA StutterInv ==
  ASSUME Inv, UNCHANGED vars
  PROVE  Inv'
<1>0. UNCHANGED <<index, seq_log, last_tx_id, tx_buffer, begun, commit, jobs, rebuild, pins, live,
                  unordered, late, torn, exposed>>
  BY DEF vars
<1>1. TypeVars' /\ CommitInv' /\ BufferInv'
  <2>1. TypeVars'
    BY <1>0 DEF Inv, TypeVars
  <2>2. Busy' <=> Busy
    BY <1>0 DEF Busy
  <2> QED BY <2>1, <2>2, <1>0, CommitFrame, BufferFrame DEF Inv
<1>2. Plain => StageInv'
  BY <1>0, StageFrame DEF Inv, PlainInv
<1> QED BY <1>0, <1>1, <1>2, BufferOnly

\* Every step keeps the invariant.
LEMMA NextInv ==
  ASSUME Inv, [Next]_vars
  PROVE  Inv'
<1>1. ASSUME NEW ops \in Programs, Stage(ops) PROVE Inv'
  BY <1>1, StageStep
<1>2. ASSUME NEW t \in Txs, Commit(t) PROVE Inv'
  BY <1>2, CommitStarts
<1>3. ASSUME NEW t \in Txs, CommitFails(t) \/ Rollback(t) PROVE Inv'
  BY <1>3, DiscardStep
<1>4. CASE CommitApply
  BY <1>4, ApplyStep
<1>5. CASE CommitLog
  BY <1>5, LogStepInv
<1>6. CASE CommitAdvance
  BY <1>6, AdvanceStep
<1>7. CASE RebuildStart \/ RebuildSkipped \/ RebuildFails
  BY <1>7, SimpleRebuildStep
<1>8. CASE RebuildSnapshot
  BY <1>8, SnapshotStep
<1>9. CASE RebuildInsert
  BY <1>9, InsertStep
<1>10. CASE RebuildLock
  BY <1>10, LockStep
<1>11. CASE RebuildReplay
  BY <1>11, ReplayStep
<1>12. CASE RebuildSwap
  BY <1>12, SwapStep
<1>13. ASSUME NEW r \in Readers, Pin(r) \/ Unpin(r) PROVE Inv'
  BY <1>13, PinStep
<1>14. CASE UNCHANGED vars
  BY <1>14, StutterInv
<1> QED BY <1>1, <1>2, <1>3, <1>4, <1>5, <1>6, <1>7, <1>8, <1>9, <1>10, <1>11, <1>12, <1>13, <1>14
        DEF Next, CommitStep

\* The invariant holds in every reachable state.
LEMMA InvHolds == Spec => []Inv
BY InitInv, NextInv, PTL DEF Spec

\* Every variable keeps its type, and all indices the live index and the one under
\* construction keep in doc_to_node and deleted_nodes point to nodes: a mapped document
\* to a live node of its own.
THEOREM TypeCorrect == Spec => []TypeOK
<1>1. ASSUME Inv PROVE TypeOK
  <2>1. \A ix \in {index, rebuild.new} :
          /\ ix.deleted_nodes \subseteq DOMAIN ix.nodes
          /\ \A d \in Docs : ix.doc_to_node[d] # None =>
                /\ ix.doc_to_node[d] \in DOMAIN ix.nodes \ ix.deleted_nodes
                /\ ix.nodes[ix.doc_to_node[d]].doc = d
    BY <1>1 DEF Inv, IndexOK, Mapped
  <2> QED BY <2>1, <1>1 DEF Inv, TypeVars, Logs, Entry, TypeOK
<1> QED BY <1>1, InvHolds, PTL

\* Between commits every document is mapped to a node with the vector its last commit
\* gave it, whatever rebuilds have copied, replayed, failed or swapped beside the
\* commits; documents that a transaction older than the last one committed during a
\* rebuild are excepted.
THEOREM IndexLatestTheorem == Spec => []IndexLatest
<1>1. ASSUME Inv PROVE IndexLatest
  BY <1>1 DEF Inv, LatestIndex, Applied, BusyOn, Busy, HasVector, Mapped, IndexLatest
<1> QED BY <1>1, InvHolds, PTL

\* When callers are plain, between commits every live node belongs to a document that
\* should be present and is the one it is mapped to: no search finds a deleted document
\* or an outdated vector. Excepted are the documents IndexLatest excepts, and everything
\* after a rebuild took its snapshot in the middle of a commit.
THEOREM NoGhostTheorem ==
  ASSUME Plain
  PROVE  Spec => []NoGhost
<1>0. Plain
  OBVIOUS
<1>1. ASSUME Inv PROVE NoGhost
  <2> SUFFICES ASSUME commit.at = "idle", ~torn, NEW i \in DOMAIN index.nodes \ index.deleted_nodes,
                      index.nodes[i].doc \notin late
               PROVE  live[index.nodes[i].doc] # None /\ index.doc_to_node[index.nodes[i].doc] = i
    BY DEF NoGhost
  <2>1. PICK d : d = index.nodes[i].doc
    OBVIOUS
  <2>2. d \in Docs /\ i \in NodesOf(index, d) \ index.deleted_nodes
    <3>1. index.nodes \in Seq(Nodes)
      BY <1>1 DEF Inv, TypeVars, Indexes
    <3>2. index.nodes[i] \in Nodes
      BY <3>1
    <3> QED BY <3>2, <2>1 DEF Nodes, NodesOf
  <2>3. GhostIndex /\ IndexOK(index)
    BY <1>0, <1>1 DEF Inv, PlainInv
  <2>4. i = index.doc_to_node[d] /\ (live[d] = None => ~Mapped(index, d))
    BY <2>1, <2>2, <2>3 DEF GhostIndex, Single, Applied, BusyOn, Busy
  <2>5. i # 0
    <3>1. index.nodes \in Seq(Nodes)
      BY <1>1 DEF Inv, TypeVars, Indexes
    <3> QED BY <3>1
  <2> QED BY <2>1, <2>4, <2>5 DEF Mapped, None
<1> QED BY <1>1, InvHolds, PTL

\* A document that is_visible at the snapshot a reader pinned has a node in the live
\* index, whatever rebuilds have dropped since, for readers that pinned outside a rebuild
\* and documents committed in the order of their transactions, until a rebuild takes its
\* snapshot in the middle of a commit.
THEOREM PinnedFoundTheorem == Spec => []PinnedFound
<1>1. ASSUME Inv PROVE PinnedFound
  <2> SUFFICES ASSUME commit.at = "idle", ~torn, NEW r \in Readers \ exposed, NEW d \in Docs \ unordered,
                      pins[r] # None, is_visible(seq_log, d, pins[r])
               PROVE  \E i \in DOMAIN index.nodes : index.nodes[i].doc = d
    BY DEF PinnedFound
  <2>1. ~Unordered(d)
    BY DEF Unordered, Older, Busy
  <2>2. NodesOf(index, d) # {}
    BY <1>1, <2>1 DEF Inv, PinInv
  <2> QED BY <2>2 DEF NodesOf
<1> QED BY <1>1, InvHolds, PTL
=============================================================================
