---------------------------- MODULE DbTransaction ----------------------------
(***************************************************************************)
(* A transaction of a collection (contextra-engine/src/transaction): it     *)
(* writes documents to the storage engine, to the HNSW index, to the text   *)
(* index and to the graph, commits them one after the other, and undoes     *)
(* what it has done by compensating transactions when one of them fails.    *)
(* An intent in the storage engine marks a commit that has begun;           *)
(* repair_on_open looks for it after a crash.                               *)
(*                                                                           *)
(* A document's content is abstracted to the transaction that wrote it;      *)
(* every document has a text and an entity.  The text index and the graph    *)
(* keep their data in the storage engine under the transaction's own id, so  *)
(* one commit of the storage engine makes doc, text, entity, deleted and     *)
(* intent durable together; the HNSW index and the graph's arrays are in     *)
(* memory and are loaded when the collection opens.                          *)
(***************************************************************************)
EXTENDS Integers

CONSTANTS Docs,         \* document ids
          Txs,          \* transaction ids
          MAX_CRASHES,  \* bound
          Environment   \* what may happen: a set of "stage error",
                        \* "storage error", "commit timeout", "index error",
                        \* "text error", "graph error", "compensation error",
                        \* "partial compensation", "marker error",
                        \* "repair error", "settle error", "cancel", "same document"

ASSUME DbAssumption == Txs \subseteq Nat \ {0} /\ MAX_CRASHES \in Nat

None == 0         \* no such document
Keep == -1        \* not written by the transaction
max_attempts == 3

VARIABLES phase,    \* of the database: "up", "down", "repair", "settle"
          doc,      \* storage: version of each document
          text,     \* storage: version whose postings the text index holds
          entity,   \* storage: documents with a graph entity
          deleted,  \* storage: documents with a graph deletion marker
          intent,   \* storage: each transaction's CommitIntent
          index,    \* HNSW: version of each document
          graph,    \* memory of the graph: documents with an entity
          pc,       \* each transaction's place in commit
          writes,   \* what it writes to each document
          old,      \* the values it read before (staged_forward_keys)
          erased,   \* entities whose removal it has staged
          attempts, \* of compensate_lsm
          pending,  \* the intents repair_on_open found
          crashes,
          applied,  \* history: committed to storage and not compensated
          stale,    \* history: documents that an unfinished transaction left out of
                    \* the HNSW index or of the graph's memory, until the next open
          undone    \* history: documents whose postings or graph keys were not put
                    \* back by compensation, or not erased by a deletion

storage == <<doc, text, entity, deleted, intent>>
memory  == <<index, graph>>
txns    == <<pc, writes, old, erased, attempts>>
history == <<applied, stale, undone>>
vars    == <<phase, storage, memory, txns, pending, crashes, history>>

Versions == Txs \union {None}
Intents  == {"none", "Pending", "Committed", "Aborted", "Failed"}

\* The storage engine has committed the transaction, the indexes have not.
InDoubtPlaces == {"index", "text", "graph", "comp text", "comp hnsw", "comp lsm"}
Finished == {"ok", "err", "lost"}
Places == {"open", "stage graph", "storage", "marker"} \union InDoubtPlaces \union Finished

Written(t)  == {d \in Docs : writes[t][d] # Keep}
Inserted(t) == {d \in Docs : writes[t][d] = t}
Removed(t)  == {d \in Docs : writes[t][d] = None}
InDoubt(t)  == pc[t] \in InDoubtPlaces
Active(t)   == pc[t] \notin Finished

\* Transaction t goes on at p.
Goto(t, p) == pc' = [pc EXCEPT ![t] = p]

\* f, with the values of g for the documents t writes.
Override(f, t, g) == [d \in Docs |-> IF d \in Written(t) THEN g[d] ELSE f[d]]

-----------------------------------------------------------------------------
Init ==
    /\ phase = "up"
    /\ doc = [d \in Docs |-> None] /\ text = [d \in Docs |-> None]
    /\ entity = {} /\ deleted = {}
    /\ intent = [t \in Txs |-> "none"]
    /\ index = [d \in Docs |-> None] /\ graph = {}
    /\ pc = [t \in Txs |-> "open"]
    /\ writes = [t \in Txs |-> [d \in Docs |-> Keep]]
    /\ old = [t \in Txs |-> [d \in Docs |-> None]]
    /\ erased = [t \in Txs |-> {}]
    /\ attempts = [t \in Txs |-> 0]
    /\ pending = {} /\ crashes = 0
    /\ applied = {} /\ stale = {} /\ undone = {}

\* Mutant: the keys are recorded without their old values.
Write_NoOldValue(t, d, v) ==
    /\ phase = "up" /\ pc[t] = "open" /\ writes[t][d] = Keep
    /\ \/ "same document" \in Environment
       \/ \A u \in Txs \ {t} : Active(u) => d \notin Written(u)
    /\ writes' = [writes EXCEPT ![t][d] = v]
    /\ UNCHANGED <<phase, storage, memory, pc, old, erased, attempts, pending, crashes,
                   history>>

\* insert_op, update_op and delete_op: the value to compensate with is read and the
\* write is staged.  No lock keeps another transaction from the document.
Write(t, d, v) ==
    /\ phase = "up" /\ pc[t] = "open" /\ writes[t][d] = Keep
    /\ \/ "same document" \in Environment
       \/ \A u \in Txs \ {t} : Active(u) => d \notin Written(u)
    /\ writes' = [writes EXCEPT ![t][d] = v]
    /\ old' = [old EXCEPT ![t][d] = doc[d]]
    /\ UNCHANGED <<phase, storage, memory, pc, erased, attempts, pending, crashes, history>>

insert_op(t, d) == Write(t, d, t)
delete_op(t, d) == Write(t, d, None)

\* rollback, or a drop of the open transaction: the buffers are discarded.
Rollback(t) ==
    /\ phase = "up" /\ pc[t] = "open" /\ Written(t) # {}
    /\ Goto(t, "err")
    /\ UNCHANGED <<phase, storage, memory, writes, old, erased, attempts, pending,
                   crashes, history>>

\* commit_text_staged: the postings are staged in the storage engine.
StageText(t) ==
    /\ phase = "up" /\ pc[t] = "open" /\ Written(t) # {}
    /\ \/ Goto(t, "stage graph")
       \/ "stage error" \in Environment /\ Goto(t, "err")
    /\ UNCHANGED <<phase, storage, memory, writes, old, erased, attempts, pending,
                   crashes, history>>

\* commit_graph_staged: entities are staged.  remove_entity ignores an entity the
\* graph does not know; it takes the others out of its memory at once and commits
\* the transaction there, and no rollback brings them back.
StageGraph(t) ==
    /\ phase = "up" /\ pc[t] = "stage graph"
    /\ LET known == Removed(t) \intersect graph
       IN  \/ /\ Goto(t, "storage")
              /\ erased' = [erased EXCEPT ![t] = known]
              /\ graph' = IF known = {} THEN graph ELSE (graph \ known) \union Inserted(t)
              /\ UNCHANGED stale
           \/ /\ "stage error" \in Environment
              /\ Goto(t, "err")
              /\ \E r \in SUBSET known :
                   \/ graph' = graph \ r
                   \/ r # {} /\ graph' = (graph \ r) \union Inserted(t)
              /\ stale' = stale \union Written(t)
              /\ UNCHANGED erased
    /\ UNCHANGED <<phase, storage, index, writes, old, attempts, pending, crashes,
                   applied, undone>>

\* What a commit of the storage engine makes durable.
Durable(t) ==
    /\ doc' = Override(doc, t, writes[t])
    /\ text' = Override(text, t, writes[t])
    /\ entity' = (entity \ erased[t]) \union Inserted(t)
    /\ deleted' = deleted \union erased[t]
    /\ intent' = [intent EXCEPT ![t] = "Pending"]
    /\ applied' = applied \union {t}
    /\ undone' = undone \union (Removed(t) \ erased[t])

\* The intent joins the transaction and the storage engine commits it: documents,
\* postings, entities and intent become durable in one step.
StorageCommit(t) ==
    /\ phase = "up" /\ pc[t] = "storage"
    /\ Goto(t, "index")
    /\ Durable(t)
    /\ UNCHANGED <<phase, memory, writes, old, erased, attempts, pending, crashes, stale>>

\* The commit of the storage engine returns an error: rollback_internal.  After a
\* timeout of the group commit the leader commits it all the same.
StorageFails(t) ==
    /\ phase = "up" /\ pc[t] = "storage"
    /\ Goto(t, "err")
    /\ \/ "storage error" \in Environment /\ UNCHANGED <<storage, applied, undone>>
       \/ "commit timeout" \in Environment /\ Durable(t)
    /\ stale' = stale \union Written(t)
    /\ UNCHANGED <<phase, memory, writes, old, erased, attempts, pending, crashes>>

\* The HNSW index applies the transaction, or has computed nothing and drops it;
\* then only the storage engine is compensated.
IndexCommit(t) ==
    /\ phase = "up" /\ pc[t] = "index"
    /\ \/ /\ Goto(t, "text")
          /\ index' = Override(index, t, writes[t])
          /\ UNCHANGED undone
       \/ /\ "index error" \in Environment
          /\ Goto(t, "comp lsm")
          /\ undone' = undone \union Written(t)
          /\ UNCHANGED index
    /\ UNCHANGED <<phase, storage, graph, writes, old, erased, attempts, pending, crashes,
                   applied, stale>>

\* The text index: its postings are durable already, its statistics follow.
TextCommit(t) ==
    /\ phase = "up" /\ pc[t] = "text"
    /\ \/ Goto(t, "graph") /\ UNCHANGED undone
       \/ /\ "text error" \in Environment
          /\ Goto(t, "comp hnsw")
          /\ undone' = undone \union Written(t)
    /\ UNCHANGED <<phase, storage, memory, writes, old, erased, attempts, pending, crashes,
                   applied, stale>>

\* The graph: the staged entities enter its memory.
GraphCommit(t) ==
    /\ phase = "up" /\ pc[t] = "graph"
    /\ \/ /\ Goto(t, "marker")
          /\ graph' = graph \union Inserted(t)
          /\ stale' = stale \ Written(t)
          /\ undone' = undone \ (Inserted(t) \union erased[t])
       \/ /\ "graph error" \in Environment
          /\ Goto(t, "comp text")
          /\ undone' = undone \union Written(t)
          /\ UNCHANGED <<graph, stale>>
    /\ UNCHANGED <<phase, storage, index, writes, old, erased, attempts, pending, crashes,
                   applied>>

\* The intent becomes Committed under an id of its own; an error is only logged.
Marker(t) ==
    /\ phase = "up" /\ pc[t] = "marker"
    /\ Goto(t, "ok")
    /\ \/ intent' = [intent EXCEPT ![t] = "Committed"]
       \/ "marker error" \in Environment /\ UNCHANGED intent
    /\ UNCHANGED <<phase, doc, text, entity, deleted, memory, writes, old, erased,
                   attempts, pending, crashes, history>>

-----------------------------------------------------------------------------
(* Compensation.                                                           *)

\* compensate_text deletes the documents' postings; an error is only logged.
compensate_text(t) ==
    /\ phase = "up" /\ pc[t] = "comp text"
    /\ Goto(t, "comp hnsw")
    /\ \/ text' = Override(text, t, [d \in Docs |-> None])
       \/ "compensation error" \in Environment /\ UNCHANGED text
    /\ UNCHANGED <<phase, doc, entity, deleted, intent, memory, writes, old, erased,
                   attempts, pending, crashes, history>>

\* compensate_hnsw deletes the documents, also those that had an older version.
compensate_hnsw(t) ==
    /\ phase = "up" /\ pc[t] = "comp hnsw"
    /\ Goto(t, "comp lsm")
    /\ \/ /\ index' = Override(index, t, [d \in Docs |-> None])
          /\ stale' = stale \union {d \in Written(t) : old[t][d] # None}
       \/ /\ "compensation error" \in Environment
          /\ stale' = stale \union Written(t)
          /\ UNCHANGED index
    /\ UNCHANGED <<phase, storage, graph, writes, old, erased, attempts, pending, crashes,
                   applied, undone>>

\* Mutant: a document that was absent before is left as it is.
compensate_lsm_PutsOnly(t) ==
    /\ phase = "up" /\ pc[t] = "comp lsm"
    /\ Goto(t, "err")
    /\ doc' = Override(doc, t, [d \in Docs |-> IF old[t][d] = None THEN doc[d] ELSE old[t][d]])
    /\ intent' = [intent EXCEPT ![t] = "Aborted"]
    /\ applied' = applied \ {t}
    /\ UNCHANGED <<phase, text, entity, deleted, memory, writes, old, erased, attempts,
                   pending, crashes, stale, undone>>

\* One attempt of compensate_lsm succeeds: the old values are put back and the
\* intent is Aborted, in one commit.
compensate_lsm(t) ==
    /\ phase = "up" /\ pc[t] = "comp lsm"
    /\ Goto(t, "err")
    /\ doc' = Override(doc, t, old[t])
    /\ intent' = [intent EXCEPT ![t] = "Aborted"]
    /\ applied' = applied \ {t}
    /\ UNCHANGED <<phase, text, entity, deleted, memory, writes, old, erased, attempts,
                   pending, crashes, stale, undone>>

\* Mutant: the attempts start again after the last one.
AttemptFails_Forever(t) ==
    /\ phase = "up" /\ pc[t] = "comp lsm" /\ "compensation error" \in Environment
    /\ attempts' = [attempts EXCEPT ![t] = (@ + 1) % max_attempts]
    /\ UNCHANGED <<phase, storage, memory, pc, writes, old, erased, pending, crashes,
                   history>>

\* Mutant: one attempt too many.
AttemptFails_OneMore(t) ==
    /\ phase = "up" /\ pc[t] = "comp lsm" /\ "compensation error" \in Environment
    /\ attempts' = [attempts EXCEPT ![t] = @ + 1]
    /\ IF attempts[t] < max_attempts
       THEN UNCHANGED <<pc, stale>>
       ELSE Goto(t, "err") /\ stale' = stale \union Written(t)
    /\ UNCHANGED <<phase, storage, memory, writes, old, erased, pending, crashes, applied,
                   undone>>

\* An attempt fails; after the last one the transaction gives up.  When only puts
\* were refused (memory budget), the commit goes on with the rest of the keys.
AttemptFails(t) ==
    /\ phase = "up" /\ pc[t] = "comp lsm" /\ "compensation error" \in Environment
    /\ attempts' = [attempts EXCEPT ![t] = @ + 1]
    /\ IF attempts'[t] < max_attempts
       THEN UNCHANGED <<pc, stale>>
       ELSE Goto(t, "err") /\ stale' = stale \union Written(t)
    /\ \/ UNCHANGED <<doc, intent, applied>>
       \/ /\ "partial compensation" \in Environment
          /\ \E S \in SUBSET Written(t) :
               /\ \A d \in Written(t) \ S : old[t][d] # None
               /\ doc' = [d \in Docs |-> IF d \in S THEN old[t][d] ELSE doc[d]]
               /\ applied' = IF S = Written(t) THEN applied \ {t} ELSE applied
          /\ intent' \in {intent, [intent EXCEPT ![t] = "Aborted"]}
    /\ UNCHANGED <<phase, text, entity, deleted, memory, writes, old, erased, pending,
                   crashes, undone>>

-----------------------------------------------------------------------------
(* Cancellation, crash, and the next open.                                 *)

\* The future of commit is dropped at an await: Drop discards what is staged.
Cancel(t) ==
    /\ phase = "up" /\ "cancel" \in Environment
    /\ Active(t) /\ pc[t] # "open"
    /\ Goto(t, "lost")
    /\ stale' = IF pc[t] \in InDoubtPlaces \union {"storage"}
                THEN stale \union Written(t) ELSE stale
    /\ UNCHANGED <<phase, storage, memory, writes, old, erased, attempts, pending, crashes,
                   applied, undone>>

Crash ==
    /\ phase # "down" /\ crashes < MAX_CRASHES
    /\ phase' = "down" /\ crashes' = crashes + 1
    /\ pc' = [t \in Txs |-> IF Active(t) /\ Written(t) # {} THEN "lost" ELSE pc[t]]
    /\ UNCHANGED <<storage, memory, writes, old, erased, attempts, pending, history>>

\* collection and scan_pending_intents: the graph and the HNSW index are loaded from
\* the storage engine; an entity with a deletion marker is skipped.
Open ==
    /\ phase = "down"
    /\ index' = doc
    /\ graph' = entity \ deleted
    /\ pending' = {t \in Txs : intent[t] = "Pending"}
    /\ phase' = IF pending' = {} THEN "up" ELSE "repair"
    /\ stale' = {}
    /\ UNCHANGED <<storage, txns, crashes, applied, undone>>

\* The documents of pending intents that exist.
Found == {d \in Docs : doc[d] # None /\ \E t \in pending : d \in Written(t)}

\* repair: the found documents get their postings and entities again, in one recovery
\* transaction, which also drops the intents (it is committed if there was a text to
\* recover); then every document that is not the first hit of a search for its own
\* text gets its postings, among them those that have none.
Repair ==
    /\ phase = "repair"
    /\ phase' = "settle"
    /\ \E missed \in SUBSET {d \in Docs : doc[d] # None} :
         text' = [d \in Docs |-> IF d \in Found \union missed \/ text[d] = None
                                 THEN doc[d] ELSE text[d]]
    /\ graph' = graph \union Found
    /\ entity' = entity \union Found
    /\ intent' = IF Found = {} THEN intent
                 ELSE [t \in Txs |-> IF t \in pending THEN "none" ELSE intent[t]]
    /\ UNCHANGED <<doc, deleted, index, txns, pending, crashes, history>>

\* Mutant: the intents are left as they were.
RepairFails_KeepsPending ==
    /\ phase = "repair" /\ "repair error" \in Environment
    /\ phase' = "down"
    /\ UNCHANGED <<storage, memory, txns, pending, crashes, history>>

\* repair fails: the intents become Failed and the open is refused; the next one
\* finds nothing pending.
RepairFails ==
    /\ phase = "repair" /\ "repair error" \in Environment
    /\ phase' = "down"
    /\ intent' = [t \in Txs |-> IF t \in pending THEN "Failed" ELSE intent[t]]
    /\ UNCHANGED <<doc, text, entity, deleted, memory, txns, pending, crashes, history>>

\* Every pending intent becomes Committed, or Aborted when no document of it exists;
\* an error of the put or of its commit is only logged.
Settle(t) ==
    /\ phase = "settle" /\ t \in pending
    /\ pending' = pending \ {t}
    /\ phase' = IF pending' = {} THEN "up" ELSE phase
    /\ \/ intent' = [intent EXCEPT ![t] = IF \E d \in Written(t) : doc[d] # None
                                          THEN "Committed" ELSE "Aborted"]
       \/ "settle error" \in Environment /\ UNCHANGED intent
    /\ UNCHANGED <<doc, text, entity, deleted, memory, txns, crashes, history>>

CommitStep(t) ==
    \/ StageText(t) \/ StageGraph(t) \/ StorageCommit(t) \/ StorageFails(t)
    \/ IndexCommit(t) \/ TextCommit(t) \/ GraphCommit(t) \/ Marker(t)
    \/ compensate_text(t) \/ compensate_hnsw(t) \/ compensate_lsm(t) \/ AttemptFails(t)

TxStep(t) ==
    \/ \E d \in Docs : insert_op(t, d) \/ delete_op(t, d)
    \/ Rollback(t) \/ CommitStep(t) \/ Cancel(t)

Next ==
    \/ \E t \in Txs : TxStep(t)
    \/ Crash \/ Open \/ Repair \/ RepairFails
    \/ \E t \in Txs : Settle(t)

Spec == Init /\ [][Next]_vars

\* The future of a commit is polled until it is done; an open is tried again.
FairSpec == /\ Spec
            /\ \A t \in Txs : WF_vars(pc[t] # "open" /\ CommitStep(t))
            /\ WF_vars(Open) /\ WF_vars(Repair)
            /\ \A t \in Txs : WF_vars(Settle(t))

-----------------------------------------------------------------------------
(* Properties                                                              *)

TypeOK ==
    /\ phase \in {"up", "down", "repair", "settle"}
    /\ doc \in [Docs -> Versions] /\ text \in [Docs -> Versions] /\ index \in [Docs -> Versions]
    /\ entity \subseteq Docs /\ deleted \subseteq Docs /\ graph \subseteq Docs
    /\ intent \in [Txs -> Intents]
    /\ pc \in [Txs -> Places]
    /\ writes \in [Txs -> [Docs -> Versions \union {Keep}]]
    /\ old \in [Txs -> [Docs -> Versions]]
    /\ erased \in [Txs -> SUBSET Docs]
    /\ attempts \in [Txs -> 0..max_attempts]
    /\ pending \subseteq Txs /\ crashes \in 0..MAX_CRASHES
    /\ applied \subseteq Txs /\ stale \subseteq Docs /\ undone \subseteq Docs

-----------------------------------------------------------------------------
(* The inductive invariant.                                                *)

\* No two transactions write the same document and no attempt of a compensation
\* commits half of its keys.
Isolated == {"same document", "partial compensation"} \intersect Environment = {}

NotYetPlaces == {"open", "stage graph", "storage"}

\* Transactions at work write different documents, and only their own version.
Disjoint ==
    \A d \in Docs : \A t \in Txs :
      /\ writes[t][d] \in {t, None, Keep}
      /\ \A u \in Txs \ {t} :
           Active(t) /\ Active(u) => writes[t][d] = Keep \/ writes[u][d] = Keep

\* While the database is not up, no transaction is at work; while it is, repair is over.
\* Only a transaction that has writes is committed.
Quiet ==
    /\ phase = "up" => pending = {}
    /\ \A t \in Txs : Written(t) = {} => pc[t] = "open"
    /\ phase # "up" => \A t \in Txs : Active(t) =>
                         pc[t] = "open" /\ \A d \in Docs : writes[t][d] = Keep

\* Which transactions the storage engine has, what their intents may say of it, and
\* that compensation has an attempt left.
Recorded ==
    \A t \in Txs : /\ pc[t] \in NotYetPlaces => t \notin applied
                   /\ pc[t] \in InDoubtPlaces \union {"marker", "ok"} => t \in applied
                   /\ intent[t] \in {"Pending", "Committed"} => t \in applied
                   /\ t \in pending => t \in applied
                   /\ Active(t) => attempts[t] < max_attempts

\* The values to compensate with are the current ones until the storage engine
\* commits; then the current ones are the transaction's own.
OldKept ==
    \A t \in Txs : \A d \in Docs : writes[t][d] # Keep =>
      /\ pc[t] \in NotYetPlaces => old[t][d] = doc[d]
      /\ InDoubt(t) => doc[d] = writes[t][d]

\* v is a version that has been committed and may not be declared aborted.
Valid(v, d) == v \in Txs => v \in applied /\ writes[v][d] = v /\ intent[v] # "Aborted"

\* Every version in the storage engine is valid, and so is every version that a
\* compensation may put back; the transaction that wrote the latter is over.
Origin ==
    \A d \in Docs :
      /\ Valid(doc[d], d)
      /\ \A t \in Txs : Active(t) /\ writes[t][d] # Keep =>
           Valid(old[t][d], d) /\ (old[t][d] \in Txs => ~Active(old[t][d]))

DbInv == TypeOK /\ Disjoint /\ Quiet /\ Recorded /\ OldKept /\ Origin

-----------------------------------------------------------------------------
\* The refinement: a transaction in doubt has not taken effect yet, because its
\* compensation would put the old values back; it takes effect when the last index
\* has committed, or when nobody is left to compensate it.
value == [d \in Docs |-> IF \E t \in Txs : InDoubt(t) /\ d \in Written(t)
                         THEN old[CHOOSE t \in Txs : InDoubt(t) /\ d \in Written(t)][d]
                         ELSE doc[d]]
outcome == [t \in Txs |-> IF pc[t] = "marker" \/ (pc[t] \in Finished /\ t \in applied)
                          THEN "committed"
                          ELSE IF pc[t] \in Finished THEN "aborted" ELSE "open"]

Atomic == INSTANCE AtomicCommit WITH value <- value, writes <- writes, outcome <- outcome

\* Commit, compensation, cancellation and crash of transactions with no document in
\* common implement the abstract specification: seen in the storage engine, each takes
\* effect in one step or not at all ("Commits the transaction atomically").
AtomicSpec == Atomic!Spec

\* When no transaction is at work on it, a document is in the HNSW index, in the text
\* index and in the graph in the version the storage engine has, except where a history
\* variable records what compensation, cancellation and entity deletion leave behind.
Agreement ==
    phase = "up" =>
      \A d \in Docs : (\A t \in Txs : Active(t) => d \notin Written(t)) =>
        /\ d \notin stale => index[d] = doc[d]
        /\ d \notin undone => text[d] = doc[d]
        /\ d \notin stale \union undone \union deleted => (d \in graph <=> doc[d] # None)

\* The inductive invariant behind Agreement, for the transactions and for the documents:
\* what a commit has written so far it has written completely, and what a compensation
\* has yet to put back is recorded.
Undoing == {"comp text", "comp hnsw", "comp lsm"}
Doing   == {"index", "text", "graph"}

TxStored(t) ==
    /\ pc[t] \in Doing \union {"storage"} => erased[t] \subseteq Removed(t)
    /\ pc[t] \in Doing => /\ erased[t] \subseteq deleted
                          /\ Removed(t) \ erased[t] \subseteq undone
                          /\ Inserted(t) \subseteq entity
                          /\ \A d \in Written(t) : text[d] = doc[d]
    /\ pc[t] \in Undoing => Written(t) \subseteq undone

DocStored(d) ==
    d \notin undone => /\ text[d] = doc[d]
                       /\ d \notin deleted => (d \in entity <=> doc[d] # None)

\* The HNSW index has the new version of a document once it has committed the
\* transaction, and the old one before that and before the storage engine is compensated.
TxIndexed(t) ==
    /\ pc[t] \in {"text", "graph"} => \A d \in Written(t) : index[d] = doc[d]
    /\ pc[t] \in {"index", "comp lsm"} => \A d \in Written(t) \ stale : index[d] = old[t][d]

DocIndexed(d) ==
    /\ (\A t \in Txs : InDoubt(t) => d \notin Written(t)) =>
         d \in stale \/ index[d] = doc[d]
    /\ (\A t \in Txs : InDoubt(t) \/ pc[t] = "storage" => d \notin Written(t)) =>
         d \in stale \union undone \union deleted \/ (d \in graph <=> doc[d] # None)

AgreeInv == /\ \A t \in Txs : TxStored(t)
            /\ \A d \in Docs : DocStored(d)
            /\ phase # "down" => (\A t \in Txs : TxIndexed(t)) /\ (\A d \in Docs : DocIndexed(d))

\* "Transaction was aborted and compensated" (CommitIntent::Aborted): a transaction
\* whose intent says so has not taken effect in the storage engine.
IntentTrue == \A t \in Txs : intent[t] = "Aborted" => t \notin applied

\* What holds of the intents: no document has the version of a transaction that is
\* said to be Aborted, and one that is said to be Committed was not undone.
IntentUpheld ==
    \A t \in Txs : /\ intent[t] = "Aborted" => \A d \in Docs : doc[d] # t
                   /\ intent[t] = "Committed" => t \in applied

\* A commit that has begun returns, whatever fails on the way: compensation gives up
\* after max_attempts.
CommitReturns == \A t \in Txs : InDoubt(t) ~> pc[t] \in Finished

\* A database that has crashed gets up again, although repair may fail: the intents
\* that could not be repaired are Failed and do not stop the next open.
Reopens == phase = "down" ~> phase = "up"
=============================================================================
