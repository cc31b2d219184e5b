------------------------------ MODULE TextIndex ------------------------------
(***************************************************************************)
(* The BM25 index of a collection (contextra-text, InvertedIndex).  Posting  *)
(* lists are in the storage engine, one key for each term and document       *)
(* ("pl:"), and one key for the whole list of a term ("plb:"); a cache of     *)
(* whole lists (resident_index) is loaded from the latter and is shared by   *)
(* searches and by all transactions, committed or not.  A tombstone hides a  *)
(* document from the list of a term.                                         *)
(*                                                                           *)
(* A text is the set of its terms.  The presence of a key is an option: {}   *)
(* when it is absent, {v} when its value is v.  Scores are left out: a search *)
(* returns all hits of one term.                                             *)
(***************************************************************************)
EXTENDS Integers, FiniteSets, TLC

CONSTANTS Docs, Terms, Txs,
          WIDTH,        \* of the counter total_docs, in bits
          MAX_CRASHES,  \* bound
          Environment   \* what may happen: a set of "upsert", "update", "delete",
                        \* "resolve", "search", "rollback", "index error",
                        \* "stats error"

\* The number of values of total_docs.
Modulus == 2^WIDTH

ASSUME TextAssumption == /\ WIDTH \in Nat \ {0} /\ Modulus \in Nat \ {0}
                         /\ MAX_CRASHES \in Nat

VARIABLES doc,       \* storage: text of each document ("dl:" and "fw:")
          pl,        \* storage: pairs <<document, term>> with a posting of their own
          plb,       \* storage: posting list of each term
          tbs,       \* storage: pairs <<document, term>> with a tombstone
          meta,      \* storage: the number of documents ("meta:stats")
          resident,  \* memory: cached posting list of each term
          total_docs,
          pc,        \* each transaction's place
          op,        \* what it does: [doc, text]
          todo,      \* pairs it still has to stage
          at,        \* the pair it is at
          read,      \* the list it has read for the term of that pair
          staged_doc,           \* its writes, as yet uncommitted: of its document,
          staged_plb,           \* of whole lists,
          put_pl, delete_pl,    \* of postings
          put_tbs, delete_tbs,  \* and of tombstones
          staged_stats,
          query,     \* the search under way
          crashes,
          raced,     \* history: terms whose list was used by two at a time, or read
                     \* again by one that had emptied it
          skewed     \* history: the number of documents was not kept up

storage == <<doc, pl, plb, tbs, meta>>
memory  == <<resident, total_docs>>
staged  == <<staged_doc, staged_plb, put_pl, delete_pl, put_tbs, delete_tbs>>
txns    == <<pc, op, todo, at, read, staged, staged_stats>>
vars    == <<storage, memory, txns, query, crashes, raced, skewed>>

Pairs  == Docs \X Terms
Option(S) == {{}} \union {{x} : x \in S}
Texts  == SUBSET Terms
Get(o) == CHOOSE x \in o : TRUE

Ops == [doc : Option(Docs), text : Option(Texts)]
NoOp == [doc |-> {}, text |-> {}]
NoLists == [k \in Terms |-> {}]
Queries == [term : Option(Terms), seq : Option(SUBSET Docs), read : Option(SUBSET Docs)]
NoQuery == [term |-> {}, seq |-> {}, read |-> {}]

Staging == {"delete", "deleting", "upsert", "upserting", "resolving", "staged"}
AtWork(t) == pc[t] \in Staging
Places == {"idle", "committed", "meta", "done"} \union Staging

\* The terms in t's writes, and the one it is at.
Touched(t) ==
    {k \in Terms : \E d \in Docs : <<d, k>> \in put_pl[t] \union delete_pl[t] \union put_tbs[t]
                                             \union delete_tbs[t] \union at[t]}

\* Term k is in use by a transaction other than t.
InUse(t, k) == \E u \in Txs \ {t} : AtWork(u) /\ k \in Touched(u)

\* Some transaction at work writes document d.
Busy(d) == \E t \in Txs : AtWork(t) /\ d \in op[t].doc

\* The list of term k in the storage engine: the whole one, or else its postings.
Scan(k) == {d \in Docs : <<d, k>> \in pl}
Stored(k) == IF plb[k] # {} THEN Get(plb[k]) ELSE Scan(k)

-----------------------------------------------------------------------------
Init ==
    /\ doc = [d \in Docs |-> {}]
    /\ pl = {} /\ plb = NoLists /\ tbs = {}
    /\ meta = 0
    /\ resident = NoLists /\ total_docs = 0
    /\ pc = [t \in Txs |-> "idle"]
    /\ op = [t \in Txs |-> NoOp]
    /\ todo = [t \in Txs |-> {}] /\ at = [t \in Txs |-> {}] /\ read = [t \in Txs |-> {}]
    /\ staged_doc = [t \in Txs |-> {}] /\ staged_plb = [t \in Txs |-> NoLists]
    /\ put_pl = [t \in Txs |-> {}] /\ delete_pl = [t \in Txs |-> {}]
    /\ put_tbs = [t \in Txs |-> {}] /\ delete_tbs = [t \in Txs |-> {}]
    /\ staged_stats = [t \in Txs |-> 0]
    /\ query = NoQuery
    /\ crashes = 0 /\ raced = {} /\ skewed = FALSE

\* commit_text_staged: a deletion, an upsert, or both for an update; the transactions
\* have no document in common.  A repair upserts without a deletion.
Begin(t, d, text, deletes) ==
    /\ pc[t] = "idle" /\ ~Busy(d)
    /\ op' = [op EXCEPT ![t] = [doc |-> {d}, text |-> text]]
    /\ pc' = [pc EXCEPT ![t] = IF deletes THEN "delete" ELSE "upsert"]
    /\ UNCHANGED <<storage, memory, todo, at, read, staged, staged_stats, query, crashes,
                   raced, skewed>>

\* delete_document: nothing to do for a document the index does not have.
DeleteStart(t, d) ==
    /\ pc[t] = "delete" /\ d \in op[t].doc
    /\ IF doc[d] = {}
       THEN /\ pc' = [pc EXCEPT ![t] = IF op[t].text = {} THEN "staged" ELSE "upsert"]
            /\ UNCHANGED <<todo, staged_doc, staged_stats>>
       ELSE /\ pc' = [pc EXCEPT ![t] = "deleting"]
            /\ todo' = [todo EXCEPT ![t] = {d} \X Get(doc[d])]
            /\ staged_doc' = [staged_doc EXCEPT ![t] = {{}}]
            /\ staged_stats' = [staged_stats EXCEPT ![t] = @ - 1]
    /\ UNCHANGED <<storage, memory, op, at, read, staged_plb, put_pl, delete_pl, put_tbs,
                   delete_tbs, query, crashes, raced, skewed>>

\* Mutant: the terms of the old text get no tombstones.
UpsertStart_NoTombstones(t, d) ==
    /\ pc[t] = "upsert" /\ d \in op[t].doc
    /\ LET new == Get(op[t].text)
           old == IF doc[d] = {} THEN {} ELSE Get(doc[d])
       IN  /\ staged_doc' = [staged_doc EXCEPT ![t] = {{new}}]
           /\ put_tbs' = put_tbs
           /\ todo' = [todo EXCEPT ![t] = {d} \X new]
           /\ staged_stats' = [staged_stats EXCEPT ![t] = IF doc[d] = {} THEN @ + 1 ELSE @]
           /\ raced' = raced \union {k \in old : InUse(t, k)}
           /\ skewed' = (skewed \/ staged_stats[t] < 0)
    /\ pc' = [pc EXCEPT ![t] = "upserting"]
    /\ UNCHANGED <<storage, memory, op, at, read, staged_plb, put_pl, delete_pl, delete_tbs,
                   query, crashes>>

\* Mutant: an update is counted as an insertion.
UpsertStart_CountsUpdates(t, d) ==
    /\ pc[t] = "upsert" /\ d \in op[t].doc
    /\ LET new == Get(op[t].text)
           old == IF doc[d] = {} THEN {} ELSE Get(doc[d])
       IN  /\ staged_doc' = [staged_doc EXCEPT ![t] = {{new}}]
           /\ put_tbs' = [put_tbs EXCEPT ![t] = @ \union ({d} \X old)]
           /\ todo' = [todo EXCEPT ![t] = {d} \X new]
           /\ staged_stats' = [staged_stats EXCEPT ![t] = @ + 1]
           /\ raced' = raced \union {k \in old : InUse(t, k)}
           /\ skewed' = (skewed \/ staged_stats[t] < 0)
    /\ pc' = [pc EXCEPT ![t] = "upserting"]
    /\ UNCHANGED <<storage, memory, op, at, read, staged_plb, put_pl, delete_pl, delete_tbs,
                   query, crashes>>

\* upsert_document: tombstones for all terms of the committed text.  An update that
\* has deleted the document finds it still there and does not count it again.
UpsertStart(t, d) ==
    /\ pc[t] = "upsert" /\ d \in op[t].doc
    /\ LET new == Get(op[t].text)
           old == IF doc[d] = {} THEN {} ELSE Get(doc[d])
       IN  /\ staged_doc' = [staged_doc EXCEPT ![t] = {{new}}]
           /\ put_tbs' = [put_tbs EXCEPT ![t] = @ \union ({d} \X old)]
           /\ todo' = [todo EXCEPT ![t] = {d} \X new]
           /\ staged_stats' = [staged_stats EXCEPT ![t] = IF doc[d] = {} THEN @ + 1 ELSE @]
           /\ raced' = raced \union {k \in old : InUse(t, k)}
           /\ skewed' = (skewed \/ staged_stats[t] < 0)
    /\ pc' = [pc EXCEPT ![t] = "upserting"]
    /\ UNCHANGED <<storage, memory, op, at, read, staged_plb, put_pl, delete_pl, delete_tbs,
                   query, crashes>>

\* resolve_tombstones: all tombstones are looked through.
ResolveStart(t) ==
    /\ pc[t] = "idle"
    /\ pc' = [pc EXCEPT ![t] = "resolving"]
    /\ todo' = [todo EXCEPT ![t] = tbs]
    /\ UNCHANGED <<storage, memory, op, at, read, staged, staged_stats, query, crashes,
                   raced, skewed>>

\* Document d has term k.
Has(d, k) == doc[d] # {} /\ k \in Get(doc[d])

\* A tombstone of a term that the document has (again) is dropped.
ResolveLive(t, d, k) ==
    /\ pc[t] = "resolving" /\ at[t] = {} /\ <<d, k>> \in todo[t] /\ Has(d, k)
    /\ todo' = [todo EXCEPT ![t] = @ \ {<<d, k>>}]
    /\ delete_tbs' = [delete_tbs EXCEPT ![t] = @ \union {<<d, k>>}]
    /\ raced' = IF InUse(t, k) THEN raced \union {k} ELSE raced
    /\ UNCHANGED <<storage, memory, pc, op, at, read, staged_doc, staged_plb, put_pl,
                   delete_pl, put_tbs, staged_stats, query, crashes, skewed>>

\* The list of k has left the cache since t has removed all its documents, and the
\* committed list that t reads has one of them again, other than d.
Forgotten(t, d, k) ==
    resident[k] = {} /\ \E e \in Stored(k) \ {d} : <<e, k>> \in delete_pl[t]

\* Mutant: a list that is not in the cache is taken for empty.
ensure_term_loaded_NoRead(t, d, k) ==
    /\ AtWork(t) /\ at[t] = {} /\ <<d, k>> \in todo[t]
    /\ pc[t] = "resolving" => ~Has(d, k)
    /\ at' = [at EXCEPT ![t] = {<<d, k>>}]
    /\ raced' = IF InUse(t, k) \/ Forgotten(t, d, k) THEN raced \union {k} ELSE raced
    /\ UNCHANGED <<storage, memory, pc, op, todo, read, staged, staged_stats, query, crashes,
                   skewed>>

\* ensure_term_loaded: the list is in the cache, or read from the storage engine.
ensure_term_loaded(t, d, k) ==
    /\ AtWork(t) /\ at[t] = {} /\ <<d, k>> \in todo[t]
    /\ pc[t] = "resolving" => ~Has(d, k)
    /\ at' = [at EXCEPT ![t] = {<<d, k>>}]
    /\ read' = [read EXCEPT ![t] = IF resident[k] = {} THEN {Stored(k)} ELSE {}]
    /\ raced' = IF InUse(t, k) \/ Forgotten(t, d, k) THEN raced \union {k} ELSE raced
    /\ UNCHANGED <<storage, memory, pc, op, todo, staged, staged_stats, query, crashes,
                   skewed>>

\* insert_list: the list that was read replaces whatever is there by now.
InsertList(t, d, k) ==
    /\ at[t] = {<<d, k>>} /\ read[t] # {}
    /\ resident' = [resident EXCEPT ![k] = read[t]]
    /\ read' = [read EXCEPT ![t] = {}]
    /\ UNCHANGED <<storage, total_docs, pc, op, todo, at, staged, staged_stats, query,
                   crashes, raced, skewed>>

\* remove_posting_from_terms: an empty list leaves the cache.
Without(o, d) == IF o = {} \/ Get(o) \subseteq {d} THEN {} ELSE {Get(o) \ {d}}

\* upsert_posting
With(o, d) == IF o = {} THEN {{d}} ELSE {Get(o) \union {d}}

\* S with the member p, or without it.
Set(S, p, b) == IF b THEN S \union {p} ELSE S \ {p}

\* The posting is staged, the cached list changed and staged as a whole; a deletion
\* stages a tombstone, and resolve_tombstones drops it.
StagePosting(t, d, k) ==
    /\ at[t] = {<<d, k>>} /\ read[t] = {}
    /\ LET upserts == pc[t] = "upserting"
           list == IF upserts THEN With(resident[k], d) ELSE Without(resident[k], d)
       IN  /\ resident' = [resident EXCEPT ![k] = list]
           /\ staged_plb' = [staged_plb EXCEPT ![t][k] = {list}]
           /\ put_pl' = [put_pl EXCEPT ![t] = Set(@, <<d, k>>, upserts)]
           /\ delete_pl' = [delete_pl EXCEPT ![t] = Set(@, <<d, k>>, ~upserts)]
    /\ put_tbs' = [put_tbs EXCEPT ![t] = IF pc[t] = "deleting" THEN @ \union {<<d, k>>} ELSE @]
    /\ delete_tbs' =
         [delete_tbs EXCEPT ![t] = IF pc[t] = "resolving" THEN @ \union {<<d, k>>} ELSE @]
    /\ todo' = [todo EXCEPT ![t] = @ \ {<<d, k>>}]
    /\ at' = [at EXCEPT ![t] = {}]
    /\ UNCHANGED <<storage, total_docs, pc, op, read, staged_doc, staged_stats, query,
                   crashes, raced, skewed>>

\* All postings of the operation are staged.
OpDone(t) ==
    /\ pc[t] \in {"deleting", "upserting", "resolving"} /\ todo[t] = {} /\ at[t] = {}
    /\ pc' = [pc EXCEPT ![t] = IF @ = "deleting" /\ op[t].text # {} THEN "upsert" ELSE "staged"]
    /\ UNCHANGED <<storage, memory, op, todo, at, read, staged, staged_stats, query, crashes,
                   raced, skewed>>

\* The value o of a key after the write w, if there is one.
Written(o, w) == IF w # {} THEN Get(w) ELSE o

\* None of t's writes is left.
Unstage(t) ==
    /\ staged_doc' = [staged_doc EXCEPT ![t] = {}]
    /\ staged_plb' = [staged_plb EXCEPT ![t] = NoLists]
    /\ put_pl' = [put_pl EXCEPT ![t] = {}] /\ delete_pl' = [delete_pl EXCEPT ![t] = {}]
    /\ put_tbs' = [put_tbs EXCEPT ![t] = {}] /\ delete_tbs' = [delete_tbs EXCEPT ![t] = {}]

\* DbTransaction::commit: the storage engine commits the transaction, before the
\* statistics.
StorageCommit(t) ==
    /\ pc[t] = "staged"
    /\ doc' = [d \in Docs |-> IF d \in op[t].doc THEN Written(doc[d], staged_doc[t])
                                                 ELSE doc[d]]
    /\ plb' = [k \in Terms |-> Written(plb[k], staged_plb[t][k])]
    /\ pl' = (pl \ delete_pl[t]) \union put_pl[t]
    /\ tbs' = (tbs \ delete_tbs[t]) \union put_tbs[t]
    /\ Unstage(t)
    /\ op' = [op EXCEPT ![t] = NoOp]
    /\ pc' = [pc EXCEPT ![t] = "committed"]
    /\ UNCHANGED <<meta, memory, todo, at, read, staged_stats, query, crashes, raced, skewed>>

\* Mutant: the counter is signed.
commit_stats_Signed(t) ==
    /\ pc[t] = "committed"
    /\ total_docs' = total_docs + staged_stats[t]
    /\ staged_stats' = [staged_stats EXCEPT ![t] = total_docs']
    /\ pc' = [pc EXCEPT ![t] = "meta"]
    /\ skewed' = (skewed \/ \E u \in Txs : pc[u] = "meta")
    /\ UNCHANGED <<storage, resident, op, todo, at, read, staged, query, crashes, raced>>

\* commit_stats: the counter wraps around (fetch_add, fetch_sub); its value is
\* serialized under commit_lock and written after the lock is released.
commit_stats(t) ==
    /\ pc[t] = "committed"
    /\ total_docs' = (total_docs + staged_stats[t]) % Modulus
    /\ staged_stats' = [staged_stats EXCEPT ![t] = total_docs']
    /\ pc' = [pc EXCEPT ![t] = "meta"]
    /\ skewed' = (skewed \/ \E u \in Txs : pc[u] = "meta")
    /\ UNCHANGED <<storage, resident, op, todo, at, read, staged, query, crashes, raced>>

MetaCommit(t) ==
    /\ pc[t] = "meta"
    /\ meta' = staged_stats[t]
    /\ pc' = [pc EXCEPT ![t] = "done"]
    /\ staged_stats' = [staged_stats EXCEPT ![t] = 0]
    /\ UNCHANGED <<doc, pl, plb, tbs, memory, op, todo, at, read, staged, query, crashes,
                   raced, skewed>>

\* What rollback_stats leaves: the whole cache is dropped, whoever has used it.
DropCache(t) ==
    /\ resident' = NoLists
    /\ Unstage(t)
    /\ staged_stats' = [staged_stats EXCEPT ![t] = 0]
    /\ op' = [op EXCEPT ![t] = NoOp]
    /\ todo' = [todo EXCEPT ![t] = {}]
    /\ at' = [at EXCEPT ![t] = {}] /\ read' = [read EXCEPT ![t] = {}]
    /\ pc' = [pc EXCEPT ![t] = "done"]
    /\ raced' = raced \union {k \in Terms : InUse(t, k)}

\* rollback before the storage engine has committed.
Rollback(t) ==
    /\ AtWork(t) /\ DropCache(t)
    /\ UNCHANGED <<storage, total_docs, query, crashes, skewed>>

\* rollback after it: because the HNSW index failed, or the statistics were not
\* written.  The postings stay.
LateRollback(t) ==
    /\ \/ "index error" \in Environment /\ pc[t] = "committed"
       \/ "stats error" \in Environment /\ pc[t] = "meta"
    /\ DropCache(t)
    /\ skewed' = TRUE
    /\ UNCHANGED <<storage, total_docs, query, crashes>>

-----------------------------------------------------------------------------
(* Search.                                                                 *)

\* search_bm25_at: a search has a sequence number, at which it will read the list.
SearchBegin(k) ==
    /\ query = NoQuery
    /\ query' = [term |-> {k}, seq |-> plb[k], read |-> {}]
    /\ UNCHANGED <<storage, memory, txns, crashes, raced, skewed>>

\* The list is not in the cache: it is read, at the sequence number if it was there,
\* else the latest postings.
SearchRead(k) ==
    /\ query.term = {k} /\ query.read = {} /\ resident[k] = {}
    /\ query' = [query EXCEPT !.read = IF query.seq # {} THEN query.seq ELSE {Scan(k)}]
    /\ UNCHANGED <<storage, memory, txns, crashes, raced, skewed>>

\* The list is put into the cache, for every later search and transaction.
SearchInsert(k) ==
    /\ query.term = {k} /\ query.read # {}
    /\ resident' = [resident EXCEPT ![k] = query.read]
    /\ raced' = IF query.read = {Stored(k)} /\ \A t \in Txs : AtWork(t) => k \notin Touched(t)
                THEN raced ELSE raced \union {k}
    /\ query' = NoQuery
    /\ UNCHANGED <<storage, total_docs, txns, crashes, skewed>>

\* The list is in the cache.
SearchEnd(k) ==
    /\ query.term = {k} /\ query.read = {} /\ resident[k] # {}
    /\ query' = NoQuery
    /\ UNCHANGED <<storage, memory, txns, crashes, raced, skewed>>

-----------------------------------------------------------------------------
\* The process ends; load_stats when the collection opens.
Crash ==
    /\ crashes < MAX_CRASHES
    /\ crashes' = crashes + 1
    /\ resident' = NoLists
    /\ total_docs' = meta
    /\ pc' = [t \in Txs |-> IF pc[t] = "idle" THEN "idle" ELSE "done"]
    /\ op' = [t \in Txs |-> NoOp]
    /\ todo' = [t \in Txs |-> {}] /\ at' = [t \in Txs |-> {}] /\ read' = [t \in Txs |-> {}]
    /\ staged_doc' = [t \in Txs |-> {}] /\ staged_plb' = [t \in Txs |-> NoLists]
    /\ put_pl' = [t \in Txs |-> {}] /\ delete_pl' = [t \in Txs |-> {}]
    /\ put_tbs' = [t \in Txs |-> {}] /\ delete_tbs' = [t \in Txs |-> {}]
    /\ staged_stats' = [t \in Txs |-> 0]
    /\ query' = NoQuery
    /\ skewed' = (skewed \/ \E t \in Txs : pc[t] \in {"committed", "meta"})
    /\ UNCHANGED <<storage, raced>>

TxStep(t) ==
    \/ \E d \in Docs :
         \/ "delete" \in Environment /\ Begin(t, d, {}, TRUE)
         \/ \E new \in Texts : \/ "update" \in Environment /\ Begin(t, d, {new}, TRUE)
                               \/ "upsert" \in Environment /\ Begin(t, d, {new}, FALSE)
         \/ DeleteStart(t, d) \/ UpsertStart(t, d)
    \/ "resolve" \in Environment /\ ResolveStart(t)
    \/ \E d \in Docs, k \in Terms :
         \/ ResolveLive(t, d, k) \/ ensure_term_loaded(t, d, k) \/ InsertList(t, d, k)
         \/ StagePosting(t, d, k)
    \/ OpDone(t) \/ StorageCommit(t) \/ commit_stats(t) \/ MetaCommit(t)
    \/ "rollback" \in Environment /\ Rollback(t)
    \/ LateRollback(t)

Search == \E k \in Terms : SearchBegin(k) \/ SearchRead(k) \/ SearchInsert(k) \/ SearchEnd(k)

Next == \/ \E t \in Txs : TxStep(t)
        \/ "search" \in Environment /\ Search
        \/ Crash

Spec == Init /\ [][Next]_vars

-----------------------------------------------------------------------------
(* Properties                                                              *)

TypeOK ==
    /\ doc \in [Docs -> Option(Texts)]
    /\ pl \subseteq Pairs /\ tbs \subseteq Pairs
    /\ plb \in [Terms -> Option(SUBSET Docs)] /\ resident \in [Terms -> Option(SUBSET Docs)]
    /\ meta \in 0..Modulus - 1 /\ total_docs \in 0..Modulus - 1
    /\ pc \in [Txs -> Places] /\ op \in [Txs -> Ops]
    /\ todo \in [Txs -> SUBSET Pairs]
    /\ at \in [Txs -> Option(Pairs)] /\ read \in [Txs -> Option(SUBSET Docs)]
    /\ staged_doc \in [Txs -> Option(Option(Texts))]
    /\ staged_plb \in [Txs -> [Terms -> Option(Option(SUBSET Docs))]]
    /\ put_pl \in [Txs -> SUBSET Pairs] /\ delete_pl \in [Txs -> SUBSET Pairs]
    /\ put_tbs \in [Txs -> SUBSET Pairs] /\ delete_tbs \in [Txs -> SUBSET Pairs]
    /\ staged_stats \in [Txs -> Int]
    /\ \A t \in Txs : pc[t] = "meta" => staged_stats[t] \in 0..Modulus - 1
    /\ query \in Queries
    /\ crashes \in 0..MAX_CRASHES /\ raced \subseteq Terms /\ skewed \in BOOLEAN

\* The postings of term k that a search sees: those in the cache, if they are there.
List(k) == IF resident[k] # {} THEN Get(resident[k]) ELSE Stored(k)

\* block_max_wand_search of the latest state: a document is a hit unless a tombstone
\* hides it.  Only a search at a sequence number looks whether it is there at all.
Hit(d, k) == d \in List(k) /\ <<d, k>> \notin tbs

\* A committed document is in the list of each of its terms, now and after a restart,
\* unless a tombstone is left or the list was used by two at a time.
PostingsKept ==
    \A d \in Docs, k \in Terms \ raced :
      Has(d, k) => /\ d \in Stored(k)
                   /\ ~Busy(d) /\ <<d, k>> \notin tbs => Hit(d, k)

\* A search finds a document only under the terms of its committed text; a deleted
\* document it does not find at all, though it does not ask whether it is there.
NoGhost ==
    \A d \in Docs, k \in Terms \ raced : ~Busy(d) /\ Hit(d, k) => Has(d, k)

\* The documents in the index, and the transactions that the storage engine has
\* committed and that have yet to count n documents.
Present == {d \in Docs : doc[d] # {}}
Uncounted(n) == {t \in Txs : pc[t] = "committed" /\ staged_stats[t] = n}

\* The number of documents: what is counted, and what will be when these are done.
Counted == (total_docs + Cardinality(Uncounted(1)) - Cardinality(Uncounted(-1))) % Modulus

\* total_docs is the number of documents in the index, as far as its width goes, and so
\* is the stored number when no transaction is about to write it.
StatsExact ==
    ~skewed => /\ Counted = Cardinality(Present) % Modulus
               /\ (\A t \in Txs : pc[t] # "meta") => meta = total_docs

\* "maintaining full BM25 correctness" (tests/tombstone_update.rs): when no transaction
\* is at work, a search finds every document under each term of its text.
FullyFound ==
    (\A t \in Txs : pc[t] \in {"idle", "done"}) =>
      \A d \in Docs, k \in Terms : Has(d, k) => Hit(d, k)

-----------------------------------------------------------------------------
(* Inductive invariant.                                                    *)

\* A transaction that is not at work holds nothing.
Released(t) ==
    ~AtWork(t) => /\ op[t] = NoOp /\ todo[t] = {} /\ at[t] = {} /\ staged_doc[t] = {}
                  /\ staged_plb[t] = NoLists
                  /\ put_pl[t] = {} /\ delete_pl[t] = {}
                  /\ put_tbs[t] = {} /\ delete_tbs[t] = {}

\* Document d has term k once t has committed.
WillHave(t, d, k) == LET new == Written(doc[d], staged_doc[t]) IN new # {} /\ k \in Get(new)

\* A transaction that deletes or upserts document d stages pairs of d alone: in the end a
\* posting for each term of the new text, and a tombstone for each term of the old one.
Writes(t, d) ==
    /\ put_pl[t] \union delete_pl[t] \union put_tbs[t] \union todo[t] \union at[t]
         \subseteq {d} \X Terms
    /\ delete_tbs[t] = {}
    /\ pc[t] # "resolving"
    /\ pc[t] \in {"upsert", "upserting"} => op[t].text # {}
    /\ pc[t] = "delete" => staged_doc[t] = {}
    /\ pc[t] \in {"delete", "deleting", "upsert"} => put_pl[t] = {}
    /\ pc[t] = "deleting" => staged_doc[t] = {{}}
    /\ pc[t] = "upserting" => staged_doc[t] = {op[t].text}
    /\ \A k \in Terms :
         /\ pc[t] = "deleting" /\ Has(d, k) => <<d, k>> \in todo[t] \union put_tbs[t]
         /\ pc[t] \in {"upserting", "staged"} /\ Has(d, k) => <<d, k>> \in put_tbs[t]
         /\ pc[t] = "upserting" =>
              (k \in Get(op[t].text) <=> <<d, k>> \in put_pl[t] \union todo[t])
         /\ pc[t] = "staged" => (WillHave(t, d, k) <=> <<d, k>> \in put_pl[t])

\* A transaction without a document resolves tombstones: it removes the postings of
\* documents that do not have the term, and the tombstones of those that do.
Resolves(t) ==
    /\ pc[t] \in {"resolving", "staged"}
    /\ staged_doc[t] = {} /\ put_pl[t] = {} /\ put_tbs[t] = {}
    /\ \A d \in Docs, k \in Terms \ raced :
         /\ <<d, k>> \in delete_pl[t] \union at[t] => ~Has(d, k)
         /\ <<d, k>> \in delete_tbs[t] \ delete_pl[t] => Has(d, k)

Work(t) ==
    /\ \A d \in Docs : op[t].doc = {d} => Writes(t, d)
    /\ AtWork(t) /\ op[t].doc = {} => Resolves(t)
    /\ at[t] \subseteq todo[t]
    /\ pc[t] \in {"delete", "upsert", "staged"} => todo[t] = {}
    /\ \A k \in Terms : staged_plb[t][k] # {}
                          <=> \E d \in Docs : <<d, k>> \in put_pl[t] \union delete_pl[t]

\* No document has two writers, and no term that has not raced two users.
Exclusive ==
    \A t, u \in Txs : t # u => /\ op[t].doc \intersect op[u].doc = {}
                               /\ Touched(t) \intersect Touched(u) \subseteq raced

\* What is stored for term k: the whole list is that of the postings; a document that
\* has the term has a posting, and one that does not is hidden by a tombstone.
StoredInv(k) ==
    /\ plb[k] # {} => Get(plb[k]) = Scan(k)
    /\ \A d \in Docs : /\ Has(d, k) => d \in Scan(k)
                       /\ d \in Scan(k) /\ <<d, k>> \notin tbs => Has(d, k)

\* The postings of k as t has left them.
View(t, k) == {d \in Docs : \/ <<d, k>> \in put_pl[t]
                            \/ d \in Scan(k) /\ <<d, k>> \notin delete_pl[t]}

\* A list that t works on, at document d.
Loaded(list, t, d, k) == /\ list \ {d} = View(t, k) \ {d}
                         /\ list \subseteq View(t, k) \union Scan(k)

\* The cached list of a term that t has touched.
UserCache(t, k) ==
    /\ \A d \in Docs : <<d, k>> \in at[t] =>
         IF read[t] # {} THEN resident[k] = {} /\ Loaded(Get(read[t]), t, d, k)
                         ELSE resident[k] # {} /\ Loaded(Get(resident[k]), t, d, k)
    /\ (\A d \in Docs : <<d, k>> \notin at[t]) =>
         IF staged_plb[t][k] = {}
         THEN resident[k] # {} => Get(resident[k]) = Scan(k)
         ELSE /\ staged_plb[t][k] = {resident[k]}
              /\ resident[k] = IF View(t, k) = {} THEN {} ELSE {View(t, k)}

CacheInv(k) ==
    /\ \A t \in Txs : k \in Touched(t) => UserCache(t, k)
    /\ (\A t \in Txs : k \notin Touched(t)) => (resident[k] # {} => Get(resident[k]) = Scan(k))

TextInv ==
    /\ \A t \in Txs : Released(t) /\ Work(t)
    /\ Exclusive
    /\ \A k \in Terms \ raced : StoredInv(k) /\ CacheInv(k)

\* What t counts: whether its document is there once it has committed, less whether it
\* is there now.
Counts(t, d) ==
    /\ pc[t] = "deleting" => doc[d] # {} /\ staged_stats[t] = -1
    /\ pc[t] = "upsert" => staged_stats[t] \in {-1, 0}
    /\ pc[t] = "upserting" => staged_stats[t] = IF doc[d] = {} THEN 1 ELSE 0
    /\ pc[t] = "staged" =>
         staged_stats[t] = CASE doc[d] = {} /\ Written(doc[d], staged_doc[t]) # {} -> 1
                             [] doc[d] # {} /\ Written(doc[d], staged_doc[t]) = {} -> -1
                             [] OTHER -> 0

StatsOf(t) ==
    /\ pc[t] \in {"idle", "delete", "resolving", "done"} => staged_stats[t] = 0
    /\ pc[t] = "staged" /\ op[t].doc = {} => staged_stats[t] = 0
    /\ \A d \in Docs : op[t].doc = {d} => Counts(t, d)
    /\ pc[t] = "committed" => staged_stats[t] \in {-1, 0, 1}
    /\ pc[t] = "meta" => staged_stats[t] = total_docs

\* Only finitely many documents and transactions have come so far, and one transaction
\* at a time is about to write the number.
StatsInv ==
    /\ IsFiniteSet(Present) /\ IsFiniteSet({t \in Txs : pc[t] = "committed"})
    /\ ~skewed => /\ \A t \in Txs : StatsOf(t)
                  /\ \A t, u \in Txs : pc[t] = "meta" /\ pc[u] = "meta" => t = u
    /\ StatsExact
=============================================================================
