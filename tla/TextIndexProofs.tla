-------------------------- MODULE TextIndexProofs --------------------------
(***************************************************************************)
(* Proofs about TextIndex, for any documents, terms, transactions, failures  *)
(* and number of crashes: its inductive invariant, its types, that lists used *)
(* by one transaction at a time lose no posting and show no stale one, and    *)
(* that the number of documents is exact until something skews it.            *)
(***************************************************************************)
EXTENDS TextIndex, NatSetLemmas

USE DEF storage, memory, txns, staged, Pairs, Texts, Staging, AtWork, Places, Ops,
        Queries

(* The value of a key that is there. *)
LEMMA GetIs == \A x : Get({x}) = x
  BY DEF Get

(* An option is empty or holds one value, which Get returns. *)
LEMMA OptionIs ==
    ASSUME NEW S, NEW o \in Option(S)
    PROVE  o # {} => Get(o) \in S /\ o = {Get(o)}
  BY DEF Get, Option

(* The options of a set. *)
LEMMA OptionHas ==
    ASSUME NEW S
    PROVE  {} \in Option(S) /\ \A x \in S : {x} \in Option(S)
  BY DEF Option

(* An absent key is an option of every type. *)
LEMMA NoneIs ==
    /\ {} \in Option(Docs) /\ {} \in Option(Texts) /\ {} \in Option(Terms)
    /\ {} \in Option(Pairs) /\ {} \in Option(SUBSET Docs)
    /\ {} \in Option(Option(Texts)) /\ {} \in Option(Option(SUBSET Docs))
  BY OptionHas

(* The lists of the storage engine and of the cache hold documents. *)
LEMMA ListTypes ==
    ASSUME TypeOK, NEW k \in Terms
    PROVE  /\ Scan(k) \subseteq Docs /\ Stored(k) \subseteq Docs
           /\ \A d \in Docs : /\ With(resident[k], d) \in Option(SUBSET Docs)
                              /\ Without(resident[k], d) \in Option(SUBSET Docs)
<1>1. plb[k] \in Option(SUBSET Docs) /\ resident[k] \in Option(SUBSET Docs)
  BY DEF TypeOK
<1>2. Scan(k) \subseteq Docs
  BY DEF Scan
<1>3. Stored(k) \subseteq Docs
  BY <1>1, <1>2, OptionIs DEF Stored
<1>4. ASSUME NEW d \in Docs
      PROVE /\ With(resident[k], d) \in Option(SUBSET Docs)
            /\ Without(resident[k], d) \in Option(SUBSET Docs)
  <2>1. resident[k] # {} => Get(resident[k]) \in SUBSET Docs
    BY <1>1, OptionIs
  <2>2. QED
    BY <2>1, OptionHas DEF With, Without
<1>5. QED
  BY <1>2, <1>3, <1>4

(* A write of a type leaves a value of it. *)
LEMMA WrittenType ==
    ASSUME NEW S, NEW o \in Option(S), NEW w \in Option(Option(S))
    PROVE  Written(o, w) \in Option(S)
  BY OptionIs DEF Written

(* Nothing that t has staged is left, with its types. *)
LEMMA UnstageTypes ==
    ASSUME TypeOK, NEW t \in Txs, Unstage(t)
    PROVE  /\ staged_doc' \in [Txs -> Option(Option(Texts))]
           /\ staged_plb' \in [Txs -> [Terms -> Option(Option(SUBSET Docs))]]
           /\ put_pl' \in [Txs -> SUBSET Pairs] /\ delete_pl' \in [Txs -> SUBSET Pairs]
           /\ put_tbs' \in [Txs -> SUBSET Pairs] /\ delete_tbs' \in [Txs -> SUBSET Pairs]
<1>1. NoLists \in [Terms -> Option(Option(SUBSET Docs))]
  BY OptionHas DEF NoLists
<1>2. QED
  BY <1>1, OptionHas DEF Unstage, TypeOK

(* rollback_stats keeps the types. *)
LEMMA DropCacheTypes ==
    ASSUME TypeOK, NEW t \in Txs, DropCache(t), UNCHANGED <<storage, total_docs, query, crashes>>,
           skewed' \in BOOLEAN
    PROVE  TypeOK'
<1>1. NoLists \in [Terms -> Option(SUBSET Docs)] /\ NoOp \in Ops
  BY OptionHas DEF NoLists, NoOp
<1>2. resident' \in [Terms -> Option(SUBSET Docs)] /\ op' \in [Txs -> Ops]
  BY <1>1 DEF DropCache, TypeOK
<1>3. /\ todo' \in [Txs -> SUBSET Pairs] /\ raced' \subseteq Terms /\ staged_stats' \in [Txs -> Int]
      /\ at' \in [Txs -> Option(Pairs)] /\ read' \in [Txs -> Option(SUBSET Docs)]
  <2>1. at' \in [Txs -> Option(Pairs)]
    BY NoneIs DEF DropCache, TypeOK
  <2>2. read' \in [Txs -> Option(SUBSET Docs)]
    BY NoneIs DEF DropCache, TypeOK
  <2>3. staged_stats' \in [Txs -> Int] /\ todo' \in [Txs -> SUBSET Pairs]
    BY DEF DropCache, TypeOK
  <2>4. raced' \subseteq Terms
    BY DEF DropCache, TypeOK
  <2>5. QED
    BY <2>1, <2>2, <2>3, <2>4
<1>4. pc' \in [Txs -> Places]
  BY DEF DropCache, TypeOK
<1>5. \A u \in Txs : pc'[u] = "meta" => staged_stats'[u] \in 0..Modulus - 1
  BY DEF DropCache, TypeOK
<1>6. Unstage(t)
  BY DEF DropCache
<1>7. QED
  BY <1>2, <1>3, <1>4, <1>5, <1>6, UnstageTypes DEF TypeOK

(* commit_stats: the counter stays below its modulus. *)
LEMMA Remainder ==
    ASSUME NEW a \in Int
    PROVE  a % Modulus \in 0..Modulus - 1
<1>1. Modulus \in Nat \ {0}
  BY TextAssumption
<1>2. QED
  BY <1>1

(* The document of a transaction is the only one it writes. *)
LEMMA Writer ==
    ASSUME TypeOK, TextInv, NEW t \in Txs, NEW d \in Docs, d \in op[t].doc
    PROVE  op[t].doc = {d} /\ AtWork(t) /\ Writes(t, d)
<1>1. op[t].doc = {d}
  <2>1. op[t].doc \in Option(Docs)
    BY DEF TypeOK
  <2>2. QED
    BY <2>1, OptionIs
<1>2. AtWork(t)
  BY <1>1 DEF TextInv, Released, NoOp
<1>3. QED
  BY <1>1, <1>2 DEF TextInv, Work

(* A transaction that upserts has a text. *)
LEMMA WriterText ==
    ASSUME TypeOK, TextInv, NEW t \in Txs, NEW d \in Docs, d \in op[t].doc,
           pc[t] \in {"upsert", "upserting"}
    PROVE  op[t].text # {} /\ Get(op[t].text) \in Texts /\ op[t].text = {Get(op[t].text)}
<1>1. op[t].text # {}
  BY Writer DEF Writes
<1>2. op[t].text \in Option(Texts)
  BY DEF TypeOK
<1>3. QED
  BY <1>1, <1>2, OptionIs

(* The index of a new collection has the types. *)
LEMMA TypeOKInit == Init => TypeOK
<1> SUFFICES ASSUME Init PROVE TypeOK
  OBVIOUS
<1>0. Modulus \in Nat \ {0} /\ MAX_CRASHES \in Nat
  BY TextAssumption
<1>1. /\ NoLists \in [Terms -> Option(SUBSET Docs)]
      /\ NoOp \in Ops
      /\ NoQuery \in Queries
      /\ NoLists \in [Terms -> Option(Option(SUBSET Docs))]
  BY NoneIs DEF NoLists, NoOp, NoQuery
<1>2. /\ doc \in [Docs -> Option(Texts)] /\ staged_doc \in [Txs -> Option(Option(Texts))]
      /\ at \in [Txs -> Option(Pairs)] /\ read \in [Txs -> Option(SUBSET Docs)]
  BY NoneIs DEF Init
<1>3. QED
  <2>1. /\ resident \in [Terms -> Option(SUBSET Docs)] /\ plb \in [Terms -> Option(SUBSET Docs)]
        /\ op \in [Txs -> Ops]
        /\ staged_plb \in [Txs -> [Terms -> Option(Option(SUBSET Docs))]]
        /\ query \in Queries
    BY <1>1 DEF Init
  <2>2. /\ pc \in [Txs -> Places]
        /\ \A t \in Txs : pc[t] # "meta"
        /\ staged_stats \in [Txs -> Int] /\ todo \in [Txs -> SUBSET Pairs]
    BY DEF Init
  <2>3. /\ put_pl \in [Txs -> SUBSET Pairs] /\ delete_pl \in [Txs -> SUBSET Pairs]
        /\ put_tbs \in [Txs -> SUBSET Pairs] /\ delete_tbs \in [Txs -> SUBSET Pairs]
        /\ pl = {} /\ tbs = {} /\ raced = {} /\ skewed = FALSE
    BY DEF Init
  <2>4. meta \in 0..Modulus - 1 /\ total_docs \in 0..Modulus - 1 /\ crashes \in 0..MAX_CRASHES
    BY <1>0 DEF Init
  <2>5. QED
    BY <1>2, <2>1, <2>2, <2>3, <2>4 DEF TypeOK

(* Every step keeps the types. *)
LEMMA TypeOKStep ==
    ASSUME TypeOK, TextInv, [Next]_vars
    PROVE  TypeOK'
<1>0. CASE UNCHANGED vars
  BY <1>0 DEF vars, TypeOK
<1>1. ASSUME NEW t \in Txs, NEW d \in Docs, NEW text \in Option(Texts), NEW b \in BOOLEAN,
             Begin(t, d, text, b)
      PROVE TypeOK'
  <2>1. {d} \in Option(Docs)
    BY OptionHas
  <2>2. op' \in [Txs -> Ops]
    BY <1>1, <2>1 DEF Begin, TypeOK
  <2>3. pc' \in [Txs -> Places]
    BY <1>1 DEF Begin, TypeOK
  <2>4. \A u \in Txs : pc'[u] = "meta" => pc[u] = "meta"
    BY <1>1 DEF Begin, TypeOK
  <2>5. QED
    BY <1>1, <2>2, <2>3, <2>4 DEF Begin, TypeOK
<1>2. ASSUME NEW t \in Txs, NEW d \in Docs, DeleteStart(t, d) PROVE TypeOK'
  <2>1. doc[d] # {} => {d} \X Get(doc[d]) \subseteq Pairs
    <3>1. doc[d] \in Option(Texts)
      BY DEF TypeOK
    <3>2. QED
      BY <3>1, OptionIs
  <2>2. {{}} \in Option(Option(Texts))
    BY OptionHas
  <2>3. /\ todo' \in [Txs -> SUBSET Pairs] /\ staged_doc' \in [Txs -> Option(Option(Texts))]
        /\ staged_stats' \in [Txs -> Int]
        /\ pc' \in [Txs -> Places]
    <3>1. CASE doc[d] = {}
      BY <1>2, <3>1 DEF DeleteStart, TypeOK
    <3>2. CASE doc[d] # {}
      <4>1. /\ todo' = [todo EXCEPT ![t] = {d} \X Get(doc[d])]
            /\ staged_doc' = [staged_doc EXCEPT ![t] = {{}}]
        BY <1>2, <3>2 DEF DeleteStart
      <4>2. todo' \in [Txs -> SUBSET Pairs] /\ staged_doc' \in [Txs -> Option(Option(Texts))]
        BY <2>1, <2>2, <3>2, <4>1 DEF TypeOK
      <4>3. /\ staged_stats' = [staged_stats EXCEPT ![t] = @ - 1]
            /\ pc' = [pc EXCEPT ![t] = "deleting"]
            /\ staged_stats \in [Txs -> Int]
            /\ pc \in [Txs -> Places]
        BY <1>2, <3>2 DEF DeleteStart, TypeOK
      <4>4. staged_stats' \in [Txs -> Int]
        BY <4>3
      <4>5. pc' \in [Txs -> Places]
        BY <4>3
      <4>6. QED
        BY <4>2, <4>4, <4>5
    <3>3. QED
      BY <3>1, <3>2
  <2>4. \A u \in Txs : pc'[u] = "meta" => staged_stats'[u] \in 0..Modulus - 1
    BY <1>2 DEF DeleteStart, TypeOK
  <2>5. QED
    BY <1>2, <2>3, <2>4 DEF DeleteStart, TypeOK
<1>3. ASSUME NEW t \in Txs, NEW d \in Docs, UpsertStart(t, d) PROVE TypeOK'
  <2> DEFINE new == Get(op[t].text)
             old == IF doc[d] = {} THEN {} ELSE Get(doc[d])
  <2>1. new \in Texts /\ old \in Texts
    <3>1. op[t].text \in Option(Texts) /\ doc[d] \in Option(Texts) /\ op[t].text # {}
      BY <1>3, WriterText DEF TypeOK, UpsertStart
    <3>2. QED
      BY <3>1, OptionIs
  <2>2. /\ {{new}} \in Option(Option(Texts)) /\ {d} \X new \subseteq Pairs
        /\ {d} \X old \subseteq Pairs
    BY <2>1, OptionHas
  <2>3. /\ staged_doc' = [staged_doc EXCEPT ![t] = {{new}}]
        /\ put_tbs' = [put_tbs EXCEPT ![t] = @ \union ({d} \X old)]
        /\ todo' = [todo EXCEPT ![t] = {d} \X new]
        /\ staged_stats' = [staged_stats EXCEPT ![t] = IF doc[d] = {} THEN @ + 1 ELSE @]
        /\ raced' = raced \union {k \in old : InUse(t, k)}
        /\ skewed' \in BOOLEAN /\ pc' = [pc EXCEPT ![t] = "upserting"]
    BY <1>3 DEF UpsertStart, TypeOK
  <2> HIDE DEF new, old
  <2>4. /\ staged_doc' \in [Txs -> Option(Option(Texts))] /\ put_tbs' \in [Txs -> SUBSET Pairs]
        /\ todo' \in [Txs -> SUBSET Pairs] /\ raced' \subseteq Terms
    BY <2>1, <2>2, <2>3 DEF TypeOK
  <2>5. /\ staged_stats' \in [Txs -> Int]
        /\ pc' \in [Txs -> Places]
        /\ \A u \in Txs : pc'[u] = "meta" => staged_stats'[u] \in 0..Modulus - 1
    BY <2>3 DEF TypeOK
  <2>6. QED
    BY <1>3, <2>3, <2>4, <2>5 DEF UpsertStart, TypeOK
<1>4. ASSUME NEW t \in Txs, ResolveStart(t) PROVE TypeOK'
  BY <1>4 DEF ResolveStart, TypeOK
<1>5. ASSUME NEW t \in Txs, NEW d \in Docs, NEW k \in Terms, ResolveLive(t, d, k) PROVE TypeOK'
  <2>1. todo' \in [Txs -> SUBSET Pairs] /\ delete_tbs' \in [Txs -> SUBSET Pairs]
    BY <1>5 DEF ResolveLive, TypeOK
  <2>2. raced' \subseteq Terms
    BY <1>5 DEF ResolveLive, TypeOK
  <2>3. QED
    BY <1>5, <2>1, <2>2 DEF ResolveLive, TypeOK
<1>6. ASSUME NEW t \in Txs, NEW d \in Docs, NEW k \in Terms, ensure_term_loaded(t, d, k)
      PROVE TypeOK'
  <2>1. {<<d, k>>} \in Option(Pairs) /\ {Stored(k)} \in Option(SUBSET Docs)
    BY OptionHas, ListTypes
  <2>2. at' \in [Txs -> Option(Pairs)] /\ read' \in [Txs -> Option(SUBSET Docs)]
    BY <1>6, <2>1, NoneIs DEF ensure_term_loaded, TypeOK
  <2>3. QED
    BY <1>6, <2>2 DEF ensure_term_loaded, TypeOK
<1>7. ASSUME NEW t \in Txs, NEW d \in Docs, NEW k \in Terms, InsertList(t, d, k) PROVE TypeOK'
  <2>1. resident' \in [Terms -> Option(SUBSET Docs)] /\ read' \in [Txs -> Option(SUBSET Docs)]
    BY <1>7, NoneIs DEF InsertList, TypeOK
  <2>2. QED
    BY <1>7, <2>1 DEF InsertList, TypeOK
<1>8. ASSUME NEW t \in Txs, NEW d \in Docs, NEW k \in Terms, StagePosting(t, d, k)
      PROVE TypeOK'
  <2> DEFINE list == IF pc[t] = "upserting" THEN With(resident[k], d) ELSE Without(resident[k], d)
  <2>1. list \in Option(SUBSET Docs) /\ {list} \in Option(Option(SUBSET Docs))
    BY ListTypes, OptionHas
  <2>2. /\ resident' = [resident EXCEPT ![k] = list]
        /\ staged_plb' = [staged_plb EXCEPT ![t][k] = {list}]
    BY <1>8 DEF StagePosting
  <2> HIDE DEF list
  <2>3. resident' \in [Terms -> Option(SUBSET Docs)]
    BY <2>1, <2>2 DEF TypeOK
  <2>4. staged_plb' \in [Txs -> [Terms -> Option(Option(SUBSET Docs))]]
    BY <2>1, <2>2 DEF TypeOK
  <2>5. /\ put_pl' \in [Txs -> SUBSET Pairs] /\ delete_pl' \in [Txs -> SUBSET Pairs]
        /\ put_tbs' \in [Txs -> SUBSET Pairs] /\ delete_tbs' \in [Txs -> SUBSET Pairs]
        /\ todo' \in [Txs -> SUBSET Pairs]
    BY <1>8 DEF StagePosting, Set, TypeOK
  <2>6. at' \in [Txs -> Option(Pairs)]
    BY <1>8, NoneIs DEF StagePosting, TypeOK
  <2>7. QED
    BY <1>8, <2>3, <2>4, <2>5, <2>6 DEF StagePosting, TypeOK
<1>9. ASSUME NEW t \in Txs, OpDone(t) PROVE TypeOK'
  BY <1>9 DEF OpDone, TypeOK
<1>10. ASSUME NEW t \in Txs, StorageCommit(t) PROVE TypeOK'
  <2>1. doc' \in [Docs -> Option(Texts)]
    <3>1. \A d \in Docs : Written(doc[d], staged_doc[t]) \in Option(Texts)
      BY WrittenType DEF TypeOK
    <3>2. QED
      BY <1>10, <3>1 DEF StorageCommit, TypeOK
  <2>2. plb' \in [Terms -> Option(SUBSET Docs)]
    <3>1. ASSUME NEW k \in Terms
          PROVE  Written(plb[k], staged_plb[t][k]) \in Option(SUBSET Docs)
      <4>1. plb[k] \in Option(SUBSET Docs) /\ staged_plb[t][k] \in Option(Option(SUBSET Docs))
        <5>1. /\ plb \in [Terms -> Option(SUBSET Docs)]
              /\ staged_plb \in [Txs -> [Terms -> Option(Option(SUBSET Docs))]]
          BY DEF TypeOK
        <5>2. staged_plb[t] \in [Terms -> Option(Option(SUBSET Docs))]
          BY <5>1
        <5>3. QED
          BY <5>1, <5>2
      <4>2. QED
        BY <4>1, WrittenType
    <3>2. QED
      BY <1>10, <3>1 DEF StorageCommit
  <2>3. NoOp \in Ops
    BY NoneIs DEF NoOp
  <2>4. /\ pl' \subseteq Pairs /\ tbs' \subseteq Pairs
        /\ op' \in [Txs -> Ops]
        /\ pc' \in [Txs -> Places]
        /\ \A u \in Txs : pc'[u] = "meta" => pc[u] = "meta"
    BY <1>10, <2>3 DEF StorageCommit, TypeOK
  <2>5. /\ Unstage(t)
        /\ UNCHANGED <<meta, memory, todo, at, read, staged_stats, query, crashes, raced, skewed>>
    BY <1>10 DEF StorageCommit
  <2>6. QED
    BY <2>1, <2>2, <2>4, <2>5, UnstageTypes DEF TypeOK
<1>11. ASSUME NEW t \in Txs, commit_stats(t) PROVE TypeOK'
  <2>1. total_docs' \in 0..Modulus - 1
    BY <1>11, Remainder, TextAssumption DEF commit_stats, TypeOK
  <2>2. staged_stats' \in [Txs -> Int]
    BY <1>11, <2>1, TextAssumption DEF commit_stats, TypeOK
  <2>3. QED
    BY <1>11, <2>1, <2>2 DEF commit_stats, TypeOK
<1>12. ASSUME NEW t \in Txs, MetaCommit(t) PROVE TypeOK'
  <2>1. meta' \in 0..Modulus - 1
    BY <1>12 DEF MetaCommit, TypeOK
  <2>2. staged_stats' \in [Txs -> Int] /\ \A u \in Txs : pc'[u] = "meta" => u # t /\ pc[u] = "meta"
    BY <1>12 DEF MetaCommit, TypeOK
  <2>3. \A u \in Txs : pc'[u] = "meta" => staged_stats'[u] \in 0..Modulus - 1
    BY <1>12, <2>2 DEF MetaCommit, TypeOK
  <2>4. pc' \in [Txs -> Places]
    BY <1>12 DEF MetaCommit, TypeOK
  <2>5. QED
    BY <1>12, <2>1, <2>2, <2>3, <2>4 DEF MetaCommit, TypeOK
<1>13. ASSUME NEW t \in Txs, Rollback(t) PROVE TypeOK'
  BY <1>13, DropCacheTypes DEF Rollback, TypeOK
<1>14. ASSUME NEW t \in Txs, LateRollback(t) PROVE TypeOK'
  BY <1>14, DropCacheTypes DEF LateRollback
<1>15. ASSUME NEW k \in Terms, SearchBegin(k) PROVE TypeOK'
  <2>1. query' \in Queries
    BY <1>15, NoneIs, OptionHas DEF SearchBegin, TypeOK
  <2>2. QED
    BY <1>15, <2>1 DEF SearchBegin, TypeOK
<1>16. ASSUME NEW k \in Terms, SearchRead(k) PROVE TypeOK'
  <2>1. {Scan(k)} \in Option(SUBSET Docs)
    BY OptionHas, ListTypes
  <2>2. query' \in Queries
    BY <1>16, <2>1 DEF SearchRead, TypeOK
  <2>3. QED
    BY <1>16, <2>2 DEF SearchRead, TypeOK
<1>17. ASSUME NEW k \in Terms, SearchInsert(k) \/ SearchEnd(k) PROVE TypeOK'
  <2>1. NoQuery \in Queries
    BY NoneIs DEF NoQuery
  <2>2. QED
    BY <1>17, <2>1 DEF SearchInsert, SearchEnd, TypeOK
<1>18. CASE Crash
  <2>0. Modulus \in Nat \ {0} /\ MAX_CRASHES \in Nat
    BY TextAssumption
  <2>1. /\ NoLists \in [Terms -> Option(SUBSET Docs)]
        /\ NoOp \in Ops
        /\ NoQuery \in Queries
        /\ NoLists \in [Terms -> Option(Option(SUBSET Docs))]
    BY NoneIs DEF NoLists, NoOp, NoQuery
  <2>2. /\ staged_doc' \in [Txs -> Option(Option(Texts))]
        /\ at' \in [Txs -> Option(Pairs)] /\ read' \in [Txs -> Option(SUBSET Docs)]
    BY <1>18, NoneIs DEF Crash
  <2>3. QED
    <3>1. /\ resident' \in [Terms -> Option(SUBSET Docs)]
          /\ op' \in [Txs -> Ops]
          /\ staged_plb' \in [Txs -> [Terms -> Option(Option(SUBSET Docs))]]
          /\ query' \in Queries
      BY <1>18, <2>1 DEF Crash
    <3>2. /\ pc' \in [Txs -> Places]
          /\ \A t \in Txs : pc'[t] # "meta"
      BY <1>18 DEF Crash
    <3>3. /\ put_pl' \in [Txs -> SUBSET Pairs] /\ delete_pl' \in [Txs -> SUBSET Pairs]
          /\ put_tbs' \in [Txs -> SUBSET Pairs] /\ delete_tbs' \in [Txs -> SUBSET Pairs]
          /\ todo' \in [Txs -> SUBSET Pairs] /\ staged_stats' \in [Txs -> Int]
      BY <1>18 DEF Crash
    <3>4. /\ crashes' \in 0..MAX_CRASHES /\ total_docs' = meta
          /\ UNCHANGED <<storage, raced>> /\ skewed' \in BOOLEAN
      BY <1>18, <2>0 DEF Crash, TypeOK
    <3>5. QED
      BY <2>2, <3>1, <3>2, <3>3, <3>4 DEF TypeOK
<1>19. \A text \in Texts : {text} \in Option(Texts)
  BY OptionHas
<1>20. ASSUME NEW t \in Txs, TxStep(t) PROVE TypeOK'
  BY <1>1, <1>2, <1>3, <1>4, <1>5, <1>6, <1>7, <1>8, <1>9, <1>10, <1>11, <1>12, <1>13, <1>14,
     <1>19, <1>20, NoneIs DEF TxStep
<1>21. QED
  BY <1>0, <1>15, <1>16, <1>17, <1>18, <1>20 DEF Next, Search

(* The step leaves u's operation and writes as they are. *)
Kept(u) ==
    /\ pc'[u] = pc[u] /\ op'[u] = op[u] /\ todo'[u] = todo[u] /\ at'[u] = at[u]
    /\ read'[u] = read[u]
    /\ staged_doc'[u] = staged_doc[u] /\ staged_plb'[u] = staged_plb[u]
    /\ put_pl'[u] = put_pl[u] /\ delete_pl'[u] = delete_pl[u]
    /\ put_tbs'[u] = put_tbs[u] /\ delete_tbs'[u] = delete_tbs[u]

(* A step of one transaction leaves the others as they are. *)
LEMMA OthersKept ==
    ASSUME TypeOK, NEW t \in Txs, TxStep(t)
    PROVE  (\A u \in Txs : u # t => Kept(u)) /\ raced \subseteq raced'
<1> DEFINE Others == (\A u \in Txs : u # t => Kept(u)) /\ raced \subseteq raced'
<1> SUFFICES Others
  OBVIOUS
<1>1. ASSUME NEW d \in Docs, NEW text, NEW b, Begin(t, d, text, b) PROVE Others
  BY <1>1 DEF Begin, Kept, TypeOK
<1>2. ASSUME NEW d \in Docs, DeleteStart(t, d) PROVE Others
  BY <1>2 DEF DeleteStart, Kept, TypeOK
<1>3. ASSUME NEW d \in Docs, UpsertStart(t, d) PROVE Others
  BY <1>3 DEF UpsertStart, Kept, TypeOK
<1>4. CASE ResolveStart(t)
  BY <1>4 DEF ResolveStart, Kept, TypeOK
<1>5. ASSUME NEW d \in Docs, NEW k \in Terms, ResolveLive(t, d, k) \/ ensure_term_loaded(t, d, k)
      PROVE  Others
  BY <1>5 DEF ResolveLive, ensure_term_loaded, Kept, TypeOK
<1>6. ASSUME NEW d \in Docs, NEW k \in Terms, InsertList(t, d, k) \/ StagePosting(t, d, k)
      PROVE  Others
  BY <1>6 DEF InsertList, StagePosting, Kept, TypeOK
<1>7. CASE OpDone(t) \/ commit_stats(t) \/ MetaCommit(t)
  BY <1>7 DEF OpDone, commit_stats, MetaCommit, Kept, TypeOK
<1>8. CASE StorageCommit(t)
  BY <1>8 DEF StorageCommit, Unstage, Kept, TypeOK
<1>9. CASE DropCache(t)
  BY <1>9 DEF DropCache, Unstage, Kept, TypeOK
<1> HIDE DEF Others
<1>10. QED
  BY <1>1, <1>2, <1>3, <1>4, <1>5, <1>6, <1>7, <1>8, <1>9 DEF TxStep, Rollback, LateRollback

(* Only the commit changes what the storage engine has of documents and lists. *)
LEMMA StorageKept ==
    ASSUME NEW t \in Txs, TxStep(t), ~StorageCommit(t)
    PROVE  UNCHANGED <<doc, pl, plb, tbs>>
<1>1. ASSUME NEW d \in Docs, NEW text, NEW b,
             Begin(t, d, text, b) \/ DeleteStart(t, d) \/ UpsertStart(t, d)
      PROVE  UNCHANGED <<doc, pl, plb, tbs>>
  BY <1>1 DEF Begin, DeleteStart, UpsertStart
<1>2. ASSUME NEW d \in Docs, NEW k \in Terms,
             \/ ResolveLive(t, d, k) \/ ensure_term_loaded(t, d, k)
             \/ InsertList(t, d, k) \/ StagePosting(t, d, k)
      PROVE  UNCHANGED <<doc, pl, plb, tbs>>
  BY <1>2 DEF ResolveLive, ensure_term_loaded, InsertList, StagePosting
<1>3. CASE ResolveStart(t) \/ OpDone(t) \/ commit_stats(t) \/ MetaCommit(t)
  BY <1>3 DEF ResolveStart, OpDone, commit_stats, MetaCommit
<1>4. CASE Rollback(t) \/ LateRollback(t)
  BY <1>4 DEF Rollback, LateRollback
<1>5. QED
  BY <1>1, <1>2, <1>3, <1>4 DEF TxStep

(* What is said of u stays true as long as its document, and what documents have of
   the terms it has touched, stay the same. *)
LEMMA WorkKept ==
    ASSUME TypeOK, TextInv, NEW u \in Txs, Kept(u), raced \subseteq raced',
           \A d \in op[u].doc : doc'[d] = doc[d],
           \A d \in Docs, k \in Terms \ raced' : k \in Touched(u) => (Has(d, k)' <=> Has(d, k))
    PROVE  Released(u)' /\ Work(u)'
<1>1. Released(u)'
  BY DEF TextInv, Released, Kept
<1>2. ASSUME NEW d \in Docs, op'[u].doc = {d} PROVE Writes(u, d)'
  <2>1. op[u].doc = {d} /\ Writes(u, d) /\ doc'[d] = doc[d]
    BY <1>2 DEF Kept, TextInv, Work
  <2>2. QED
    BY <2>1 DEF Writes, Kept, Has, WillHave
<1>3. ASSUME AtWork(u)', op'[u].doc = {} PROVE Resolves(u)'
  <2>1. Resolves(u)
    BY <1>3 DEF Kept, TextInv, Work
  <2>2. ASSUME NEW d \in Docs, NEW k \in Terms \ raced',
               <<d, k>> \in delete_pl[u] \union at[u] \union delete_tbs[u]
        PROVE  Has(d, k)' <=> Has(d, k)
    BY <2>2 DEF Touched
  <2>3. ASSUME NEW d \in Docs, NEW k \in Terms \ raced'
        PROVE  /\ <<d, k>> \in delete_pl[u] \union at[u] => ~Has(d, k)'
               /\ <<d, k>> \in delete_tbs[u] \ delete_pl[u] => Has(d, k)'
    BY <2>1, <2>2, <2>3 DEF Resolves
  <2>4. QED
    BY <2>1, <2>3 DEF Resolves, Kept
<1>4. QED
  BY <1>1, <1>2, <1>3 DEF Kept, TextInv, Work

(* A transaction that holds nothing and is not at work. *)
LEMMA AtRest ==
    ASSUME NEW t \in Txs, ~AtWork(t)', op'[t] = NoOp, todo'[t] = {}, at'[t] = {},
           staged_doc'[t] = {}, staged_plb'[t] = NoLists, put_pl'[t] = {}, delete_pl'[t] = {},
           put_tbs'[t] = {}, delete_tbs'[t] = {}
    PROVE  Released(t)' /\ Work(t)'
  BY DEF Released, Work, NoOp, NoLists

(* A transaction that writes document d. *)
LEMMA WriterIs ==
    ASSUME NEW t \in Txs, NEW d \in Docs, op'[t].doc = {d}, AtWork(t)', Writes(t, d)',
           at'[t] \subseteq todo'[t],
           pc'[t] \in {"delete", "upsert", "staged"} => todo'[t] = {},
           \A k \in Terms : staged_plb'[t][k] # {}
                               <=> \E e \in Docs : <<e, k>> \in put_pl'[t] \union delete_pl'[t]
    PROVE  Released(t)' /\ Work(t)'
<1>1. ASSUME NEW e \in Docs, op'[t].doc = {e} PROVE e = d
  BY <1>1
<1>2. QED
  BY <1>1 DEF Work, Released

(* resolve_tombstones writes no document. *)
LEMMA Resolver ==
    ASSUME TypeOK, TextInv, NEW t \in Txs, pc[t] = "resolving"
    PROVE  op[t].doc = {} /\ Resolves(t)
<1>1. op[t].doc = {}
  <2>1. SUFFICES ASSUME op[t].doc # {} PROVE FALSE
    OBVIOUS
  <2>2. PICK d \in Docs : op[t].doc = {d}
    BY <2>1, OptionIs DEF TypeOK
  <2>3. QED
    BY <2>2 DEF TextInv, Work, Writes
<1>2. QED
  BY <1>1 DEF TextInv, Work

(* The commit of t changes whether a document has a term only if t has touched the term. *)
LEMMA CommitHas ==
    ASSUME TypeOK, TextInv, NEW t \in Txs, StorageCommit(t), NEW d \in Docs, NEW k \in Terms
    PROVE  /\ Has(d, k)' <=> IF d \in op[t].doc THEN WillHave(t, d, k) ELSE Has(d, k)
           /\ k \notin Touched(t) => (Has(d, k)' <=> Has(d, k))
<1>1. Has(d, k)' <=> IF d \in op[t].doc THEN WillHave(t, d, k) ELSE Has(d, k)
  BY DEF StorageCommit, TypeOK, Has, WillHave
<1>2. ASSUME d \in op[t].doc, k \notin Touched(t) PROVE ~WillHave(t, d, k) /\ ~Has(d, k)
  <2>1. Writes(t, d) /\ pc[t] = "staged"
    BY <1>2, Writer DEF StorageCommit
  <2>2. <<d, k>> \notin put_pl[t] /\ <<d, k>> \notin put_tbs[t]
    BY <1>2 DEF Touched
  <2>3. QED
    BY <2>1, <2>2 DEF Writes
<1>3. QED
  BY <1>1, <1>2

(* Every step keeps what is said of the transactions: what they have staged accounts for the
   texts that they write, and for the tombstones that they resolve. *)
LEMMA WorkStep ==
    ASSUME TypeOK, TextInv, TypeOK', [Next]_vars
    PROVE  \A u \in Txs : Released(u)' /\ Work(u)'
<1>k. ASSUME NEW u \in Txs, Kept(u), UNCHANGED doc, raced \subseteq raced'
      PROVE Released(u)' /\ Work(u)'
  BY <1>k, WorkKept DEF Has
<1>a. \A u \in Txs : Released(u) /\ Work(u)
  BY DEF TextInv
<1>0. CASE UNCHANGED vars
  BY <1>0, <1>k DEF vars, Kept
<1>1. ASSUME NEW t \in Txs, NEW d \in Docs, NEW text \in Option(Texts), NEW b \in BOOLEAN,
             Begin(t, d, text, b), ~b => text # {}
      PROVE Released(t)' /\ Work(t)'
  <2>2. /\ op'[t] = [doc |-> {d}, text |-> text] /\ pc'[t] = IF b THEN "delete" ELSE "upsert"
        /\ pc[t] = "idle"
        /\ UNCHANGED <<storage, memory, todo, at, read, staged, staged_stats, query, crashes,
                       raced>>
    BY <1>1 DEF Begin, TypeOK
  <2>3. /\ todo'[t] = {} /\ at'[t] = {} /\ staged_doc'[t] = {} /\ staged_plb'[t] = NoLists
        /\ put_pl'[t] = {} /\ delete_pl'[t] = {} /\ put_tbs'[t] = {} /\ delete_tbs'[t] = {}
    BY <1>a, <2>2 DEF Released
  <2>4. Writes(t, d)'
    BY <1>1, <2>2, <2>3 DEF Writes
  <2>5. Released(t)' /\ Work(t)'
    BY <2>2, <2>3, <2>4 DEF Released, Work, NoLists
  <2>6. QED
    BY <2>5
<1>2. ASSUME NEW t \in Txs, NEW d \in Docs, DeleteStart(t, d)
      PROVE Released(t)' /\ Work(t)'
  <2>2. op[t].doc = {d} /\ Writes(t, d) /\ Work(t)
    BY <1>2, <1>a, Writer DEF DeleteStart
  <2>3. CASE doc[d] = {}
    <3>1. /\ pc[t] = "delete"
          /\ pc' = [pc EXCEPT ![t] = IF op[t].text = {} THEN "staged" ELSE "upsert"]
          /\ UNCHANGED <<storage, memory, op, todo, at, staged, raced>>
      BY <1>2, <2>3 DEF DeleteStart
    <3>2. Writes(t, d)'
      BY <2>2, <2>3, <3>1 DEF Writes, Has, WillHave, Written, TypeOK
    <3>3. pc'[t] \in {"staged", "upsert"}
      BY <3>1 DEF TypeOK
    <3>4. Released(t)' /\ Work(t)'
      BY <2>2, <3>1, <3>2, <3>3, WriterIs DEF Work
    <3>5. QED
      BY <3>4
  <2>4. CASE doc[d] # {}
    <3>1. /\ pc[t] = "delete" /\ pc' = [pc EXCEPT ![t] = "deleting"]
          /\ todo' = [todo EXCEPT ![t] = {d} \X Get(doc[d])]
          /\ staged_doc' = [staged_doc EXCEPT ![t] = {{}}]
          /\ UNCHANGED <<storage, memory, op, at, staged_plb, put_pl, delete_pl, put_tbs,
                         delete_tbs, raced>>
      BY <1>2, <2>4 DEF DeleteStart
    <3>2. Get(doc[d]) \in Texts
      BY <2>4, OptionIs DEF TypeOK
    <3>3. pc'[t] = "deleting" /\ todo'[t] = {d} \X Get(doc[d]) /\ staged_doc'[t] = {{}}
      BY <3>1 DEF TypeOK
    <3>4. Writes(t, d)'
      BY <2>2, <3>1, <3>2, <3>3 DEF Writes, Has
    <3>5. Released(t)' /\ Work(t)'
      BY <2>2, <3>1, <3>3, <3>4, WriterIs DEF Work
    <3>6. QED
      BY <3>5
  <2>5. QED
    BY <2>3, <2>4
<1>3. ASSUME NEW t \in Txs, NEW d \in Docs, UpsertStart(t, d)
      PROVE Released(t)' /\ Work(t)'
  <2>2. op[t].doc = {d} /\ Writes(t, d) /\ Work(t) /\ pc[t] = "upsert"
    BY <1>3, <1>a, Writer DEF UpsertStart
  <2>3. Get(op[t].text) \in Texts /\ op[t].text = {Get(op[t].text)} /\ op[t].text # {}
    BY <1>3, WriterText DEF UpsertStart
  <2>4. /\ staged_doc'[t] = {op[t].text} /\ todo'[t] = {d} \X Get(op[t].text)
        /\ pc'[t] = "upserting"
        /\ put_tbs'[t] = put_tbs[t] \union ({d} \X (IF doc[d] = {} THEN {} ELSE Get(doc[d])))
        /\ UNCHANGED <<storage, memory, op, at, staged_plb, put_pl, delete_pl, delete_tbs>>
    <3>1. /\ staged_doc' = [staged_doc EXCEPT ![t] = {{Get(op[t].text)}}]
          /\ put_tbs' = [put_tbs EXCEPT ![t] =
                           @ \union ({d} \X (IF doc[d] = {} THEN {} ELSE Get(doc[d])))]
          /\ todo' = [todo EXCEPT ![t] = {d} \X Get(op[t].text)]
          /\ pc' = [pc EXCEPT ![t] = "upserting"]
          /\ UNCHANGED <<storage, memory, op, at, staged_plb, put_pl, delete_pl, delete_tbs>>
      BY <1>3 DEF UpsertStart
    <3>2. staged_doc'[t] = {op[t].text}
      BY <2>3, <3>1 DEF TypeOK
    <3>3. QED
      BY <3>1, <3>2 DEF TypeOK
  <2>5. (IF doc[d] = {} THEN {} ELSE Get(doc[d])) \subseteq Terms
    BY OptionIs DEF TypeOK
  <2>6. Writes(t, d)'
    BY <2>2, <2>3, <2>4, <2>5 DEF Writes, Has
  <2>7. Released(t)' /\ Work(t)'
    BY <2>2, <2>4, <2>6, WriterIs DEF Work
  <2>8. QED
    BY <2>7
<1>4. ASSUME NEW t \in Txs, ResolveStart(t)
      PROVE Released(t)' /\ Work(t)'
  <2>2. pc[t] = "idle" /\ pc'[t] = "resolving" /\ UNCHANGED <<storage, op, at, staged, raced>>
    BY <1>4 DEF ResolveStart, TypeOK
  <2>3. /\ op'[t] = NoOp /\ at'[t] = {} /\ staged_doc'[t] = {} /\ staged_plb'[t] = NoLists
        /\ put_pl'[t] = {} /\ delete_pl'[t] = {} /\ put_tbs'[t] = {} /\ delete_tbs'[t] = {}
    BY <1>a, <2>2 DEF Released
  <2>4. Released(t)' /\ Work(t)'
    BY <2>2, <2>3 DEF Released, Work, Resolves, NoLists, NoOp
  <2>5. QED
    BY <2>4
<1>5. ASSUME NEW t \in Txs, NEW d \in Docs, NEW k \in Terms, ResolveLive(t, d, k)
      PROVE Released(t)' /\ Work(t)'
  <2>2. op[t].doc = {} /\ Work(t) /\ Resolves(t)
    BY <1>5, <1>a, Resolver DEF ResolveLive
  <2>3. /\ pc[t] = "resolving" /\ delete_tbs'[t] = delete_tbs[t] \union {<<d, k>>} /\ Has(d, k)
        /\ at[t] = {} /\ raced \subseteq raced'
        /\ UNCHANGED <<storage, pc, op, at, staged_doc, staged_plb, put_pl, delete_pl, put_tbs>>
    BY <1>5 DEF ResolveLive, TypeOK
  <2>4. Resolves(t)'
    BY <2>2, <2>3 DEF Resolves, Has
  <2>5. Released(t)' /\ Work(t)'
    BY <2>2, <2>3, <2>4 DEF Released, Work
  <2>6. QED
    BY <2>5
<1>6. ASSUME NEW t \in Txs, NEW d \in Docs, NEW k \in Terms, ensure_term_loaded(t, d, k)
      PROVE Released(t)' /\ Work(t)'
  <2>2. /\ AtWork(t) /\ <<d, k>> \in todo[t] /\ at'[t] = {<<d, k>>} /\ Work(t)
        /\ pc[t] = "resolving" => ~Has(d, k)
        /\ raced \subseteq raced' /\ UNCHANGED <<storage, pc, op, todo, staged>>
    BY <1>6, <1>a DEF ensure_term_loaded, TypeOK
  <2>3. pc[t] \notin {"delete", "upsert", "staged"}
    BY <2>2 DEF Work
  <2>4. CASE op[t].doc = {}
    <3>1. Resolves(t) /\ pc[t] = "resolving"
      BY <2>2, <2>3, <2>4 DEF Work, Resolves
    <3>2. Resolves(t)'
      BY <2>2, <3>1 DEF Resolves, Has
    <3>3. Released(t)' /\ Work(t)'
      BY <2>2, <2>3, <2>4, <3>2 DEF Released, Work
    <3>4. QED
      BY <3>3
  <2>5. CASE op[t].doc # {}
    <3>1. PICK e \in Docs : op[t].doc = {e}
      BY <2>5, OptionIs DEF TypeOK
    <3>2. Writes(t, e)
      BY <2>2, <3>1 DEF Work
    <3>3. Writes(t, e)'
      BY <2>2, <3>2 DEF Writes, Has, WillHave
    <3>4. Released(t)' /\ Work(t)'
      BY <2>2, <2>3, <3>1, <3>3, WriterIs DEF Work
    <3>5. QED
      BY <3>4
  <2>6. QED
    BY <2>4, <2>5
<1>7. ASSUME NEW t \in Txs, NEW d \in Docs, NEW k \in Terms, InsertList(t, d, k)
      PROVE Released(t)' /\ Work(t)'
  <2>1. UNCHANGED <<doc, pc, op, todo, at, staged, raced>>
    BY <1>7 DEF InsertList
  <2>2. /\ \A e \in Docs : Writes(t, e)' <=> Writes(t, e)
        /\ Resolves(t)' <=> Resolves(t)
    BY <2>1 DEF Writes, Resolves, Has, WillHave
  <2>3. QED
    BY <1>a, <2>1, <2>2 DEF Released, Work
<1>8. ASSUME NEW t \in Txs, NEW d \in Docs, NEW k \in Terms, StagePosting(t, d, k)
      PROVE Released(t)' /\ Work(t)'
  <2>2. /\ at[t] = {<<d, k>>} /\ at'[t] = {} /\ todo'[t] = todo[t] \ {<<d, k>>} /\ Work(t)
        /\ put_pl'[t] = Set(put_pl[t], <<d, k>>, pc[t] = "upserting")
        /\ delete_pl'[t] = Set(delete_pl[t], <<d, k>>, pc[t] # "upserting")
        /\ put_tbs'[t] = IF pc[t] = "deleting" THEN put_tbs[t] \union {<<d, k>>} ELSE put_tbs[t]
        /\ delete_tbs'[t] = IF pc[t] = "resolving" THEN delete_tbs[t] \union {<<d, k>>}
                                                   ELSE delete_tbs[t]
        /\ UNCHANGED <<storage, pc, op, staged_doc, raced>>
    BY <1>8, <1>a DEF StagePosting, TypeOK
  <2>3. AtWork(t) /\ pc[t] \notin {"delete", "upsert", "staged"}
    BY <1>a, <2>2 DEF Work, Released
  <2>4. \A l \in Terms : staged_plb'[t][l] # {}
                            <=> \E e \in Docs : <<e, l>> \in put_pl'[t] \union delete_pl'[t]
    <3>1. \A l \in Terms : staged_plb'[t][l] # {} <=> staged_plb[t][l] # {} \/ l = k
      <4>1. staged_plb \in [Txs -> [Terms -> Option(Option(SUBSET Docs))]]
        BY DEF TypeOK
      <4>2. PICK list : staged_plb' = [staged_plb EXCEPT ![t][k] = {list}]
        BY <1>8 DEF StagePosting
      <4>3. QED
        BY <4>1, <4>2
    <3>2. \A l \in Terms, e \in Docs : <<e, l>> \in put_pl'[t] \union delete_pl'[t]
                                        <=> \/ <<e, l>> \in put_pl[t] \union delete_pl[t]
                                            \/ e = d /\ l = k
      BY <2>2 DEF Set
    <3>3. \A l \in Terms : staged_plb[t][l] # {}
                            <=> \E e \in Docs : <<e, l>> \in put_pl[t] \union delete_pl[t]
      BY <2>2 DEF Work
    <3>4. QED
      BY <3>1, <3>2, <3>3
  <2>5. CASE op[t].doc = {}
    <3>1. Resolves(t) /\ pc[t] = "resolving"
      BY <2>2, <2>3, <2>5 DEF Work, Resolves
    <3>2. Resolves(t)'
      BY <2>2, <3>1 DEF Resolves, Has, Set
    <3>3. Released(t)' /\ Work(t)'
      BY <2>2, <2>3, <2>4, <2>5, <3>2 DEF Released, Work
    <3>4. QED
      BY <3>3
  <2>6. CASE op[t].doc # {}
    <3>1. PICK e \in Docs : op[t].doc = {e}
      BY <2>6, OptionIs DEF TypeOK
    <3>2. Writes(t, e)
      BY <2>2, <3>1 DEF Work
    <3>3. e = d /\ pc[t] \in {"deleting", "upserting"}
      <4>1. <<d, k>> \in {e} \X Terms
        BY <2>2, <3>2 DEF Writes
      <4>2. pc[t] # "resolving"
        BY <3>2 DEF Writes
      <4>3. QED
        BY <2>3, <4>1, <4>2
    <3>4. Writes(t, d)'
      <4>1. CASE pc[t] = "deleting"
        BY <2>2, <3>2, <3>3, <4>1 DEF Writes, Has, Set
      <4>2. CASE pc[t] = "upserting"
        <5>1. /\ put_pl'[t] = put_pl[t] \union {<<d, k>>}
              /\ delete_pl'[t] = delete_pl[t] \ {<<d, k>>}
              /\ put_tbs'[t] = put_tbs[t] /\ delete_tbs'[t] = delete_tbs[t]
          BY <2>2, <4>2 DEF Set
        <5>2. ASSUME NEW l \in Terms
              PROVE  /\ Has(d, l)' => <<d, l>> \in put_tbs'[t]
                     /\ l \in Get(op'[t].text) <=> <<d, l>> \in put_pl'[t] \union todo'[t]
          <6>1. <<d, k>> \in todo[t]
            BY <2>2 DEF Work
          <6>2. k \in Get(op[t].text)
            BY <3>2, <3>3, <4>2, <6>1 DEF Writes
          <6>3. /\ Has(d, l) => <<d, l>> \in put_tbs[t]
                /\ l \in Get(op[t].text) <=> <<d, l>> \in put_pl[t] \union todo[t]
            BY <3>2, <3>3, <4>2 DEF Writes
          <6>4. QED
            BY <2>2, <5>1, <6>2, <6>3 DEF Has
        <5>3. put_pl'[t] \union delete_pl'[t] \union put_tbs'[t] \union todo'[t] \union at'[t]
                \subseteq {d} \X Terms
          BY <2>2, <3>2, <3>3, <5>1 DEF Writes
        <5>4. QED
          BY <2>2, <3>2, <3>3, <4>2, <5>1, <5>2, <5>3 DEF Writes
      <4>3. QED
        BY <3>3, <4>1, <4>2
    <3>5. Released(t)' /\ Work(t)'
      BY <2>2, <2>3, <2>4, <3>1, <3>3, <3>4, WriterIs
    <3>6. QED
      BY <3>5
  <2>7. QED
    BY <2>5, <2>6
<1>9. ASSUME NEW t \in Txs, OpDone(t)
      PROVE Released(t)' /\ Work(t)'
  <2>2. /\ pc[t] \in {"deleting", "upserting", "resolving"} /\ todo[t] = {} /\ at[t] = {}
        /\ pc'[t] = IF pc[t] = "deleting" /\ op[t].text # {} THEN "upsert" ELSE "staged"
        /\ UNCHANGED <<storage, memory, op, todo, at, staged, raced>> /\ Work(t)
    BY <1>9, <1>a DEF OpDone, TypeOK
  <2>3. CASE op[t].doc = {}
    <3>1. Resolves(t) /\ pc[t] = "resolving"
      BY <2>2, <2>3 DEF Work, Resolves
    <3>2. Resolves(t)'
      BY <2>2, <3>1 DEF Resolves, Has
    <3>3. Released(t)' /\ Work(t)'
      BY <2>2, <2>3, <3>2 DEF Released, Work
    <3>4. QED
      BY <3>3
  <2>4. CASE op[t].doc # {}
    <3>1. PICK d \in Docs : op[t].doc = {d}
      BY <2>4, OptionIs DEF TypeOK
    <3>2. Writes(t, d)
      BY <2>2, <3>1 DEF Work
    <3>3. Writes(t, d)'
      <4>1. CASE pc[t] = "deleting" /\ op[t].text # {}
        BY <2>2, <3>2, <4>1 DEF Writes
      <4>2. CASE pc[t] = "deleting" /\ op[t].text = {}
        <5>1. pc'[t] = "staged" /\ staged_doc[t] = {{}} /\ put_pl[t] = {}
          BY <2>2, <3>2, <4>2 DEF Writes
        <5>2. \A k \in Terms : ~WillHave(t, d, k)'
          BY <2>2, <5>1, GetIs DEF WillHave, Written
        <5>3. QED
          BY <2>2, <3>2, <4>2, <5>1, <5>2 DEF Writes, Has
      <4>3. CASE pc[t] = "upserting"
        <5>1. pc'[t] = "staged" /\ staged_doc[t] = {op[t].text} /\ op[t].text # {}
          BY <2>2, <3>2, <4>3 DEF Writes
        <5>2. \A k \in Terms : WillHave(t, d, k)' <=> k \in Get(op[t].text)
          BY <2>2, <5>1, GetIs DEF WillHave, Written
        <5>3. QED
          BY <2>2, <3>2, <4>3, <5>1, <5>2 DEF Writes, Has
      <4>4. QED
        BY <2>2, <3>2, <4>1, <4>2, <4>3 DEF Writes
    <3>4. Released(t)' /\ Work(t)'
      BY <2>2, <3>1, <3>3, WriterIs DEF Work
    <3>5. QED
      BY <3>4
  <2>5. QED
    BY <2>3, <2>4
<1>10. ASSUME NEW t \in Txs, StorageCommit(t)
      PROVE Released(t)' /\ Work(t)'
  <2>2. Released(t)' /\ Work(t)'
    <3>1. todo[t] = {} /\ at[t] = {}
      BY <1>10, <1>a DEF StorageCommit, Work
    <3>2. /\ ~AtWork(t)' /\ op'[t] = NoOp /\ todo'[t] = {} /\ at'[t] = {}
          /\ staged_doc'[t] = {} /\ staged_plb'[t] = NoLists /\ put_pl'[t] = {}
          /\ delete_pl'[t] = {}
          /\ put_tbs'[t] = {} /\ delete_tbs'[t] = {}
      BY <1>10, <3>1 DEF StorageCommit, Unstage, TypeOK
    <3>3. QED
      BY <3>2, AtRest
  <2>3. QED
    BY <2>2
<1>11. ASSUME NEW t \in Txs, commit_stats(t) \/ MetaCommit(t)
      PROVE Released(t)' /\ Work(t)'
  <2>2. ~AtWork(t) /\ ~AtWork(t)' /\ UNCHANGED <<op, todo, at, staged>>
    BY <1>11 DEF commit_stats, MetaCommit, TypeOK
  <2>3. Released(t)' /\ Work(t)'
    BY <1>a, <2>2, AtRest DEF Released
  <2>4. QED
    BY <2>3
<1>12. ASSUME NEW t \in Txs, DropCache(t), UNCHANGED storage
      PROVE Released(t)' /\ Work(t)'
  <2>2. Released(t)' /\ Work(t)'
    BY <1>12, AtRest DEF DropCache, Unstage, TypeOK
  <2>3. QED
    BY <2>2
<1>13. ASSUME NEW k \in Terms, SearchBegin(k) \/ SearchRead(k) \/ SearchInsert(k) \/ SearchEnd(k)
      PROVE \A u \in Txs : Released(u)' /\ Work(u)'
  BY <1>13, <1>k DEF SearchBegin, SearchRead, SearchInsert, SearchEnd, Kept
<1>14. CASE Crash
  BY <1>14, AtRest DEF Crash
<1>15. \A text \in Texts : {text} \in Option(Texts) /\ {text} # {}
  BY OptionHas
<1>16. ASSUME NEW t \in Txs, TxStep(t) PROVE \A u \in Txs : Released(u)' /\ Work(u)'
  <2>1. Released(t)' /\ Work(t)'
    BY <1>1, <1>2, <1>3, <1>4, <1>5, <1>6, <1>7, <1>8, <1>9, <1>10, <1>11, <1>12, <1>15, <1>16,
       NoneIs DEF TxStep, Rollback, LateRollback
  <2>2. ASSUME NEW u \in Txs, u # t PROVE Released(u)' /\ Work(u)'
    <3>1. Kept(u) /\ raced \subseteq raced'
      BY <1>16, <2>2, OthersKept
    <3>2. CASE ~StorageCommit(t)
      BY <1>16, <1>k, <3>1, <3>2, StorageKept
    <3>3. CASE StorageCommit(t)
      <4>1. /\ op[t].doc \intersect op[u].doc = {}
            /\ Touched(t) \intersect Touched(u) \subseteq raced
        BY <2>2 DEF TextInv, Exclusive
      <4>2. \A d \in op[u].doc : doc'[d] = doc[d]
        <5>1. op[u].doc \in Option(Docs)
          BY DEF TypeOK
        <5>2. QED
          BY <3>3, <4>1, <5>1 DEF StorageCommit, Option
      <4>3. \A d \in Docs, k \in Terms \ raced' : k \in Touched(u) => (Has(d, k)' <=> Has(d, k))
        BY <3>1, <3>3, <4>1, CommitHas
      <4>4. QED
        BY <3>1, <4>2, <4>3, WorkKept
    <3>4. QED
      BY <3>2, <3>3
  <2>3. QED
    BY <2>1, <2>2
<1>17. QED
  BY <1>0, <1>13, <1>14, <1>16 DEF Next, Search

(* A transaction that is left as it is has touched the same terms. *)
LEMMA TouchedKept ==
    ASSUME NEW u \in Txs, Kept(u)
    PROVE  Touched(u)' = Touched(u)
  BY DEF Touched, Kept

(* A transaction that is not at work has touched nothing, so that a term in use by no
   other transaction is touched by no other. *)
LEMMA NotInUse ==
    ASSUME TypeOK, TextInv, NEW t \in Txs, NEW k \in Terms, ~InUse(t, k)
    PROVE  \A u \in Txs : u # t => k \notin Touched(u)
<1>1. ASSUME NEW u \in Txs, ~AtWork(u) PROVE Touched(u) = {}
  BY <1>1 DEF TextInv, Released, Touched
<1>2. QED
  BY <1>1 DEF InUse

(* t takes a document that nobody has, and touches only terms that are not in use, or
   that are noted. *)
LEMMA ExclusiveBy ==
    ASSUME TypeOK, TextInv, NEW t \in Txs, \A u \in Txs : u # t => Kept(u), raced \subseteq raced',
           \A u \in Txs : u # t => op'[t].doc \intersect op[u].doc = {},
           \A k \in Touched(t)' : k \in Touched(t) \/ k \in raced' \/ ~InUse(t, k)
    PROVE  Exclusive'
<1>1. \A k \in Touched(t)' : k \in Terms
  BY DEF Touched
<1>2. ASSUME NEW u \in Txs, u # t
      PROVE  /\ op'[t].doc \intersect op'[u].doc = {}
             /\ Touched(t)' \intersect Touched(u)' \subseteq raced'
  <2>1. Kept(u) /\ Touched(u)' = Touched(u)
    BY <1>2, TouchedKept
  <2>2. Touched(t) \intersect Touched(u) \subseteq raced
    BY <1>2 DEF TextInv, Exclusive
  <2>3. \A k \in Terms : ~InUse(t, k) => k \notin Touched(u)
    BY <1>2, NotInUse
  <2>4. QED
    BY <1>1, <1>2, <2>1, <2>2, <2>3 DEF Kept
<1>3. ASSUME NEW u \in Txs, NEW v \in Txs, u # t, v # t, u # v
      PROVE  /\ op'[u].doc \intersect op'[v].doc = {}
             /\ Touched(u)' \intersect Touched(v)' \subseteq raced'
  <2>1. Kept(u) /\ Kept(v) /\ Touched(u)' = Touched(u) /\ Touched(v)' = Touched(v)
    BY <1>3, TouchedKept
  <2>2. QED
    BY <1>3, <2>1 DEF TextInv, Exclusive, Kept
<1>4. QED
  BY <1>2, <1>3 DEF Exclusive

(* No document gets a second writer, and a term that gets a second user is noted. *)
LEMMA ExclusiveStep ==
    ASSUME TypeOK, TextInv, [Next]_vars
    PROVE  Exclusive'
<1>a. ASSUME NEW t \in Txs, \A u \in Txs : u # t => Kept(u), raced \subseteq raced',
             op'[t].doc \subseteq op[t].doc,
             \A k \in Touched(t)' : k \in Touched(t) \/ k \in raced' \/ ~InUse(t, k)
      PROVE  Exclusive'
  <2>1. \A u \in Txs : u # t => op[t].doc \intersect op[u].doc = {}
    BY DEF TextInv, Exclusive
  <2>2. QED
    BY <1>a, <2>1, ExclusiveBy
<1>0. CASE UNCHANGED vars
  BY <1>0 DEF vars, TextInv, Exclusive, Touched
<1>1. ASSUME NEW t \in Txs, TxStep(t) PROVE Exclusive'
  <2>0. (\A u \in Txs : u # t => Kept(u)) /\ raced \subseteq raced'
    BY <1>1, OthersKept
  <2>1. ASSUME NEW d \in Docs, NEW text, NEW b, Begin(t, d, text, b) PROVE Exclusive'
    <3>1. op'[t].doc = {d} /\ ~Busy(d) /\ Touched(t)' = Touched(t)
      BY <2>1 DEF Begin, Touched, TypeOK
    <3>2. ASSUME NEW u \in Txs PROVE d \notin op[u].doc
      BY <3>1, Writer DEF Busy
    <3>3. QED
      BY <2>0, <3>1, <3>2, ExclusiveBy
  <2>2. ASSUME NEW d \in Docs, DeleteStart(t, d) PROVE Exclusive'
    <3>1. op' = op /\ Touched(t)' = Touched(t)
      BY <2>2 DEF DeleteStart, Touched
    <3>2. QED
      BY <1>a, <2>0, <3>1
  <2>3. ASSUME NEW d \in Docs, UpsertStart(t, d) PROVE Exclusive'
    <3>1. /\ op' = op
          /\ put_tbs'[t] = put_tbs[t] \union ({d} \X (IF doc[d] = {} THEN {} ELSE Get(doc[d])))
          /\ raced' = raced \union {k \in (IF doc[d] = {} THEN {} ELSE Get(doc[d])) : InUse(t, k)}
          /\ UNCHANGED <<put_pl, delete_pl, delete_tbs, at>>
      BY <2>3 DEF UpsertStart, TypeOK
    <3>2. \A k \in Touched(t)' : k \in Touched(t) \/ k \in raced' \/ ~InUse(t, k)
      BY <3>1 DEF Touched
    <3>3. QED
      BY <1>a, <2>0, <3>1, <3>2
  <2>4. CASE ResolveStart(t) \/ OpDone(t) \/ commit_stats(t) \/ MetaCommit(t)
    <3>1. op' = op /\ Touched(t)' = Touched(t)
      BY <2>4 DEF ResolveStart, OpDone, commit_stats, MetaCommit, Touched
    <3>2. QED
      BY <1>a, <2>0, <3>1
  <2>5. ASSUME NEW d \in Docs, NEW k \in Terms, ResolveLive(t, d, k) PROVE Exclusive'
    <3>1. /\ op' = op /\ delete_tbs'[t] = delete_tbs[t] \union {<<d, k>>}
          /\ raced' = IF InUse(t, k) THEN raced \union {k} ELSE raced
          /\ UNCHANGED <<put_pl, delete_pl, put_tbs, at>>
      BY <2>5 DEF ResolveLive, TypeOK
    <3>2. \A l \in Touched(t)' : l \in Touched(t) \/ l = k
      BY <3>1 DEF Touched
    <3>3. QED
      BY <1>a, <2>0, <3>1, <3>2
  <2>6. ASSUME NEW d \in Docs, NEW k \in Terms, ensure_term_loaded(t, d, k) PROVE Exclusive'
    <3>1. /\ op' = op /\ at'[t] = {<<d, k>>}
          /\ InUse(t, k) => k \in raced'
          /\ UNCHANGED <<put_pl, delete_pl, put_tbs, delete_tbs>>
      BY <2>6 DEF ensure_term_loaded, TypeOK
    <3>2. \A l \in Touched(t)' : l \in Touched(t) \/ l = k
      BY <3>1 DEF Touched
    <3>3. QED
      BY <1>a, <2>0, <3>1, <3>2
  <2>7. ASSUME NEW d \in Docs, NEW k \in Terms, InsertList(t, d, k) PROVE Exclusive'
    <3>1. op' = op /\ Touched(t)' = Touched(t)
      BY <2>7 DEF InsertList, Touched
    <3>2. QED
      BY <1>a, <2>0, <3>1
  <2>8. ASSUME NEW d \in Docs, NEW k \in Terms, StagePosting(t, d, k) PROVE Exclusive'
    <3>1. /\ op' = op /\ k \in Touched(t)
          /\ \A l \in Touched(t)' : l \in Touched(t) \/ l = k
      BY <2>8 DEF StagePosting, Touched, Set, TypeOK
    <3>2. QED
      BY <1>a, <2>0, <3>1
  <2>9. CASE StorageCommit(t) \/ DropCache(t)
    <3>1. op'[t].doc = {} /\ \A l \in Touched(t)' : l \in Touched(t)
      <4>1. /\ op'[t] = NoOp /\ put_pl'[t] = {} /\ delete_pl'[t] = {} /\ put_tbs'[t] = {}
            /\ delete_tbs'[t] = {} /\ at'[t] \subseteq at[t]
        <5>1. CASE StorageCommit(t)
          BY <5>1 DEF StorageCommit, Unstage, TypeOK
        <5>2. CASE DropCache(t)
          BY <5>2 DEF DropCache, Unstage, TypeOK
        <5>3. QED
          BY <2>9, <5>1, <5>2
      <4>2. QED
        BY <4>1 DEF Touched, NoOp
    <3>2. QED
      BY <1>a, <2>0, <3>1
  <2>10. QED
    BY <1>1, <2>1, <2>2, <2>3, <2>4, <2>5, <2>6, <2>7, <2>8, <2>9 DEF TxStep, Rollback, LateRollback
<1>2. ASSUME NEW k \in Terms, SearchBegin(k) \/ SearchRead(k) \/ SearchInsert(k) \/ SearchEnd(k)
      PROVE Exclusive'
  <2>1. UNCHANGED txns /\ raced \subseteq raced'
    BY <1>2 DEF SearchBegin, SearchRead, SearchInsert, SearchEnd
  <2>2. \A u \in Txs : Touched(u)' = Touched(u)
    BY <2>1 DEF Touched
  <2>3. QED
    BY <2>1, <2>2 DEF TextInv, Exclusive
<1>3. CASE Crash
  BY <1>3 DEF Crash, Exclusive, Touched, NoOp
<1>4. QED
  BY <1>0, <1>1, <1>2, <1>3 DEF Next, Search

(* The postings of a term after the commit of t are those t has seen. *)
LEMMA CommitScan ==
    ASSUME TypeOK, NEW t \in Txs, StorageCommit(t), NEW k \in Terms
    PROVE  /\ Scan(k)' = View(t, k)
           /\ k \notin Touched(t) => Scan(k)' = Scan(k)
<1>1. Scan(k)' = View(t, k)
  BY DEF StorageCommit, Scan, View
<1>2. k \notin Touched(t) => View(t, k) = Scan(k)
  BY DEF Touched, View, Scan
<1>3. QED
  BY <1>1, <1>2

(* The list that t has staged for a term that it has touched is the one it has seen, and
   it has staged one if it has changed a posting. *)
LEMMA StagedList ==
    ASSUME TypeOK, TextInv, NEW t \in Txs, pc[t] = "staged", NEW k \in Terms \ raced,
           k \in Touched(t)
    PROVE  /\ staged_plb[t][k] = {} =>
                View(t, k) = Scan(k) /\ (resident[k] # {} => Get(resident[k]) = Scan(k))
           /\ staged_plb[t][k] # {} =>
                /\ staged_plb[t][k] = {resident[k]}
                /\ resident[k] = IF View(t, k) = {} THEN {} ELSE {View(t, k)}
<1>1. at[t] = {} /\ Work(t) /\ UserCache(t, k)
  BY DEF TextInv, Work, CacheInv
<1>2. staged_plb[t][k] = {} => View(t, k) = Scan(k)
  BY <1>1 DEF Work, View, Scan
<1>3. QED
  BY <1>1, <1>2 DEF UserCache

(* The commit of t, for one term. *)
LEMMA StoredCommit ==
    ASSUME TypeOK, TextInv, NEW t \in Txs, StorageCommit(t), NEW k \in Terms \ raced
    PROVE  StoredInv(k)'
<1>0. /\ pc[t] = "staged" /\ Work(t) /\ StoredInv(k)
      /\ tbs' = (tbs \ delete_tbs[t]) \union put_tbs[t]
      /\ plb'[k] = Written(plb[k], staged_plb[t][k])
  BY DEF StorageCommit, TextInv
<1>1. plb'[k] # {} => Get(plb'[k]) = Scan(k)'
  <2>1. CASE k \notin Touched(t)
    <3>1. staged_plb[t][k] = {}
      BY <1>0, <2>1 DEF Work, Touched
    <3>2. QED
      BY <1>0, <2>1, <3>1, CommitScan DEF Written, StoredInv
  <2>2. CASE k \in Touched(t) /\ staged_plb[t][k] = {}
    <3>1. View(t, k) = Scan(k)
      BY <1>0, <2>2, StagedList
    <3>2. QED
      BY <1>0, <2>2, <3>1, CommitScan DEF Written, StoredInv
  <2>3. CASE k \in Touched(t) /\ staged_plb[t][k] # {}
    <3>1. plb'[k] = IF View(t, k) = {} THEN {} ELSE {View(t, k)}
      BY <1>0, <2>3, StagedList, GetIs DEF Written
    <3>2. QED
      BY <3>1, GetIs, CommitScan
  <2>4. QED
    BY <2>1, <2>2, <2>3
<1>2. ASSUME NEW d \in Docs
      PROVE  /\ Has(d, k)' => d \in Scan(k)'
             /\ d \in Scan(k)' /\ <<d, k>> \notin tbs' => Has(d, k)'
  <2>1. d \in Scan(k)' <=> <<d, k>> \in put_pl[t] \/ (d \in Scan(k) /\ <<d, k>> \notin delete_pl[t])
    BY CommitScan DEF View
  <2>2. /\ Has(d, k) => d \in Scan(k)
        /\ d \in Scan(k) /\ <<d, k>> \notin tbs => Has(d, k)
    BY <1>0 DEF StoredInv
  <2>3. Has(d, k)' <=> IF d \in op[t].doc THEN WillHave(t, d, k) ELSE Has(d, k)
    BY CommitHas
  <2>4. CASE d \in op[t].doc
    <3>1. /\ WillHave(t, d, k) <=> <<d, k>> \in put_pl[t]
          /\ Has(d, k) => <<d, k>> \in put_tbs[t]
          /\ delete_tbs[t] = {}
      BY <1>0, <2>4, Writer DEF Writes
    <3>2. QED
      BY <1>0, <2>1, <2>2, <2>3, <2>4, <3>1
  <2>5. CASE d \notin op[t].doc /\ op[t].doc # {}
    <3>1. PICK e \in Docs : op[t].doc = {e} /\ d # e
      <4>1. op[t].doc \in Option(Docs)
        BY DEF TypeOK
      <4>2. QED
        BY <2>5, <4>1 DEF Option
    <3>2. /\ <<d, k>> \notin put_pl[t] /\ <<d, k>> \notin delete_pl[t] /\ <<d, k>> \notin put_tbs[t]
          /\ delete_tbs[t] = {}
      BY <1>0, <3>1 DEF Work, Writes
    <3>3. QED
      BY <1>0, <2>1, <2>2, <2>3, <2>5, <3>2
  <2>6. CASE op[t].doc = {}
    <3>1. /\ put_pl[t] = {} /\ put_tbs[t] = {}
          /\ <<d, k>> \in delete_pl[t] => ~Has(d, k)
          /\ <<d, k>> \in delete_tbs[t] \ delete_pl[t] => Has(d, k)
      BY <1>0, <2>6 DEF Work, Resolves
    <3>2. QED
      BY <1>0, <2>1, <2>2, <2>3, <2>6, <3>1
  <2>7. QED
    BY <2>4, <2>5, <2>6
<1>3. QED
  BY <1>1, <1>2 DEF StoredInv

(* Every step keeps what is stored of the terms that have not raced: only the commit of a
   transaction changes it. *)
LEMMA StoredStep ==
    ASSUME TypeOK, TextInv, [Next]_vars
    PROVE  \A k \in Terms \ raced' : k \notin raced /\ StoredInv(k)'
<1>1. ASSUME UNCHANGED <<doc, pl, plb, tbs>>, raced \subseteq raced', NEW k \in Terms \ raced'
      PROVE  k \notin raced /\ StoredInv(k)'
  <2>1. StoredInv(k) /\ k \notin raced
    BY <1>1 DEF TextInv
  <2>2. QED
    BY <1>1, <2>1 DEF StoredInv, Scan, Has
<1>2. ASSUME NEW t \in Txs, TxStep(t), NEW k \in Terms \ raced'
      PROVE k \notin raced /\ StoredInv(k)'
  <2>1. raced \subseteq raced'
    BY <1>2, OthersKept
  <2>2. CASE StorageCommit(t)
    BY <1>2, <2>1, <2>2, StoredCommit
  <2>3. QED
    BY <1>1, <1>2, <2>1, <2>2, StorageKept
<1>3. CASE ~\E t \in Txs : TxStep(t)
  <2>1. UNCHANGED <<doc, pl, plb, tbs>> /\ raced \subseteq raced'
    BY <1>3 DEF Next, Search, SearchBegin, SearchRead, SearchInsert, SearchEnd, Crash, vars
  <2>2. QED
    BY <1>1, <2>1
<1>4. QED
  BY <1>2, <1>3

(* The only user of term k is t, and its list is as it should be. *)
LEMMA CacheUser ==
    ASSUME NEW t \in Txs, NEW k \in Terms \ raced', Exclusive', k \in Touched(t)', UserCache(t, k)'
    PROVE  CacheInv(k)'
<1>1. \A u \in Txs : u # t => k \notin Touched(u)'
  BY DEF Exclusive
<1>2. QED
  BY <1>1 DEF CacheInv

(* Nothing changes for the users of term k. *)
LEMMA CacheKept ==
    ASSUME NEW k \in Terms, CacheInv(k), Scan(k)' = Scan(k), resident'[k] = resident[k],
           \A u \in Txs : k \in Touched(u)' \/ k \in Touched(u) => Kept(u)
    PROVE  CacheInv(k)'
<1>1. \A u \in Txs : k \in Touched(u)' <=> k \in Touched(u)
  BY TouchedKept
<1>2. ASSUME NEW u \in Txs, k \in Touched(u) PROVE UserCache(u, k)'
  <2>1. Kept(u) /\ UserCache(u, k)
    BY <1>2 DEF CacheInv
  <2>2. View(u, k)' = View(u, k)
    BY <2>1 DEF View, Kept
  <2>3. \A list, d : Loaded(list, u, d, k)' <=> Loaded(list, u, d, k)
    BY <2>2 DEF Loaded
  <2>4. QED
    BY <2>1, <2>2, <2>3 DEF UserCache, Kept
<1>3. QED
  BY <1>1, <1>2 DEF CacheInv

(* Before t has staged a list for term k it has changed no posting of it. *)
LEMMA FirstTouch ==
    ASSUME TypeOK, TextInv, NEW t \in Txs, NEW k \in Terms \ raced, ~InUse(t, k),
           k \notin Touched(t)
    PROVE  /\ staged_plb[t][k] = {} /\ View(t, k) = Scan(k)
           /\ resident[k] # {} => Get(resident[k]) = Scan(k)
<1>1. staged_plb[t][k] = {}
  BY DEF TextInv, Work, Touched
<1>2. View(t, k) = Scan(k)
  BY DEF View, Scan, Touched
<1>3. \A u \in Txs : k \notin Touched(u)
  BY NotInUse
<1>4. QED
  BY <1>1, <1>2, <1>3 DEF TextInv, CacheInv

(* t adds tombstones of terms that are in use by no other, and nothing else. *)
LEMMA TombstonesCache ==
    ASSUME TypeOK, TextInv, NEW t \in Txs, \A u \in Txs : u # t => Kept(u), Exclusive',
           raced \subseteq raced', NEW k \in Terms \ raced',
           UNCHANGED <<storage, resident, at, read, staged_plb, put_pl, delete_pl>>,
           Touched(t) \subseteq Touched(t)', k \in Touched(t)' => k \in Touched(t) \/ ~InUse(t, k),
           k \in Touched(t) \/ at[t] = {}
    PROVE  CacheInv(k)'
<1>0. CacheInv(k) /\ Scan(k)' = Scan(k) /\ k \notin raced
  BY DEF TextInv, Scan
<1>1. CASE k \notin Touched(t)'
  BY <1>0, <1>1, CacheKept
<1>2. CASE k \in Touched(t)
  <2>1. UserCache(t, k)
    BY <1>0, <1>2 DEF CacheInv
  <2>2. UserCache(t, k)'
    BY <2>1 DEF UserCache, Loaded, View, Scan
  <2>3. QED
    BY <1>2, <2>2, CacheUser
<1>3. CASE k \in Touched(t)' /\ k \notin Touched(t)
  <2>1. staged_plb[t][k] = {} /\ (resident[k] # {} => Get(resident[k]) = Scan(k)) /\ at[t] = {}
    BY <1>0, <1>3, FirstTouch
  <2>2. UserCache(t, k)'
    BY <1>0, <2>1 DEF UserCache
  <2>3. QED
    BY <1>3, <2>2, CacheUser
<1>4. QED
  BY <1>1, <1>2, <1>3

(* ensure_term_loaded: the list that is in the cache, or that is read, is the one t has
   left, but for the document it is at. *)
LEMMA LoadCache ==
    ASSUME TypeOK, TextInv, Exclusive', NEW t \in Txs, NEW d \in Docs, NEW k \in Terms \ raced',
           ensure_term_loaded(t, d, k)
    PROVE  CacheInv(k)'
<1>0. /\ AtWork(t) /\ at[t] = {} /\ <<d, k>> \in todo[t] /\ at'[t] = {<<d, k>>}
      /\ read'[t] = IF resident[k] = {} THEN {Stored(k)} ELSE {}
      /\ ~InUse(t, k) /\ ~Forgotten(t, d, k) /\ k \notin raced
      /\ UNCHANGED <<storage, resident, staged>>
  BY DEF ensure_term_loaded, TypeOK
<1>1. k \in Touched(t)'
  BY <1>0 DEF Touched
<1>2. /\ Scan(k)' = Scan(k) /\ View(t, k)' = View(t, k) /\ Stored(k) = Scan(k)
      /\ Scan(k) \subseteq Docs
  BY <1>0 DEF Scan, View, Stored, TextInv, StoredInv
<1>3. \A list : Loaded(list, t, d, k)' <=> Loaded(list, t, d, k)
  BY <1>2 DEF Loaded
<1>4. CASE resident[k] # {}
  <2>1. Get(resident[k]) = View(t, k)
    <3>1. CASE k \notin Touched(t)
      BY <1>0, <1>4, <3>1, FirstTouch
    <3>2. CASE k \in Touched(t)
      <4>1. UserCache(t, k) /\ Work(t)
        BY <1>0, <3>2 DEF TextInv, CacheInv
      <4>2. CASE staged_plb[t][k] = {}
        <5>1. View(t, k) = Scan(k)
          BY <4>1, <4>2 DEF Work, View, Scan
        <5>2. QED
          BY <1>0, <1>4, <4>1, <4>2, <5>1 DEF UserCache
      <4>3. CASE staged_plb[t][k] # {}
        <5>1. resident[k] = {View(t, k)}
          BY <1>0, <1>4, <4>1, <4>3 DEF UserCache
        <5>2. QED
          BY <5>1, GetIs
      <4>4. QED
        BY <4>2, <4>3
    <3>3. QED
      BY <3>1, <3>2
  <2>2. Loaded(Get(resident[k]), t, d, k)'
    BY <1>0, <1>2, <2>1 DEF Loaded
  <2>3. UserCache(t, k)'
    BY <1>0, <1>4, <2>2 DEF UserCache
  <2>4. QED
    BY <1>1, <2>3, CacheUser
<1>5. CASE resident[k] = {}
  <2>1. Scan(k) \ {d} = View(t, k) \ {d}
    <3>1. CASE k \notin Touched(t)
      BY <1>0, <3>1, FirstTouch
    <3>2. CASE k \in Touched(t)
      <4>1. UserCache(t, k) /\ Work(t)
        BY <1>0, <3>2 DEF TextInv, CacheInv
      <4>2. CASE staged_plb[t][k] = {}
        BY <4>1, <4>2 DEF Work, View, Scan
      <4>3. CASE staged_plb[t][k] # {}
        <5>1. View(t, k) = {}
          BY <1>0, <1>5, <4>1, <4>3 DEF UserCache
        <5>2. \A e \in Scan(k) \ {d} : <<e, k>> \notin delete_pl[t]
          BY <1>0, <1>2, <1>5 DEF Forgotten
        <5>3. QED
          BY <1>2, <5>1, <5>2 DEF View
      <4>4. QED
        BY <4>2, <4>3
    <3>3. QED
      BY <3>1, <3>2
  <2>2. read'[t] = {Scan(k)} /\ Get(read'[t]) = Scan(k) /\ read'[t] # {}
    BY <1>0, <1>2, <1>5, GetIs
  <2>3. Loaded(Get(read[t]), t, d, k)'
    BY <1>2, <2>1, <2>2 DEF Loaded
  <2>4. ASSUME NEW e \in Docs, <<e, k>> \in at'[t] PROVE e = d
    BY <1>0, <2>4
  <2>5. UserCache(t, k)'
    BY <1>0, <1>5, <2>2, <2>3, <2>4 DEF UserCache
  <2>6. QED
    BY <1>1, <2>5, CacheUser
<1>6. QED
  BY <1>4, <1>5

(* The posting of document d is staged, and with it the list. *)
LEMMA StageCache ==
    ASSUME TypeOK, TextInv, Exclusive', NEW t \in Txs, NEW d \in Docs, NEW k \in Terms \ raced',
           StagePosting(t, d, k)
    PROVE  CacheInv(k)'
<1> DEFINE list == IF pc[t] = "upserting" THEN With(resident[k], d) ELSE Without(resident[k], d)
<1>0. /\ at[t] = {<<d, k>>} /\ at'[t] = {} /\ read[t] = {} /\ k \notin raced
      /\ put_pl'[t] = Set(put_pl[t], <<d, k>>, pc[t] = "upserting")
      /\ delete_pl'[t] = Set(delete_pl[t], <<d, k>>, pc[t] # "upserting")
      /\ resident'[k] = list /\ staged_plb'[t][k] = {list} /\ UNCHANGED storage
  BY DEF StagePosting, TypeOK
<1>1. k \in Touched(t) /\ k \in Touched(t)'
  BY <1>0 DEF Touched, Set
<1>2. UserCache(t, k)
  BY <1>0, <1>1 DEF TextInv, CacheInv
<1>3. resident[k] # {} /\ Loaded(Get(resident[k]), t, d, k)
  BY <1>0, <1>2 DEF UserCache
<1>4. Get(resident[k]) \ {d} = View(t, k) \ {d}
  BY <1>3 DEF Loaded
<1>5. View(t, k)' = IF pc[t] = "upserting" THEN View(t, k) \union {d} ELSE View(t, k) \ {d}
  <2>1. CASE pc[t] = "upserting"
    BY <1>0, <2>1 DEF View, Scan, Set
  <2>2. CASE pc[t] # "upserting"
    <3>1. put_pl'[t] = put_pl[t] \ {<<d, k>>} /\ delete_pl'[t] = delete_pl[t] \union {<<d, k>>}
      BY <1>0, <2>2 DEF Set
    <3>2. QED
      BY <1>0, <2>2, <3>1 DEF View, Scan
  <2>3. QED
    BY <2>1, <2>2
<1>6. list = IF View(t, k)' = {} THEN {} ELSE {View(t, k)'}
  <2>1. CASE pc[t] = "upserting"
    <3>1. Get(resident[k]) \union {d} = View(t, k) \union {d}
      BY <1>4
    <3>2. QED
      BY <1>3, <1>5, <2>1, <3>1 DEF With
  <2>2. CASE pc[t] # "upserting"
    <3>1. Get(resident[k]) \subseteq {d} <=> View(t, k) \ {d} = {}
      BY <1>4
    <3>2. QED
      BY <1>3, <1>4, <1>5, <2>2, <3>1 DEF Without
  <2>3. QED
    BY <2>1, <2>2
<1> HIDE DEF list
<1>7. UserCache(t, k)'
  BY <1>0, <1>6 DEF UserCache
<1>8. QED
  BY <1>1, <1>7, CacheUser

(* Every step keeps the cached lists of the terms that have not raced. *)
LEMMA CacheStep ==
    ASSUME TypeOK, TextInv, Exclusive', [Next]_vars
    PROVE  \A k \in Terms \ raced' : CacheInv(k)'
<1>f. ASSUME NEW k \in Terms \ raced', raced \subseteq raced', UNCHANGED pl,
             resident'[k] = resident[k],
             UNCHANGED <<at, read, staged_plb, put_pl, delete_pl, put_tbs, delete_tbs>>
      PROVE  CacheInv(k)'
  <2>1. CacheInv(k)
    BY <1>f DEF TextInv
  <2>2. QED
    <3>1. Scan(k)' = Scan(k) /\ \A u \in Txs : View(u, k)' = View(u, k) /\ Touched(u)' = Touched(u)
      BY <1>f DEF Scan, View, Touched
    <3>2. ASSUME NEW u \in Txs, UserCache(u, k) PROVE UserCache(u, k)'
      BY <1>f, <3>1, <3>2 DEF UserCache, Loaded
    <3>3. QED
      BY <1>f, <2>1, <3>1, <3>2 DEF CacheInv
<1>0. CASE UNCHANGED vars
  BY <1>0, <1>f DEF vars
<1>1. ASSUME NEW t \in Txs, TxStep(t), NEW k \in Terms \ raced' PROVE CacheInv(k)'
  <2>0. (\A u \in Txs : u # t => Kept(u)) /\ raced \subseteq raced' /\ k \notin raced /\ CacheInv(k)
    <3>1. (\A u \in Txs : u # t => Kept(u)) /\ raced \subseteq raced'
      BY <1>1, OthersKept
    <3>2. QED
      BY <3>1 DEF TextInv
  <2>1. ASSUME NEW d \in Docs, NEW text, NEW b, Begin(t, d, text, b) PROVE CacheInv(k)'
    BY <1>f, <2>0, <2>1 DEF Begin
  <2>2. ASSUME NEW d \in Docs, DeleteStart(t, d) PROVE CacheInv(k)'
    BY <1>f, <2>0, <2>2 DEF DeleteStart
  <2>3. ASSUME NEW d \in Docs, UpsertStart(t, d) PROVE CacheInv(k)'
    <3>1. /\ put_tbs'[t] = put_tbs[t] \union ({d} \X (IF doc[d] = {} THEN {} ELSE Get(doc[d])))
          /\ raced' = raced \union {l \in (IF doc[d] = {} THEN {} ELSE Get(doc[d])) : InUse(t, l)}
          /\ UNCHANGED <<storage, resident, at, read, staged_plb, put_pl, delete_pl, delete_tbs>>
      BY <2>3 DEF UpsertStart, TypeOK
    <3>2. /\ Touched(t) \subseteq Touched(t)'
          /\ (k \in Touched(t)' => k \in Touched(t) \/ ~InUse(t, k))
      BY <3>1 DEF Touched
    <3>3. at[t] = {}
      BY <2>3 DEF UpsertStart, TextInv, Work
    <3>4. QED
      BY <2>0, <3>1, <3>2, <3>3, TombstonesCache
  <2>4. CASE ResolveStart(t) \/ OpDone(t) \/ commit_stats(t) \/ MetaCommit(t)
    BY <1>f, <2>0, <2>4 DEF ResolveStart, OpDone, commit_stats, MetaCommit
  <2>5. ASSUME NEW d \in Docs, NEW l \in Terms, ResolveLive(t, d, l) PROVE CacheInv(k)'
    <3>1. /\ delete_tbs'[t] = delete_tbs[t] \union {<<d, l>>} /\ at[t] = {}
          /\ raced' = IF InUse(t, l) THEN raced \union {l} ELSE raced
          /\ UNCHANGED <<storage, resident, at, read, staged_plb, put_pl, delete_pl, put_tbs>>
      BY <2>5 DEF ResolveLive, TypeOK
    <3>2. Touched(t) \subseteq Touched(t)' /\ (k \in Touched(t)' => k \in Touched(t) \/ k = l)
      BY <3>1 DEF Touched
    <3>3. k \in Touched(t)' => k \in Touched(t) \/ ~InUse(t, k)
      BY <3>1, <3>2
    <3>4. QED
      BY <2>0, <3>1, <3>2, <3>3, TombstonesCache
  <2>6. ASSUME NEW d \in Docs, NEW l \in Terms,
               \/ ensure_term_loaded(t, d, l) \/ InsertList(t, d, l) \/ StagePosting(t, d, l), k # l
        PROVE  CacheInv(k)'
    <3>1. resident'[k] = resident[k] /\ Scan(k)' = Scan(k)
      BY <2>6 DEF ensure_term_loaded, InsertList, StagePosting, Scan, TypeOK
    <3>2. CASE k \notin Touched(t) /\ k \notin Touched(t)'
      BY <2>0, <3>1, <3>2, CacheKept
    <3>3. /\ k \in Touched(t)' <=> k \in Touched(t)
          /\ \A d2 \in Docs : <<d2, k>> \notin at[t] /\ <<d2, k>> \notin at'[t]
          /\ staged_plb'[t][k] = staged_plb[t][k] /\ View(t, k)' = View(t, k)
      <4>1. \A d2 \in Docs : /\ <<d2, k>> \notin at[t] /\ <<d2, k>> \notin at'[t]
                             /\ <<d2, k>> \in put_pl'[t] <=> <<d2, k>> \in put_pl[t]
                             /\ <<d2, k>> \in delete_pl'[t] <=> <<d2, k>> \in delete_pl[t]
                             /\ <<d2, k>> \in put_tbs'[t] <=> <<d2, k>> \in put_tbs[t]
                             /\ <<d2, k>> \in delete_tbs'[t] <=> <<d2, k>> \in delete_tbs[t]
        BY <2>6 DEF ensure_term_loaded, InsertList, StagePosting, Set, TypeOK
      <4>2. staged_plb'[t][k] = staged_plb[t][k]
        BY <2>6 DEF ensure_term_loaded, InsertList, StagePosting, TypeOK
      <4>3. QED
        BY <3>1, <4>1, <4>2 DEF Touched, View
    <3>4. CASE k \in Touched(t)
      <4>1. UserCache(t, k)
        BY <2>0, <3>4 DEF CacheInv
      <4>2. UserCache(t, k)'
        BY <3>1, <3>3, <4>1 DEF UserCache
      <4>3. QED
        BY <3>3, <3>4, <4>2, CacheUser
    <3>5. QED
      BY <3>2, <3>3, <3>4
  <2>7. ASSUME NEW d \in Docs, InsertList(t, d, k) PROVE CacheInv(k)'
    <3>1. /\ at[t] = {<<d, k>>} /\ read[t] # {} /\ resident'[k] = read[t] /\ read'[t] = {}
          /\ UNCHANGED <<storage, at, staged>>
      BY <2>7 DEF InsertList, TypeOK
    <3>2. k \in Touched(t) /\ k \in Touched(t)'
      BY <3>1 DEF Touched
    <3>3. Loaded(Get(read[t]), t, d, k)
      BY <2>0, <3>1, <3>2 DEF CacheInv, UserCache
    <3>4. Loaded(Get(resident[k]), t, d, k)'
      <4>1. View(t, k)' = View(t, k) /\ Scan(k)' = Scan(k)
        BY <3>1 DEF View, Scan
      <4>2. QED
        BY <3>1, <3>3, <4>1 DEF Loaded
    <3>5. ASSUME NEW e \in Docs, <<e, k>> \in at'[t] PROVE e = d
      BY <3>1, <3>5
    <3>6. UserCache(t, k)'
      BY <3>1, <3>4, <3>5 DEF UserCache
    <3>7. QED
      BY <3>2, <3>6, CacheUser
  <2>8. CASE StorageCommit(t)
    <3>1. resident' = resident /\ at'[t] = {} /\ put_pl'[t] = {} /\ delete_pl'[t] = {}
          /\ put_tbs'[t] = {} /\ delete_tbs'[t] = {} /\ pc[t] = "staged"
      BY <2>8 DEF StorageCommit, Unstage, TextInv, Work, TypeOK
    <3>2. k \notin Touched(t)'
      BY <3>1 DEF Touched
    <3>3. CASE k \notin Touched(t)
      BY <2>0, <2>8, <3>1, <3>2, <3>3, CommitScan, CacheKept
    <3>4. CASE k \in Touched(t)
      <4>1. ASSUME NEW u \in Txs, u # t PROVE k \notin Touched(u)'
        BY <2>0, <3>4, <4>1, TouchedKept DEF TextInv, Exclusive
      <4>2. resident[k] # {} => Get(resident[k]) = View(t, k)
        BY <2>0, <3>1, <3>4, StagedList, GetIs
      <4>3. resident'[k] # {} => Get(resident'[k]) = Scan(k)'
        BY <2>8, <3>1, <4>2, CommitScan
      <4>4. QED
        BY <3>2, <4>1, <4>3 DEF CacheInv
    <3>5. QED
      BY <3>3, <3>4
  <2>9. CASE DropCache(t)
    <3>1. /\ resident' = NoLists /\ ~InUse(t, k) /\ at'[t] = {} /\ put_pl'[t] = {}
          /\ delete_pl'[t] = {}
          /\ put_tbs'[t] = {} /\ delete_tbs'[t] = {}
      BY <2>9 DEF DropCache, Unstage, TypeOK
    <3>2. \A u \in Txs : u # t => k \notin Touched(u)'
      BY <2>0, <3>1, NotInUse, TouchedKept
    <3>3. k \notin Touched(t)'
      BY <3>1 DEF Touched
    <3>4. QED
      BY <3>1, <3>2, <3>3 DEF CacheInv, NoLists
  <2>10. ASSUME NEW d \in Docs, NEW l \in Terms,
               \/ ensure_term_loaded(t, d, l) \/ InsertList(t, d, l) \/ StagePosting(t, d, l)
        PROVE  CacheInv(k)'
    BY <2>6, <2>7, <2>10, LoadCache, StageCache
  <2>11. QED
    BY <1>1, <2>1, <2>2, <2>3, <2>4, <2>5, <2>8, <2>9, <2>10 DEF TxStep, Rollback, LateRollback
<1>2. ASSUME NEW l \in Terms, SearchBegin(l) \/ SearchRead(l) \/ SearchEnd(l),
             NEW k \in Terms \ raced'
      PROVE  CacheInv(k)'
  BY <1>2, <1>f DEF SearchBegin, SearchRead, SearchEnd
<1>3. ASSUME NEW l \in Terms, SearchInsert(l), NEW k \in Terms \ raced' PROVE CacheInv(k)'
  <2>1. CASE k # l
    BY <1>3, <1>f, <2>1 DEF SearchInsert, TypeOK
  <2>2. CASE k = l
    <3>1. /\ k \notin raced /\ resident'[k] = {Stored(k)} /\ UNCHANGED <<storage, txns>>
          /\ \A t \in Txs : AtWork(t) => k \notin Touched(t)
      BY <1>3, <2>2 DEF SearchInsert, TypeOK
    <3>2. \A t \in Txs : k \notin Touched(t)'
      <4>1. ASSUME NEW t \in Txs, ~AtWork(t) PROVE Touched(t) = {}
        BY <4>1 DEF TextInv, Released, Touched
      <4>2. QED
        BY <3>1, <4>1 DEF Touched
    <3>3. Stored(k) = Scan(k) /\ Scan(k)' = Scan(k)
      BY <3>1 DEF TextInv, StoredInv, Stored, Scan
    <3>4. QED
      BY <3>1, <3>2, <3>3, GetIs DEF CacheInv
  <2>3. QED
    BY <2>1, <2>2
<1>4. CASE Crash
  BY <1>4 DEF Crash, CacheInv, Touched, NoLists
<1>5. QED
  BY <1>0, <1>1, <1>2, <1>3, <1>4 DEF Next, Search

(* The invariant holds of a new collection. *)
LEMMA TextInvInit == Init => TextInv
<1> SUFFICES ASSUME Init PROVE TextInv
  OBVIOUS
<1>1. \A t \in Txs : Released(t) /\ Work(t)
  BY DEF Init, Released, Work, NoOp, NoLists
<1>2. \A t \in Txs : Touched(t) = {} /\ op[t].doc = {}
  BY DEF Init, Touched, NoOp
<1>3. Exclusive
  BY <1>2 DEF Exclusive
<1>4. \A k \in Terms : StoredInv(k)
  BY DEF Init, StoredInv, Scan, Has, NoLists
<1>5. \A k \in Terms : CacheInv(k)
  BY <1>2 DEF Init, CacheInv, NoLists
<1>6. QED
  BY <1>1, <1>3, <1>4, <1>5 DEF TextInv

(* Every step keeps the invariant. *)
LEMMA TextInvStep ==
    ASSUME TypeOK, TextInv, [Next]_vars
    PROVE  TypeOK' /\ TextInv'
<1>1. TypeOK'
  BY TypeOKStep
<1>2. \A u \in Txs : Released(u)' /\ Work(u)'
  BY <1>1, WorkStep
<1>3. Exclusive'
  BY ExclusiveStep
<1>4. \A k \in Terms \ raced' : StoredInv(k)'
  BY StoredStep
<1>5. \A k \in Terms \ raced' : CacheInv(k)'
  BY <1>3, CacheStep
<1>6. QED
  BY <1>1, <1>2, <1>3, <1>4, <1>5 DEF TextInv

(* The inductive invariant: the types, what each transaction has staged, one writer of a
   document, and for the terms whose list no two have used at a time the agreement of
   texts, postings, tombstones, whole lists and cache. *)
THEOREM TextInvariant == Spec => [](TypeOK /\ TextInv)
<1>1. Init => TypeOK /\ TextInv
  BY TypeOKInit, TextInvInit
<1>2. TypeOK /\ TextInv /\ [Next]_vars => TypeOK' /\ TextInv'
  BY TextInvStep
<1>3. QED
  BY <1>1, <1>2, PTL DEF Spec

(* The types; the counter total_docs, which fetch_add and fetch_sub change, stays within
   its width, and so does the number written to meta:stats. *)
THEOREM TextTypes == Spec => []TypeOK
  BY TextInvariant, PTL

(* A document that nobody writes: what the cache has of it under term k is what the
   storage engine has. *)
LEMMA CachedAsStored ==
    ASSUME TypeOK, TextInv, NEW d \in Docs, NEW k \in Terms \ raced, ~Busy(d)
    PROVE  /\ d \in List(k) => d \in Scan(k)
           /\ d \in Scan(k) /\ Has(d, k) => d \in List(k)
<1>0. StoredInv(k) /\ CacheInv(k) /\ Stored(k) = Scan(k)
  BY DEF TextInv, StoredInv, Stored
<1>1. CASE resident[k] = {}
  BY <1>0, <1>1 DEF List
<1>2. CASE resident[k] # {} /\ \A t \in Txs : k \notin Touched(t)
  BY <1>0, <1>2 DEF List, CacheInv
<1>3. ASSUME resident[k] # {}, NEW t \in Txs, k \in Touched(t)
      PROVE  /\ d \in List(k) => d \in Scan(k)
             /\ d \in Scan(k) /\ Has(d, k) => d \in List(k)
  <2>1. UserCache(t, k) /\ List(k) = Get(resident[k]) /\ Work(t)
    BY <1>0, <1>3 DEF CacheInv, List, TextInv
  <2>2. d \notin op[t].doc /\ AtWork(t)
    <3>1. AtWork(t)
      BY <1>3 DEF TextInv, Released, Touched
    <3>2. QED
      BY <3>1 DEF Busy
  <2>3. /\ d \in View(t, k) => d \in Scan(k)
        /\ d \in Scan(k) /\ Has(d, k) => d \in View(t, k) /\ <<d, k>> \notin at[t]
    <3>1. CASE op[t].doc = {}
      BY <2>1, <2>2, <3>1 DEF Work, Resolves, View
    <3>2. CASE op[t].doc # {}
      <4>1. PICK e \in Docs : op[t].doc = {e} /\ d # e
        <5>1. op[t].doc \in Option(Docs)
          BY DEF TypeOK
        <5>2. QED
          BY <2>2, <3>2, <5>1 DEF Option
      <4>2. <<d, k>> \notin put_pl[t] /\ <<d, k>> \notin delete_pl[t] /\ <<d, k>> \notin at[t]
        BY <2>1, <4>1 DEF Work, Writes
      <4>3. QED
        BY <4>2 DEF View
    <3>3. QED
      BY <3>1, <3>2
  <2>4. CASE \A e \in Docs : <<e, k>> \notin at[t]
    <3>1. CASE staged_plb[t][k] = {}
      BY <1>3, <2>1, <2>4, <3>1 DEF UserCache
    <3>2. CASE staged_plb[t][k] # {}
      <4>1. resident[k] = {View(t, k)}
        BY <1>3, <2>1, <2>4, <3>2 DEF UserCache
      <4>2. QED
        BY <2>1, <2>3, <4>1, GetIs
    <3>3. QED
      BY <3>1, <3>2
  <2>5. ASSUME NEW e \in Docs, <<e, k>> \in at[t]
        PROVE  /\ d \in List(k) => d \in Scan(k)
               /\ d \in Scan(k) /\ Has(d, k) => d \in List(k)
    <3>1. Loaded(Get(resident[k]), t, e, k)
      BY <1>3, <2>1, <2>5 DEF UserCache
    <3>2. QED
      BY <2>1, <2>3, <2>5, <3>1 DEF Loaded
  <2>6. QED
    BY <2>4, <2>5
<1>4. QED
  BY <1>1, <1>2, <1>3

(* Each term of a committed text keeps its posting in the storage engine, in the whole list
   if there is one, and a search finds it through the cache unless a tombstone hides it,
   whatever upsert_document, delete_document, resolve_tombstones and rollback do to others. *)
THEOREM PostingsSurvive == Spec => []PostingsKept
<1>1. TypeOK /\ TextInv => PostingsKept
  <2> SUFFICES ASSUME TypeOK, TextInv, NEW d \in Docs, NEW k \in Terms \ raced, Has(d, k)
               PROVE  /\ d \in Stored(k)
                      /\ ~Busy(d) /\ <<d, k>> \notin tbs => Hit(d, k)
    BY DEF PostingsKept
  <2>1. d \in Scan(k) /\ Stored(k) = Scan(k)
    BY DEF TextInv, StoredInv, Stored
  <2>2. ~Busy(d) => d \in List(k)
    BY <2>1, CachedAsStored
  <2>3. QED
    BY <2>1, <2>2 DEF Hit, Has
<1>2. QED
  BY <1>1, TextInvariant, PTL

(* block_max_wand_search finds no document that nobody writes under a term that its
   committed text does not have: each stale posting has a tombstone, in storage and for the
   cached lists that uncommitted transactions have changed. *)
THEOREM NoGhosts == Spec => []NoGhost
<1>1. TypeOK /\ TextInv => NoGhost
  <2> SUFFICES ASSUME TypeOK, TextInv, NEW d \in Docs, NEW k \in Terms \ raced, ~Busy(d), Hit(d, k)
               PROVE  Has(d, k)
    BY DEF NoGhost
  <2>1. d \in Scan(k) /\ <<d, k>> \notin tbs
    BY CachedAsStored DEF Hit
  <2>2. QED
    BY <2>1 DEF TextInv, StoredInv
<1>2. QED
  BY <1>1, TextInvariant, PTL

-----------------------------------------------------------------------------
(* The number of documents.                                                *)

(* A number, its quotient and its remainder. *)
LEMMA Division ==
  ASSUME NEW M \in Nat \ {0}, NEW a \in Int
  PROVE  \E q \in Int, r \in 0 .. M - 1 : a = M * q + r /\ a % M = r
<1>1. a % M \in 0 .. M - 1 /\ a = M * (a \div M) + (a % M) /\ a \div M \in Int
  OBVIOUS
<1> QED BY <1>1

(* The remainder is unique. *)
LEMMA OneRemainder ==
  ASSUME NEW M \in Nat \ {0}, NEW r \in 0 .. M - 1, NEW s \in 0 .. M - 1,
         NEW q \in Int, NEW p \in Int, M * q + r = M * p + s
  PROVE  r = s
<1>0. M * (q - p) = s - r /\ M * (p - q) = r - s
  OBVIOUS
<1>1. CASE q > p
  <2>1. q - p >= 1
    BY <1>1
  <2>2. M * (q - p) >= M
    BY <2>1
  <2> QED BY <1>0, <2>2
<1>2. CASE q < p
  <2>1. p - q >= 1
    BY <1>2
  <2>2. M * (p - q) >= M
    BY <2>1
  <2> QED BY <1>0, <2>2
<1>3. CASE q = p
  BY <1>3
<1> QED BY <1>1, <1>2, <1>3

(* Numbers that differ by a multiple of M have the same remainder. *)
LEMMA Congruent ==
  ASSUME NEW M \in Nat \ {0}, NEW a \in Int, NEW b \in Int, NEW k \in Int, a = b + M * k
  PROVE  a % M = b % M
<1>1. PICK q \in Int, r \in 0 .. M - 1 : a = M * q + r /\ a % M = r
  BY Division
<1>2. PICK p \in Int, s \in 0 .. M - 1 : b = M * p + s /\ b % M = s
  BY Division
<1>3. PICK x \in Int : x = p + k
  OBVIOUS
<1>4. M * x = M * p + M * k
  BY <1>3
<1>5. M * q + r = M * x + s
  BY <1>1, <1>2, <1>4
<1>6. r = s
  BY <1>5, OneRemainder
<1> QED BY <1>1, <1>2, <1>6

(* What a counter that wraps around adds up to. *)
LEMMA RemainderOfSum ==
  ASSUME NEW M \in Nat \ {0}, NEW a \in Int, NEW b \in Int, NEW c \in Int
  PROVE  /\ a % M = b % M => (a + c) % M = (b + c) % M
         /\ ((a % M) + c) % M = (a + c) % M
<1>1. PICK q \in Int, r \in 0 .. M - 1 : a = M * q + r /\ a % M = r
  BY Division
<1>2. PICK p \in Int, s \in 0 .. M - 1 : b = M * p + s /\ b % M = s
  BY Division
<1>3. ASSUME r = s PROVE (a + c) % M = (b + c) % M
  <2>1. PICK k \in Int : k = q - p
    OBVIOUS
  <2>2. M * k = M * q - M * p
    BY <2>1
  <2>3. PICK x \in Int, y \in Int : x = a + c /\ y = b + c
    OBVIOUS
  <2>4. x = y + M * k
    BY <1>1, <1>2, <1>3, <2>2, <2>3
  <2>5. x % M = y % M
    BY <2>4, Congruent
  <2> QED BY <2>3, <2>5
<1>4. (r + c) % M = (a + c) % M
  <2>1. PICK x \in Int, y \in Int : x = a + c /\ y = r + c
    OBVIOUS
  <2>2. x = y + M * q
    BY <1>1, <2>1
  <2>3. x % M = y % M
    BY <2>2, Congruent
  <2> QED BY <2>1, <2>3
<1> QED BY <1>1, <1>2, <1>3, <1>4

(* A set with one element more. *)
LEMMA OneMore ==
  ASSUME NEW S, NEW T, NEW x, IsFiniteSet(S), x \notin S, T = S \union {x}
  PROVE  IsFiniteSet(T) /\ Cardinality(S) \in Nat /\ Cardinality(T) = Cardinality(S) + 1
BY FS_AddElement, FS_CardinalityType

(* A set with one element less. *)
LEMMA OneLess ==
  ASSUME NEW S, NEW T, NEW x, IsFiniteSet(S), x \in S, T = S \ {x}
  PROVE  IsFiniteSet(T) /\ Cardinality(S) \in Nat /\ Cardinality(T) = Cardinality(S) - 1
BY FS_RemoveElement, FS_CardinalityType

(* The numbers that Counted adds up. *)
LEMMA StatsNumbers ==
  ASSUME TypeOK, StatsInv
  PROVE  /\ Modulus \in Nat \ {0} /\ total_docs \in Int
         /\ \A n : IsFiniteSet(Uncounted(n)) /\ Cardinality(Uncounted(n)) \in Int
         /\ IsFiniteSet(Present) /\ Cardinality(Present) \in Int
<1>1. Modulus \in Nat \ {0} /\ total_docs \in Int
  BY TextAssumption DEF TypeOK
<1>2. ASSUME NEW n PROVE IsFiniteSet(Uncounted(n)) /\ Cardinality(Uncounted(n)) \in Int
  <2>1. Uncounted(n) \in SUBSET {t \in Txs : pc[t] = "committed"}
    BY DEF Uncounted
  <2>2. IsFiniteSet(Uncounted(n))
    BY <2>1, FS_Subset DEF StatsInv
  <2> QED BY <2>2, FS_CardinalityType
<1>3. IsFiniteSet(Present) /\ Cardinality(Present) \in Int
  BY FS_CardinalityType DEF StatsInv
<1> QED BY <1>1, <1>2, <1>3

(* What u counts stays the same while u and its document stay as they are. *)
LEMMA StatsKept ==
  ASSUME NEW u \in Txs, StatsOf(u), pc'[u] = pc[u], op'[u] = op[u], staged_doc'[u] = staged_doc[u],
         staged_stats'[u] = staged_stats[u], pc[u] = "meta" => total_docs' = total_docs,
         \A d \in op[u].doc : doc'[d] = doc[d]
  PROVE  StatsOf(u)'
<1>1. ASSUME NEW d \in Docs, op'[u].doc = {d} PROVE Counts(u, d)'
  <2>1. Counts(u, d) /\ doc'[d] = doc[d]
    BY <1>1 DEF StatsOf
  <2> QED BY <2>1 DEF Counts, Written
<1> QED BY <1>1 DEF StatsOf

(* A transaction that stages, or gives up, changes nothing of what is counted. *)
LEMMA QuietStats ==
  ASSUME StatsInv, NEW t \in Txs, UNCHANGED <<doc, meta, total_docs>>, skewed => skewed',
         \A u \in Txs \ {t} : /\ pc'[u] = pc[u] /\ op'[u] = op[u]
                              /\ staged_doc'[u] = staged_doc[u]
                              /\ staged_stats'[u] = staged_stats[u],
         pc[t] \notin {"committed", "meta"}, pc'[t] \notin {"committed", "meta"},
         ~skewed' => StatsOf(t)'
  PROVE  StatsInv'
<1>1. /\ Present' = Present
      /\ \A n : Uncounted(n)' = Uncounted(n)
      /\ {u \in Txs : pc'[u] = "committed"} = {u \in Txs : pc[u] = "committed"}
      /\ \A u \in Txs : pc'[u] = "meta" <=> pc[u] = "meta"
  BY DEF Present, Uncounted
<1>2. Counted' = Counted
  BY <1>1 DEF Counted
<1>3. ASSUME ~skewed', NEW u \in Txs PROVE StatsOf(u)'
  <2>1. CASE u = t
    BY <1>3, <2>1
  <2>2. CASE u # t
    <3>1. StatsOf(u)
      BY <1>3 DEF StatsInv
    <3> QED BY <2>2, <3>1, StatsKept
  <2> QED BY <2>1, <2>2
<1>4. StatsExact'
  BY <1>1, <1>2 DEF StatsInv, StatsExact
<1> QED BY <1>1, <1>3, <1>4 DEF StatsInv

(* Initially there is nothing to count. *)
LEMMA StatsInit == Init => StatsInv
<1> SUFFICES ASSUME Init PROVE StatsInv
  OBVIOUS
<1>1. Present = {} /\ {t \in Txs : pc[t] = "committed"} = {} /\ \A n : Uncounted(n) = {}
  BY DEF Init, Present, Uncounted
<1>2. \A t \in Txs : StatsOf(t) /\ pc[t] = "idle"
  BY DEF Init, StatsOf, NoOp
<1>3. Counted = (0 + 0 - 0) % Modulus
  BY <1>1, FS_EmptySet DEF Counted, Init
<1>4. StatsExact
  BY <1>1, <1>3, FS_EmptySet DEF StatsExact, Init
<1> QED BY <1>1, <1>2, <1>4, FS_EmptySet DEF StatsInv

(* The storage engine commits: the document comes or goes, and t has it to count. *)
LEMMA StatsCommit ==
  ASSUME TypeOK, TextInv, StatsInv, NEW t \in Txs, StorageCommit(t),
         \A u \in Txs : u # t => Kept(u)
  PROVE  StatsInv'
<1>0. /\ pc[t] = "staged" /\ pc'[t] = "committed" /\ op'[t] = NoOp
      /\ doc' = [d \in Docs |-> IF d \in op[t].doc THEN Written(doc[d], staged_doc[t]) ELSE doc[d]]
      /\ UNCHANGED <<meta, total_docs, staged_stats, skewed>>
  BY DEF StorageCommit, TypeOK
<1> DEFINE s == staged_stats[t]
<1>1. /\ {u \in Txs : pc'[u] = "committed"} = {u \in Txs : pc[u] = "committed"} \union {t}
      /\ \A n : Uncounted(n)' = IF s = n THEN Uncounted(n) \union {t} ELSE Uncounted(n)
      /\ \A n : t \notin Uncounted(n)
      /\ \A u \in Txs : pc'[u] = "meta" <=> pc[u] = "meta"
  BY <1>0 DEF Uncounted, Kept
<1>2. IsFiniteSet({u \in Txs : pc'[u] = "committed"})
  BY <1>1, FS_AddElement DEF StatsInv
<1>3. op[t].doc \in Option(Docs)
  BY DEF TypeOK
<1>4. IsFiniteSet(Present')
  <2>1. CASE op[t].doc = {}
    <3>1. Present' = Present
      BY <1>0, <2>1 DEF Present
    <3> QED BY <3>1 DEF StatsInv
  <2>2. CASE op[t].doc # {}
    <3>1. PICK d \in Docs : op[t].doc = {d}
      BY <1>3, <2>2, OptionIs
    <3>2. Present' \in SUBSET (Present \union {d})
      BY <1>0, <3>1 DEF Present
    <3>3. IsFiniteSet(Present \union {d})
      BY FS_AddElement DEF StatsInv
    <3> QED BY <3>2, <3>3, FS_Subset
  <2> QED BY <2>1, <2>2
<1>5. ASSUME ~skewed, NEW u \in Txs PROVE StatsOf(u)'
  <2>0. StatsOf(u) /\ StatsOf(t)
    BY <1>5 DEF StatsInv
  <2>1. CASE u = t
    <3>1. s \in {-1, 0, 1}
      <4>1. CASE op[t].doc = {}
        BY <2>0, <1>0, <4>1 DEF StatsOf
      <4>2. CASE op[t].doc # {}
        <5>1. PICK d \in Docs : op[t].doc = {d}
          BY <1>3, <4>2, OptionIs
        <5>2. Counts(t, d)
          BY <2>0, <5>1 DEF StatsOf
        <5> QED BY <5>2, <1>0 DEF Counts
      <4> QED BY <4>1, <4>2
    <3> QED BY <2>1, <3>1, <1>0 DEF StatsOf, NoOp
  <2>2. CASE u # t
    <3>1. \A d \in op[u].doc : doc'[d] = doc[d]
      <4>1. op[t].doc \intersect op[u].doc = {} /\ op[u].doc \in Option(Docs)
        BY <2>2 DEF TextInv, Exclusive, TypeOK
      <4>2. op[u].doc \subseteq Docs
        BY <4>1, OptionIs
      <4> QED BY <4>1, <4>2, <1>0
    <3> QED BY <2>0, <2>2, <3>1, <1>0, StatsKept DEF Kept
  <2> QED BY <2>1, <2>2
<1>6. ASSUME ~skewed PROVE Counted' = Cardinality(Present') % Modulus
  <2> DEFINE P == Cardinality(Uncounted(1))
             N == Cardinality(Uncounted(-1))
             D == Cardinality(Present)
             M == Modulus
  <2>1. /\ M \in Nat \ {0} /\ total_docs \in Int /\ P \in Int /\ N \in Int /\ D \in Int
        /\ IsFiniteSet(Uncounted(1)) /\ IsFiniteSet(Uncounted(-1)) /\ IsFiniteSet(Present)
    BY StatsNumbers
  <2>2. (total_docs + P - N) % M = D % M
    BY <1>6 DEF StatsInv, StatsExact, Counted
  <2>3. Counted' = (total_docs + Cardinality(Uncounted(1)') - Cardinality(Uncounted(-1)')) % M
    BY <1>0 DEF Counted
  <2>4. StatsOf(t)
    BY <1>6 DEF StatsInv
  <2>5. ASSUME s = 0, Present' = Present PROVE Counted' = Cardinality(Present') % M
    <3>1. Uncounted(1)' = Uncounted(1) /\ Uncounted(-1)' = Uncounted(-1)
      BY <2>5, <1>1
    <3> QED BY <2>2, <2>3, <2>5, <3>1
  <2>6. ASSUME s = 1, NEW d, d \notin Present, Present' = Present \union {d}
        PROVE  Counted' = Cardinality(Present') % M
    <3>1. Uncounted(1)' = Uncounted(1) \union {t} /\ Uncounted(-1)' = Uncounted(-1)
      BY <2>6, <1>1
    <3>2. Cardinality(Uncounted(1)') = P + 1 /\ Cardinality(Present') = D + 1
      BY <2>1, <2>6, <3>1, <1>1, OneMore
    <3>3. total_docs + (P + 1) - N = (total_docs + P - N) + 1 /\ total_docs + P - N \in Int
      BY <2>1
    <3>4. ((total_docs + P - N) + 1) % M = (D + 1) % M
      BY <2>1, <2>2, <3>3, RemainderOfSum
    <3> QED BY <2>3, <3>1, <3>2, <3>3, <3>4
  <2>7. ASSUME s = -1, NEW d, d \in Present, Present' = Present \ {d}
        PROVE  Counted' = Cardinality(Present') % M
    <3>1. Uncounted(1)' = Uncounted(1) /\ Uncounted(-1)' = Uncounted(-1) \union {t}
      BY <2>7, <1>1
    <3>2. Cardinality(Uncounted(-1)') = N + 1
      BY <2>1, <3>1, <1>1, OneMore
    <3>3. Cardinality(Present') = D - 1
      BY <2>1, <2>7, OneLess
    <3>4. total_docs + P - (N + 1) = (total_docs + P - N) + (-1) /\ total_docs + P - N \in Int
          /\ D - 1 = D + (-1)
      BY <2>1
    <3>5. ((total_docs + P - N) + (-1)) % M = (D + (-1)) % M
      BY <2>1, <2>2, <3>4, RemainderOfSum
    <3> QED BY <2>3, <3>1, <3>2, <3>3, <3>4, <3>5
  <2> HIDE DEF P, N, D, M
  <2>8. CASE op[t].doc = {}
    <3>1. s = 0 /\ Present' = Present
      BY <2>4, <2>8, <1>0 DEF StatsOf, Present
    <3> QED BY <3>1, <2>5 DEF M
  <2>9. CASE op[t].doc # {}
    <3>1. PICK d \in Docs : op[t].doc = {d}
      BY <1>3, <2>9, OptionIs
    <3>2. Counts(t, d)
      BY <2>4, <3>1 DEF StatsOf
    <3>3. s = CASE doc[d] = {} /\ doc'[d] # {} -> 1
                [] doc[d] # {} /\ doc'[d] = {} -> -1
                [] OTHER -> 0
      BY <3>1, <3>2, <1>0 DEF Counts
    <3>4. \A e \in Docs \ {d} : doc'[e] = doc[e]
      BY <3>1, <1>0
    <3>5. CASE doc[d] = {} /\ doc'[d] # {}
      <4>1. s = 1
        BY <3>3, <3>5
      <4>2. d \notin Present /\ Present' = Present \union {d}
        BY <3>4, <3>5 DEF Present
      <4> QED BY <4>1, <4>2, <2>6 DEF M
    <3>6. CASE doc[d] # {} /\ doc'[d] = {}
      <4>1. s = -1
        BY <3>3, <3>6
      <4>2. d \in Present /\ Present' = Present \ {d}
        BY <3>4, <3>6 DEF Present
      <4> QED BY <4>1, <4>2, <2>7 DEF M
    <3>7. CASE ~(doc[d] = {} /\ doc'[d] # {}) /\ ~(doc[d] # {} /\ doc'[d] = {})
      <4>1. s = 0
        BY <3>3, <3>7
      <4>2. Present' = Present
        BY <3>4, <3>7 DEF Present
      <4> QED BY <4>1, <4>2, <2>5 DEF M
    <3> QED BY <3>5, <3>6, <3>7
  <2> QED BY <2>8, <2>9
<1>7. StatsExact'
  BY <1>0, <1>1, <1>6 DEF StatsExact, StatsInv
<1> QED BY <1>0, <1>1, <1>2, <1>4, <1>5, <1>7 DEF StatsInv

(* commit_stats: what t has counted it has no longer to count. *)
LEMMA StatsCounted ==
  ASSUME TypeOK, TextInv, StatsInv, NEW t \in Txs, commit_stats(t),
         \A u \in Txs : u # t => Kept(u)
  PROVE  StatsInv'
<1> DEFINE s == staged_stats[t]
<1>0. /\ pc[t] = "committed" /\ pc'[t] = "meta"
      /\ total_docs' = (total_docs + s) % Modulus
      /\ staged_stats'[t] = total_docs' /\ \A u \in Txs \ {t} : staged_stats'[u] = staged_stats[u]
      /\ skewed' = (skewed \/ \E u \in Txs : pc[u] = "meta")
      /\ UNCHANGED <<doc, meta, op, staged_doc>>
  BY DEF commit_stats, TypeOK
<1>1. /\ {u \in Txs : pc'[u] = "committed"} = {u \in Txs : pc[u] = "committed"} \ {t}
      /\ \A n : Uncounted(n)' = IF s = n THEN Uncounted(n) \ {t} ELSE Uncounted(n)
      /\ \A n : t \in Uncounted(n) <=> s = n
      /\ Present' = Present
  BY <1>0 DEF Uncounted, Kept, Present
<1>2. IsFiniteSet({u \in Txs : pc'[u] = "committed"})
  BY <1>1, FS_RemoveElement DEF StatsInv
<1>3. ASSUME ~skewed'
      PROVE  /\ ~skewed /\ \A u \in Txs : StatsOf(u) /\ pc[u] # "meta"
             /\ \A u, v \in Txs : pc'[u] = "meta" /\ pc'[v] = "meta" => u = v
  <2>1. ~skewed /\ \A u \in Txs : pc[u] # "meta"
    BY <1>0, <1>3
  <2> QED BY <2>1 DEF StatsInv, Kept
<1>4. ASSUME ~skewed', NEW u \in Txs PROVE StatsOf(u)'
  <2>1. CASE u = t
    <3>1. op[t].doc = {}
      BY <1>0 DEF TextInv, Released, NoOp
    <3> QED BY <2>1, <3>1, <1>0 DEF StatsOf
  <2>2. CASE u # t
    BY <2>2, <1>0, <1>3, <1>4, StatsKept DEF Kept
  <2> QED BY <2>1, <2>2
<1>5. ASSUME ~skewed' PROVE Counted' = Cardinality(Present') % Modulus
  <2> DEFINE P == Cardinality(Uncounted(1))
             N == Cardinality(Uncounted(-1))
             D == Cardinality(Present)
             M == Modulus
  <2>1. /\ M \in Nat \ {0} /\ total_docs \in Int /\ P \in Int /\ N \in Int /\ D \in Int
        /\ IsFiniteSet(Uncounted(1)) /\ IsFiniteSet(Uncounted(-1))
    BY StatsNumbers
  <2>2. (total_docs + P - N) % M = D % M
    BY <1>3, <1>5 DEF StatsInv, StatsExact, Counted
  <2>3. Counted' = (((total_docs + s) % M) + Cardinality(Uncounted(1)') - Cardinality(Uncounted(-1)')) % M
    BY <1>0 DEF Counted
  <2>4. s \in {-1, 0, 1}
    BY <1>0, <1>3, <1>5 DEF StatsOf
  <2>5. PICK x \in Int, y \in Int :
          x = total_docs + s /\ y = Cardinality(Uncounted(1)') - Cardinality(Uncounted(-1)')
          /\ x + y = total_docs + P - N
    <3>1. CASE s = 1
      <4>1. Uncounted(1)' = Uncounted(1) \ {t} /\ Uncounted(-1)' = Uncounted(-1) /\ t \in Uncounted(1)
        BY <3>1, <1>1
      <4>2. Cardinality(Uncounted(1)') = P - 1 /\ Cardinality(Uncounted(-1)') = N
        BY <2>1, <4>1, OneLess
      <4> QED BY <2>1, <3>1, <4>2
    <3>2. CASE s = -1
      <4>1. Uncounted(1)' = Uncounted(1) /\ Uncounted(-1)' = Uncounted(-1) \ {t} /\ t \in Uncounted(-1)
        BY <3>2, <1>1
      <4>2. Cardinality(Uncounted(1)') = P /\ Cardinality(Uncounted(-1)') = N - 1
        BY <2>1, <4>1, OneLess
      <4> QED BY <2>1, <3>2, <4>2
    <3>3. CASE s = 0
      <4>1. Uncounted(1)' = Uncounted(1) /\ Uncounted(-1)' = Uncounted(-1)
        BY <3>3, <1>1
      <4> QED BY <2>1, <3>3, <4>1
    <3> QED BY <2>4, <3>1, <3>2, <3>3
  <2>6. ((x % M) + y) % M = (x + y) % M /\ x % M \in Int
    <3>1. M \in Nat \ {0} /\ x \in Int /\ y \in Int
      BY <2>1
    <3>2. x % M \in Int
      BY Remainder
    <3> HIDE DEF M
    <3>3. ((x % M) + y) % M = (x + y) % M
      BY <3>1, RemainderOfSum
    <3> QED BY <3>2, <3>3
  <2>7. Cardinality(Uncounted(1)') \in Int /\ Cardinality(Uncounted(-1)') \in Int
    <3>1. /\ Uncounted(1)' \in SUBSET Uncounted(1)
          /\ Uncounted(-1)' \in SUBSET Uncounted(-1)
      BY <1>1
    <3>2. IsFiniteSet(Uncounted(1)') /\ IsFiniteSet(Uncounted(-1)')
      BY <2>1, <3>1, FS_Subset
    <3> QED BY <3>2, FS_CardinalityType
  <2>8. Counted' = ((x % M) + y) % M
    <3>1. (x % M) + Cardinality(Uncounted(1)') - Cardinality(Uncounted(-1)') = (x % M) + y
      BY <2>5, <2>6, <2>7
    <3> QED BY <2>3, <2>5, <3>1
  <2> QED BY <2>2, <2>5, <2>6, <2>8, <1>1
<1>6. StatsExact'
  BY <1>0, <1>5 DEF StatsExact
<1>7. IsFiniteSet(Present')
  BY <1>1 DEF StatsInv
<1> QED BY <1>2, <1>3, <1>4, <1>6, <1>7 DEF StatsInv

(* The number is written: nobody else is about to write another. *)
LEMMA StatsWritten ==
  ASSUME TypeOK, TextInv, StatsInv, NEW t \in Txs, MetaCommit(t),
         \A u \in Txs : u # t => Kept(u)
  PROVE  StatsInv'
<1>0. /\ pc[t] = "meta" /\ pc'[t] = "done" /\ meta' = staged_stats[t]
      /\ staged_stats'[t] = 0 /\ \A u \in Txs \ {t} : staged_stats'[u] = staged_stats[u]
      /\ UNCHANGED <<doc, total_docs, op, staged_doc, skewed>>
  BY DEF MetaCommit, TypeOK
<1>1. /\ {u \in Txs : pc'[u] = "committed"} = {u \in Txs : pc[u] = "committed"}
      /\ \A n : Uncounted(n)' = Uncounted(n)
      /\ Present' = Present
  BY <1>0 DEF Uncounted, Kept, Present
<1>2. Counted' = Counted
  BY <1>0, <1>1 DEF Counted
<1>3. ASSUME ~skewed PROVE meta' = total_docs /\ \A u \in Txs : StatsOf(u)
  BY <1>0, <1>3 DEF StatsInv, StatsOf
<1>4. ASSUME ~skewed, NEW u \in Txs PROVE StatsOf(u)'
  <2>1. CASE u = t
    <3>1. op[t].doc = {}
      BY <1>0 DEF TextInv, Released, NoOp
    <3> QED BY <2>1, <3>1, <1>0 DEF StatsOf
  <2>2. CASE u # t
    BY <2>2, <1>0, <1>3, <1>4, StatsKept DEF Kept
  <2> QED BY <2>1, <2>2
<1>5. StatsExact'
  BY <1>0, <1>1, <1>2, <1>3 DEF StatsExact, StatsInv
<1>6. ~skewed => \A u, v \in Txs : pc'[u] = "meta" /\ pc'[v] = "meta" => u = v
  BY <1>0 DEF StatsInv, Kept
<1> QED BY <1>0, <1>1, <1>4, <1>5, <1>6 DEF StatsInv

(* A rollback after the storage commit, and a crash between it and the write of the number,
   leave the number wrong; another crash finds nothing to count. *)
LEMMA StatsLost ==
  ASSUME TypeOK, StatsInv, (\E t \in Txs : LateRollback(t)) \/ Crash
  PROVE  StatsInv'
<1>1. Present' = Present /\ IsFiniteSet(Present')
  <2>1. doc' = doc
    BY DEF LateRollback, Crash
  <2> QED BY <2>1 DEF Present, StatsInv
<1>2. IsFiniteSet({u \in Txs : pc'[u] = "committed"})
  <2>1. {u \in Txs : pc'[u] = "committed"} \in SUBSET {u \in Txs : pc[u] = "committed"}
    BY DEF LateRollback, Crash, DropCache, TypeOK
  <2> QED BY <2>1, FS_Subset DEF StatsInv
<1>3. CASE \E t \in Txs : LateRollback(t)
  <2>1. skewed'
    BY <1>3 DEF LateRollback
  <2> QED BY <2>1, <1>1, <1>2 DEF StatsInv, StatsExact
<1>4. CASE Crash
  <2>1. SUFFICES ASSUME ~skewed'
                 PROVE  /\ \A t \in Txs : StatsOf(t)'
                        /\ \A t, u \in Txs : pc'[t] = "meta" /\ pc'[u] = "meta" => t = u
                        /\ Counted' = Cardinality(Present') % Modulus
                        /\ (\A t \in Txs : pc'[t] # "meta") => meta' = total_docs'
    BY <1>1, <1>2 DEF StatsInv, StatsExact
  <2>2. ~skewed /\ \A t \in Txs : pc[t] \notin {"committed", "meta"}
    BY <1>4, <2>1 DEF Crash
  <2>3. /\ \A t \in Txs : pc'[t] \in {"idle", "done"} /\ op'[t] = NoOp /\ staged_stats'[t] = 0
        /\ total_docs' = meta /\ meta' = meta
    BY <1>4 DEF Crash
  <2>4. meta = total_docs /\ Counted = Cardinality(Present) % Modulus
    BY <2>2 DEF StatsInv, StatsExact
  <2>5. \A n : Uncounted(n)' = Uncounted(n)
    BY <2>2, <2>3 DEF Uncounted
  <2>6. Counted' = Counted
    BY <2>3, <2>4, <2>5 DEF Counted
  <2>7. \A t \in Txs : StatsOf(t)'
    BY <2>3 DEF StatsOf, NoOp
  <2> QED BY <2>3, <2>4, <2>6, <2>7, <1>1
<1> QED BY <1>3, <1>4

(* A transaction that is at a pair is at work. *)
LEMMA StatsWork ==
  ASSUME TypeOK, TextInv, NEW t \in Txs, AtWork(t) \/ at[t] # {}
  PROVE  pc[t] \in Staging
BY DEF TextInv, Released

(* delete_document and upsert_document count the document as it is now. *)
LEMMA StatsStart ==
  ASSUME TypeOK, TextInv, StatsInv, NEW t \in Txs, NEW d \in Docs, ~skewed',
         DeleteStart(t, d) \/ UpsertStart(t, d)
  PROVE  StatsOf(t)'
<1>0. /\ op[t].doc = {d} /\ Writes(t, d) /\ op'[t] = op[t] /\ doc' = doc
      /\ staged_stats[t] \in Int
  <2>1. d \in op[t].doc /\ op' = op /\ doc' = doc
    BY DEF DeleteStart, UpsertStart
  <2> QED BY <2>1, Writer DEF TypeOK
<1>1. ~skewed /\ StatsOf(t) /\ Counts(t, d)
  <2>1. ~skewed
    BY DEF DeleteStart, UpsertStart
  <2>2. StatsOf(t)
    BY <2>1 DEF StatsInv
  <2> QED BY <2>1, <2>2, <1>0 DEF StatsOf
<1>2. SUFFICES /\ Counts(t, d)'
               /\ pc'[t] \notin {"idle", "delete", "resolving", "done", "committed", "meta"}
  BY <1>0, <1>2 DEF StatsOf
<1>3. CASE DeleteStart(t, d) /\ doc[d] = {}
  <2>1. /\ pc[t] = "delete" /\ staged_stats' = staged_stats /\ staged_doc' = staged_doc
        /\ pc'[t] = IF op[t].text = {} THEN "staged" ELSE "upsert"
    BY <1>3 DEF DeleteStart, TypeOK
  <2>2. staged_stats[t] = 0 /\ staged_doc[t] = {}
    BY <2>1, <1>0, <1>1 DEF StatsOf, Writes
  <2>3. staged_stats'[t] = 0 /\ staged_doc'[t] = {} /\ doc'[d] = {}
    BY <2>1, <2>2, <1>0, <1>3
  <2>4. Written(doc'[d], staged_doc'[t]) = {}
    BY <2>3 DEF Written
  <2> QED BY <2>1, <2>3, <2>4 DEF Counts
<1>4. CASE DeleteStart(t, d) /\ doc[d] # {}
  <2>1. pc[t] = "delete" /\ pc'[t] = "deleting" /\ staged_stats'[t] = staged_stats[t] - 1
    BY <1>4 DEF DeleteStart, TypeOK
  <2>2. staged_stats[t] = 0
    BY <2>1, <1>1 DEF StatsOf
  <2>3. staged_stats'[t] = -1 /\ doc'[d] # {}
    BY <2>1, <2>2, <1>0, <1>4
  <2> QED BY <2>1, <2>3 DEF Counts
<1>5. CASE UpsertStart(t, d)
  <2>1. /\ pc[t] = "upsert" /\ pc'[t] = "upserting" /\ ~(staged_stats[t] < 0)
        /\ staged_stats'[t] = IF doc[d] = {} THEN staged_stats[t] + 1 ELSE staged_stats[t]
    BY <1>5 DEF UpsertStart, TypeOK
  <2>2. staged_stats[t] = 0
    BY <2>1, <1>1 DEF Counts
  <2>3. staged_stats'[t] = IF doc'[d] = {} THEN 1 ELSE 0
    BY <2>1, <2>2, <1>0
  <2> QED BY <2>1, <2>3 DEF Counts
<1> QED BY <1>3, <1>4, <1>5

(* What is counted is still right when the operation is staged. *)
LEMMA StatsDone ==
  ASSUME TypeOK, TextInv, NEW t \in Txs, StatsOf(t), OpDone(t)
  PROVE  StatsOf(t)'
<1>0. /\ pc[t] \in {"deleting", "upserting", "resolving"}
      /\ pc'[t] = IF pc[t] = "deleting" /\ op[t].text # {} THEN "upsert" ELSE "staged"
      /\ op' = op /\ doc' = doc /\ staged_doc' = staged_doc /\ staged_stats' = staged_stats
      /\ op[t].doc \in Option(Docs)
  BY DEF OpDone, TypeOK
<1>1. CASE op[t].doc = {}
  <2>1. pc[t] = "resolving"
    BY <1>0, <1>1 DEF TextInv, Work, Resolves
  <2> QED BY <2>1, <1>0, <1>1 DEF StatsOf
<1>2. CASE op[t].doc # {}
  <2>1. PICK d \in Docs : op[t].doc = {d}
    BY <1>0, <1>2, OptionIs
  <2>2. Writes(t, d) /\ Counts(t, d)
    BY <2>1, Writer DEF StatsOf
  <2>3. SUFFICES Counts(t, d)'
    BY <1>0, <2>1, <2>3 DEF StatsOf
  <2>4. CASE pc[t] = "deleting"
    <3>1. staged_doc[t] = {{}} /\ doc[d] # {} /\ staged_stats[t] = -1
      BY <2>2, <2>4 DEF Writes, Counts
    <3>2. Written(doc[d], staged_doc[t]) = {}
      BY <3>1, GetIs DEF Written
    <3> QED BY <1>0, <2>4, <3>1, <3>2 DEF Counts
  <2>5. CASE pc[t] = "upserting"
    <3>1. /\ staged_doc[t] = {op[t].text} /\ op[t].text # {}
          /\ staged_stats[t] = IF doc[d] = {} THEN 1 ELSE 0
      BY <2>2, <2>5 DEF Writes, Counts
    <3>2. Written(doc[d], staged_doc[t]) # {}
      BY <3>1, GetIs DEF Written
    <3> QED BY <1>0, <2>5, <3>1, <3>2 DEF Counts
  <2> QED BY <1>0, <2>2, <2>4, <2>5 DEF Writes
<1> QED BY <1>1, <1>2

(* A step of a transaction that has not committed, or that gives up. *)
LEMMA StatsStaged ==
  ASSUME TypeOK, TextInv, StatsInv, NEW t \in Txs, \A u \in Txs : u # t => Kept(u),
         TxStep(t), ~StorageCommit(t), ~commit_stats(t), ~MetaCommit(t), ~LateRollback(t)
  PROVE  StatsInv'
<1> DEFINE Quiet == /\ UNCHANGED <<doc, meta, total_docs>> /\ (skewed => skewed')
                    /\ \A u \in Txs \ {t} : staged_stats'[u] = staged_stats[u]
                    /\ pc[t] \notin {"committed", "meta"} /\ pc'[t] \notin {"committed", "meta"}
                    /\ ~skewed' => StatsOf(t)'
<1>0. ASSUME ~skewed PROVE StatsOf(t)
  BY <1>0 DEF StatsInv
<1>1. SUFFICES Quiet
  <2>1. \A u \in Txs \ {t} : /\ pc'[u] = pc[u] /\ op'[u] = op[u]
                             /\ staged_doc'[u] = staged_doc[u]
                             /\ staged_stats'[u] = staged_stats[u]
    BY <1>1 DEF Kept
  <2> QED BY <1>1, <2>1, QuietStats
<1>2. ASSUME NEW d \in Docs, NEW text, NEW b, Begin(t, d, text, b) PROVE Quiet
  <2>1. /\ UNCHANGED <<doc, meta, total_docs, staged_stats, skewed>> /\ pc[t] = "idle"
        /\ pc'[t] \in {"delete", "upsert"} /\ op'[t].doc = {d}
    BY <1>2 DEF Begin, TypeOK
  <2>2. ASSUME ~skewed PROVE StatsOf(t)'
    <3>1. staged_stats'[t] = 0
      BY <1>0, <2>1, <2>2 DEF StatsOf
    <3> QED BY <2>1, <3>1 DEF StatsOf, Counts
  <2> QED BY <2>1, <2>2
<1>3. ASSUME NEW d \in Docs, DeleteStart(t, d) \/ UpsertStart(t, d) PROVE Quiet
  <2>1. /\ UNCHANGED <<doc, meta, total_docs>> /\ (skewed => skewed')
        /\ \A u \in Txs \ {t} : staged_stats'[u] = staged_stats[u]
        /\ pc[t] \notin {"committed", "meta"} /\ pc'[t] \notin {"committed", "meta"}
    BY <1>3 DEF DeleteStart, UpsertStart, TypeOK
  <2>2. ~skewed' => StatsOf(t)'
    BY <1>3, StatsStart
  <2> QED BY <2>1, <2>2
<1>4. CASE ResolveStart(t)
  <2>1. /\ UNCHANGED <<doc, meta, total_docs, staged_stats, skewed>> /\ pc[t] = "idle"
        /\ pc'[t] = "resolving" /\ op' = op
    BY <1>4 DEF ResolveStart, TypeOK
  <2>2. ASSUME ~skewed PROVE StatsOf(t)'
    <3>1. staged_stats'[t] = 0 /\ op'[t].doc = {}
      BY <1>0, <2>1, <2>2 DEF StatsOf, TextInv, Released, NoOp
    <3> QED BY <2>1, <3>1 DEF StatsOf
  <2> QED BY <2>1, <2>2
<1>5. ASSUME NEW d \in Docs, NEW k \in Terms,
             \/ ResolveLive(t, d, k) \/ ensure_term_loaded(t, d, k)
             \/ InsertList(t, d, k) \/ StagePosting(t, d, k)
      PROVE  Quiet
  <2>1. UNCHANGED <<doc, meta, total_docs, pc, op, staged_doc, staged_stats, skewed>>
    BY <1>5 DEF ResolveLive, ensure_term_loaded, InsertList, StagePosting
  <2>2. AtWork(t) \/ at[t] # {}
    BY <1>5 DEF ResolveLive, ensure_term_loaded, InsertList, StagePosting
  <2>3. pc[t] \notin {"committed", "meta"}
    BY <2>2, StatsWork
  <2>4. ASSUME ~skewed PROVE StatsOf(t)'
    BY <1>0, <2>1, <2>4, StatsKept
  <2> QED BY <2>1, <2>3, <2>4
<1>6. CASE OpDone(t)
  <2>1. /\ UNCHANGED <<doc, meta, total_docs, staged_stats, skewed>>
        /\ pc[t] \notin {"committed", "meta"} /\ pc'[t] \notin {"committed", "meta"}
    BY <1>6 DEF OpDone, TypeOK
  <2>2. ASSUME ~skewed PROVE StatsOf(t)'
    BY <1>0, <1>6, <2>2, StatsDone
  <2> QED BY <2>1, <2>2
<1>7. CASE Rollback(t)
  <2>1. /\ UNCHANGED <<doc, meta, total_docs, skewed>> /\ pc[t] \notin {"committed", "meta"}
        /\ \A u \in Txs \ {t} : staged_stats'[u] = staged_stats[u]
        /\ pc'[t] = "done" /\ op'[t] = NoOp /\ staged_stats'[t] = 0
    BY <1>7 DEF Rollback, DropCache, TypeOK
  <2>2. StatsOf(t)'
    BY <2>1 DEF StatsOf, NoOp
  <2> QED BY <2>1, <2>2
<1> HIDE DEF Quiet
<1> QED BY <1>2, <1>3, <1>4, <1>5, <1>6, <1>7 DEF TxStep

(* Every step keeps the number of documents right, or has it marked as skewed. *)
LEMMA StatsStep ==
  ASSUME TypeOK, TextInv, StatsInv, [Next]_vars
  PROVE  StatsInv'
<1>1. ASSUME NEW t \in Txs, TxStep(t) PROVE StatsInv'
  <2>1. \A u \in Txs : u # t => Kept(u)
    BY <1>1, OthersKept
  <2>2. CASE StorageCommit(t)
    BY <2>1, <2>2, StatsCommit
  <2>3. CASE commit_stats(t)
    BY <2>1, <2>3, StatsCounted
  <2>4. CASE MetaCommit(t)
    BY <2>1, <2>4, StatsWritten
  <2>5. CASE LateRollback(t)
    BY <2>5, StatsLost
  <2>6. CASE ~StorageCommit(t) /\ ~commit_stats(t) /\ ~MetaCommit(t) /\ ~LateRollback(t)
    BY <1>1, <2>1, <2>6, StatsStaged
  <2> QED BY <2>2, <2>3, <2>4, <2>5, <2>6
<1>2. ASSUME UNCHANGED <<doc, meta, total_docs, txns, skewed>> PROVE StatsInv'
  <2>1. /\ Present' = Present /\ \A n : Uncounted(n)' = Uncounted(n)
        /\ UNCHANGED <<doc, meta, total_docs, pc, op, staged_doc, staged_stats, skewed>>
    BY <1>2 DEF Present, Uncounted
  <2>2. Counted' = Counted
    BY <2>1 DEF Counted
  <2>3. ASSUME NEW t \in Txs, StatsOf(t) PROVE StatsOf(t)'
    BY <2>1, <2>3, StatsKept
  <2>4. StatsExact'
    BY <2>1, <2>2 DEF StatsInv, StatsExact
  <2> QED BY <2>1, <2>3, <2>4 DEF StatsInv
<1>3. CASE Search
  <2>1. UNCHANGED <<doc, meta, total_docs, txns, skewed>>
    BY <1>3 DEF Search, SearchBegin, SearchRead, SearchInsert, SearchEnd
  <2> QED BY <1>2, <2>1
<1>4. CASE Crash
  BY <1>4, StatsLost
<1>5. CASE UNCHANGED vars
  <2>1. UNCHANGED <<doc, meta, total_docs, txns, skewed>>
    BY <1>5 DEF vars
  <2> QED BY <1>2, <2>1
<1> QED BY <1>1, <1>3, <1>4, <1>5 DEF Next

(* As long as no rollback or crash comes between the storage commit and the write of
   meta:stats, no update deletes and upserts a document, and no two write the number at a
   time, total_docs and what committed transactions have yet to count (fetch_add and
   fetch_sub in commit_stats, which wrap around) make up the number of documents in the
   index, modulo the counter's width; so does meta:stats once it is written. *)
THEOREM NumberOfDocuments == Spec => []StatsExact
<1>1. Init => TypeOK /\ TextInv /\ StatsInv
  BY TypeOKInit, TextInvInit, StatsInit
<1>2. TypeOK /\ TextInv /\ StatsInv /\ [Next]_vars => (TypeOK /\ TextInv /\ StatsInv)'
  BY TextInvStep, StatsStep
<1>3. TypeOK /\ TextInv /\ StatsInv => StatsExact
  BY DEF StatsInv
<1> QED BY <1>1, <1>2, <1>3, PTL DEF Spec
=============================================================================
