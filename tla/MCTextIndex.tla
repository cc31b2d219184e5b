----------------------------- MODULE MCTextIndex -----------------------------
(* An instance of TextIndex for TLC: two documents share the list of a term,  *)
(* and three transactions write, update, delete or resolve, so that one that  *)
(* rolls back meets another at work on a list that a third has left.          *)
EXTENDS TextIndex

CONSTANTS d1, d2, a, b, t1, t2, t3

Symmetry == Permutations(Docs) \union Permutations(Txs)
=============================================================================
