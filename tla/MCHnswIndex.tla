----------------------------- MODULE MCHnswIndex -----------------------------
(* An instance of HnswIndex for TLC: two documents, so that a rebuild that    *)
(* drops the tombstone of one must keep the other, and one reader.            *)
EXTENDS HnswIndex, TLC

CONSTANTS d1, d2, r1

Symmetry == Permutations(Docs)
=============================================================================
