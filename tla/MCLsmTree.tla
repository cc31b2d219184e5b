------------------------------ MODULE MCLsmTree ------------------------------
(* Instances of LsmTree for TLC: one or two keys, up to five transactions,    *)
(* memtables of at most two entries and tiers of two tables, so that flushes, *)
(* merges and restarts all happen within a few commits.                       *)
EXTENDS LsmTree, TLC

KeySymmetry == Permutations(Keys)
=============================================================================
