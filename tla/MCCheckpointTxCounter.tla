----------------------- MODULE MCCheckpointTxCounter -----------------------
(* An instance of CheckpointTxCounter for TLC: two tasks, a batch of three   *)
(* ids and five raw ids in all, so that a batch is exhausted and processes   *)
(* restart within the bound.                                                 *)
EXTENDS CheckpointTxCounter, TLC

TaskSymmetry == Permutations(Tasks)
=============================================================================
