---------------------------- MODULE MCGroupCommit ----------------------------
(* Instances of GroupCommit for TLC: three or four transactions, so that a   *)
(* leader, its follower and the next leader meet, with the faults of each    *)
(* configuration.                                                            *)
EXTENDS GroupCommit
=============================================================================
