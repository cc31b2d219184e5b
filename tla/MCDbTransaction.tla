--------------------------- MODULE MCDbTransaction ---------------------------
(* DbTransaction for TLC: documents are model values.                       *)
EXTENDS DbTransaction

CONSTANTS d1, d2
=============================================================================
