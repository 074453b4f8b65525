--------------------------- MODULE MCRunApprovals ---------------------------
(* Instance of RunApprovals for TLC: frames are model values.              *)
EXTENDS RunApprovals

CONSTANTS f1, f2
=============================================================================
