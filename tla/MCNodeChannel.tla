--------------------------- MODULE MCNodeChannel ----------------------------
(* Instance of NodeChannel for TLC.                                        *)
EXTENDS NodeChannel
=============================================================================
