--------------------------- MODULE MCNodeIdentity ---------------------------
(***************************************************************************)
(* The TLC instance of NodeIdentity; NodeIdentity_all.cfg gives its bounds *)
(* and hazards, the README why they suffice.                               *)
(***************************************************************************)
EXTENDS NodeIdentity
=============================================================================
