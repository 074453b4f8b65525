----------------------------- MODULE MCNodeRuns -----------------------------
(***************************************************************************)
(* TLC instances of NodeRuns.  The bounds and the hazards are given in the *)
(* NodeRuns_*.cfg files; the README says why they suffice.                 *)
(***************************************************************************)
EXTENDS NodeRuns
=============================================================================
