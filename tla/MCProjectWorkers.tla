-------------------------- MODULE MCProjectWorkers --------------------------
(* Instance of ProjectWorkers for TLC.                                     *)
EXTENDS ProjectWorkers, TLC

CONSTANTS p1, p2, c1, m1, m2

\* The code treats every project alike.
ProjectSymmetry == Permutations(Projects)
=============================================================================
