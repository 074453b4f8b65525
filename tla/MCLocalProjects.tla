--------------------------- MODULE MCLocalProjects ---------------------------
(***************************************************************************)
(* The TLC instance of LocalProjects: commands and categories as model     *)
(* values, interchangeable within their set.                               *)
(***************************************************************************)
EXTENDS LocalProjects, TLC
CONSTANTS c1, c2, k1, k2
CommandSymmetry == Permutations({c1, c2}) \union Permutations({k1, k2})
==============================================================================
