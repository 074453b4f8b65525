---------------------------- MODULE MCNodeUpdate ----------------------------
(* Releases and workers as model values; releases are interchangeable.      *)
EXTENDS NodeUpdate, TLC
CONSTANTS r1, r2, w1, w2
ReleaseSymmetry == Permutations({r1, r2})
=============================================================================
