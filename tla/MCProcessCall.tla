---------------------------- MODULE MCProcessCall ----------------------------
(***************************************************************************)
(* Instances of ProcessCall for TLC.                                       *)
(***************************************************************************)
EXTENDS ProcessCall, TLC

\* Contexts are interchangeable.
Symmetry == Permutations(Ctxs)
=============================================================================
