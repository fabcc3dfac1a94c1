------------------------------- MODULE MCIpcHv -------------------------------
(***************************************************************************)
(* Instances of IpcHv for TLC.                                             *)
(***************************************************************************)
EXTENDS IpcHv, TLC

\* Threads and contexts are interchangeable.
Symmetry == Permutations(Threads) \cup Permutations(Ctxs)
=============================================================================
