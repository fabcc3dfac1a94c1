--------------------------- MODULE MCLocalRegistry ---------------------------
(***************************************************************************)
(* Instances of LocalRegistry for TLC.                                     *)
(***************************************************************************)
EXTENDS LocalRegistry, TLC

CONSTANTS p, q

\* Two programs that may offer the same service.
TwoProviders == [s \in Services |-> {p, q}]
\* One of the two also listens.
QConsumes == [s \in Services |-> {q}]

Symmetry == Permutations(Channels) \cup Permutations(Items)
=============================================================================
