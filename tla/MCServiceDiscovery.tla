------------------------- MODULE MCServiceDiscovery -------------------------
(***************************************************************************)
(* Instances of ServiceDiscovery for TLC.                                  *)
(***************************************************************************)
EXTENDS ServiceDiscovery

CONSTANTS p, c

\* One provider and one consumer of every service.
OneProvider == [s \in Services |-> {p}]
OneConsumer == [s \in Services |-> {c}]

\* The state without what the last handler wrote and without the registry's
\* history, which no later step reads.
View == <<conn, peer, clients, m_services, items, produce_services, library>>

Symmetry == Permutations(Channels) \cup Permutations(Items)
=============================================================================
