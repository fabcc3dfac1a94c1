------------------------ MODULE MCThreadBoundedQueue ------------------------
(***************************************************************************)
(* Instances of ThreadBoundedQueue for TLC.                                *)
(***************************************************************************)
EXTENDS ThreadBoundedQueue

CONSTANTS t1, t2, t3, short, long

\* A message that fits into a node and one that does not.
Sizes == [v \in Values |-> IF v = long THEN 2 ELSE 1]
\* One thread has a buffer that the long message does not fit into.
OneSmallBuffer == [t \in Threads |-> IF t = t1 THEN 1 ELSE 2]
=============================================================================
