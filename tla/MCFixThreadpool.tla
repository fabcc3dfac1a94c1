--------------------------- MODULE MCFixThreadpool ---------------------------
(***************************************************************************)
(* Instances of FixThreadpool for TLC.                                     *)
(***************************************************************************)
EXTENDS FixThreadpool

CONSTANTS v1, v2, v3, v4

OneByte == [v \in Values |-> 1]
OneByteBuffer == [t \in Threads |-> 1]
TaskAndBatch == {<<v1>>, <<v2, v3>>, <<v4>>}
=============================================================================
