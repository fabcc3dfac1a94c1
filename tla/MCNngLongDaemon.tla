--------------------------- MODULE MCNngLongDaemon ---------------------------
(***************************************************************************)
(* Instances of NngLongDaemon for TLC: one process asks another.           *)
(***************************************************************************)
EXTENDS NngLongDaemon, TLC

CONSTANTS p, q, a, b, e1, e2

TwoProcesses == p :> {a} @@ q :> {b}
Tries == a :> 1 @@ b :> 2
EventType == [e \in Events |-> IF e = e1 THEN "REQ" ELSE "MULT_REQ"]
EventSrc == [e \in Events |-> IF e = e1 THEN a ELSE b]
EventDests == [e \in Events |-> IF e = e1 THEN {b} ELSE {a}]
=============================================================================
