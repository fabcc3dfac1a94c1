---------------------------- MODULE BoundedFifo ----------------------------
(***************************************************************************)
(* What a bounded thread queue promises its users, whatever it is made of: *)
(* values come out once, in the order they went in, and nothing moves any  *)
(* more once the queue is stopped.                                         *)
(***************************************************************************)
EXTENDS Naturals, Sequences

CONSTANTS
    Values,    \* what its users put in
    Capacity,
    None       \* nothing taken yet

VARIABLES
    queue,  \* the values inside, oldest first
    pushed, \* the value that went in last
    got,    \* the value that was taken last
    run     \* the queue has not been stopped

vars == <<queue, pushed, got, run>>

Init ==
    /\ queue = <<>>
    /\ pushed = None
    /\ got = None
    /\ run = TRUE

Put(v) ==
    /\ run
    /\ Len(queue) < Capacity
    /\ queue' = Append(queue, v)
    /\ pushed' = v
    /\ UNCHANGED <<got, run>>

Get ==
    /\ run
    /\ queue # <<>>
    /\ got' = Head(queue)
    /\ queue' = Tail(queue)
    /\ UNCHANGED <<pushed, run>>

Stop ==
    /\ run
    /\ run' = FALSE
    /\ UNCHANGED <<queue, pushed, got>>

Next == (\E v \in Values : Put(v)) \/ Get \/ Stop

Spec == Init /\ [][Next]_vars
=============================================================================
