------------------------- MODULE ThreadBoundedQueue -------------------------
(***************************************************************************)
(* The bounded queue of base/src/utility/threadqueue.c: a ring of nodes    *)
(* under one mutex, with a condition variable for each side.               *)
(*                                                                         *)
(* A thread holds the mutex from the lock to the wait or the unlock, so    *)
(* each pass through the wait loop is one action.  A thread that sleeps on *)
(* a condition variable is "asleep"; a signal, a broadcast or a spurious   *)
(* wakeup makes it run the loop again.  A value is a message of a length;  *)
(* one longer than a node is kept in memory of its own (p_extern).         *)
(***************************************************************************)
EXTENDS Naturals, Sequences, FiniteSets

CONSTANTS
    Threads,
    Values,
    Size,      \* Size[v]: the length of v in bytes
    Buffer,    \* Buffer[t]: the length of the buffer t pops into
    NodeSize,
    Capacity,
    Patient,   \* the threads that block with timeout 0: without a timeout
    None

ASSUME QueueAssumption ==
    /\ IsFiniteSet(Threads)
    /\ Size \in [Values -> Nat \ {0}]
    /\ Buffer \in [Threads -> Nat]
    /\ NodeSize \in Nat
    /\ Capacity \in Nat \ {0}
    /\ Patient \subseteq Threads
    /\ None \notin Values

VARIABLES
    is_run, count, head, tail,
    nodes,   \* the ring
    call,    \* call[t]: the blocking call t is in
    pushed,  \* what the last successful push was called with (history)
    refused, \* a pop was refused for its buffer, a push for want of memory (history)
    got      \* what the last successful pop copied out (history)

ring == <<count, head, tail, nodes, pushed, refused>>
vars == <<is_run, count, head, tail, nodes, call, pushed, refused, got>>

Slots == 0 .. Capacity - 1

threadboundedqueue_node_t ==
    [is_extern : BOOLEAN, len : Nat, p_extern : Values \cup {None},
     data : Values \cup {None}]

EmptyNode == [is_extern |-> FALSE, len |-> 0, p_extern |-> None, data |-> None]

NoCall == [op |-> "none", arg |-> None, asleep |-> FALSE]
Call(op, v) == [op |-> op, arg |-> v, asleep |-> FALSE]
Awake(k) == [k EXCEPT !.asleep = FALSE]
Asleep(k) == [k EXCEPT !.asleep = TRUE]

Init ==
    /\ is_run = TRUE
    /\ count = 0
    /\ head = 0
    /\ tail = 0
    /\ nodes = [i \in Slots |-> EmptyNode]
    /\ call = [t \in Threads |-> NoCall]
    /\ pushed = None
    /\ refused = {}
    /\ got = None

-----------------------------------------------------------------------------
Full == count >= Capacity
Empty == count = 0

Advance(i) == (i + 1) % Capacity

Sleepers(op) == {t \in Threads : call[t].op = op /\ call[t].asleep}

M_Signalled(c, op) == {c}

\* pthread_cond_signal: one of the sleepers, if there is any, runs again.
Signalled(c, op) ==
    IF Sleepers(op) = {} THEN {c}
    ELSE {[c EXCEPT ![t] = Awake(@)] : t \in Sleepers(op)}

M_Cleared(node) == node

\* Memory that an earlier message left with the node is freed.
Cleared(node) ==
    IF node.is_extern /\ node.p_extern # None
    THEN [node EXCEPT !.p_extern = None, !.is_extern = FALSE] ELSE node

\* The node with the message in it; one that fits goes into the node itself.
Written(node, v) ==
    IF Size[v] > NodeSize
    THEN [node EXCEPT !.p_extern = v, !.is_extern = TRUE, !.len = Size[v]]
    ELSE [node EXCEPT !.data = v, !.len = Size[v]]

\* The message a node holds, and the node without it.
Content(node) ==
    IF node.is_extern /\ node.p_extern # None THEN node.p_extern ELSE node.data

Emptied(node) == [Cleared(node) EXCEPT !.len = 0]

\* From the full test to the unlock.  calloc for a long message can fail, and
\* the node has been cleared by then.
push(v, c) ==
    \/ /\ nodes' = [nodes EXCEPT ![head] = Written(Cleared(@), v)]
       /\ head' = Advance(head)
       /\ count' = count + 1
       /\ pushed' = v
       /\ call' \in Signalled(c, "pop")
       /\ UNCHANGED <<tail, refused, is_run, got>>
    \/ /\ Size[v] > NodeSize
       /\ nodes' = [nodes EXCEPT ![head] = Cleared(@)]
       /\ call' = c
       /\ refused' = refused \cup {"push"}
       /\ UNCHANGED <<head, tail, count, pushed, is_run, got>>

M_pop(t, c) ==
    LET node == nodes[tail]
    IN \/ /\ node.len > Buffer[t]
          /\ call' = c
          /\ refused' = refused \cup {"pop"}
          /\ UNCHANGED <<count, head, tail, nodes, pushed, is_run, got>>
       \/ /\ node.len <= Buffer[t]
          /\ got' = Content(node)
          /\ nodes' = [nodes EXCEPT ![tail] = Emptied(@)]
          /\ tail' = Advance(tail)
          /\ count' = count - 1
          /\ call' = c
          /\ UNCHANGED <<head, pushed, refused, is_run>>

\* From the empty test to the unlock.  A message longer than the buffer stays.
pop(t, c) ==
    LET node == nodes[tail]
    IN \/ /\ node.len > Buffer[t]
          /\ call' = c
          /\ refused' = refused \cup {"pop"}
          /\ UNCHANGED <<count, head, tail, nodes, pushed, is_run, got>>
       \/ /\ node.len <= Buffer[t]
          /\ got' = Content(node)
          /\ nodes' = [nodes EXCEPT ![tail] = Emptied(@)]
          /\ tail' = Advance(tail)
          /\ count' = count - 1
          /\ call' \in Signalled(c, "push")
          /\ UNCHANGED <<head, pushed, refused, is_run>>

-----------------------------------------------------------------------------
(***************************************************************************)
(* The operations.  Returns without an effect on the queue (ERR_STOP,      *)
(* ERR_FULL, ERR_NO_MSG) only end the call.                                *)
(***************************************************************************)
Finished(t) == [call EXCEPT ![t] = NoCall]

Enter(t, op, v) ==
    /\ call[t] = NoCall
    /\ call' = [call EXCEPT ![t] = Call(op, v)]
    /\ UNCHANGED <<is_run, ring, got>>

Sleep(t) == call' = [call EXCEPT ![t] = Asleep(@)] /\ UNCHANGED <<is_run, ring, got>>

Stopped(t) ==
    /\ ~is_run
    /\ call' = Finished(t)
    /\ UNCHANGED <<is_run, ring, got>>

threadboundedqueue_push_block(t) ==
    /\ call[t].op = "push"
    /\ ~call[t].asleep
    /\ \/ is_run /\ Full /\ Sleep(t)
       \/ Stopped(t)
       \/ is_run /\ ~Full /\ push(call[t].arg, Finished(t))

threadboundedqueue_pop_block(t) ==
    /\ call[t].op = "pop"
    /\ ~call[t].asleep
    /\ \/ is_run /\ Empty /\ Sleep(t)
       \/ Stopped(t)
       \/ is_run /\ ~Empty /\ pop(t, Finished(t))

threadboundedqueue_push_nonblock(t, v) ==
    /\ call[t] = NoCall
    /\ is_run
    /\ ~Full
    /\ push(v, call)

threadboundedqueue_pop_nonblock(t) ==
    /\ call[t] = NoCall
    /\ is_run
    /\ ~Empty
    /\ pop(t, call)

\* pthread_cond_timedwait returns ETIMEDOUT and the call gives up, without
\* another look at the queue.
TimeOut(t) ==
    /\ t \notin Patient
    /\ call[t].asleep
    /\ call' = Finished(t)
    /\ UNCHANGED <<is_run, ring, got>>

SpuriousWakeup(t) ==
    /\ call[t].asleep
    /\ call' = [call EXCEPT ![t] = Awake(@)]
    /\ UNCHANGED <<is_run, ring, got>>

M_threadboundedqueue_stop ==
    /\ is_run
    /\ is_run' = FALSE
    /\ call' = [t \in Threads |->
                  IF t \in Sleepers("pop") THEN Awake(call[t]) ELSE call[t]]
    /\ UNCHANGED <<ring, got>>

M_threadboundedqueue_stop_one ==
    /\ is_run
    /\ is_run' = FALSE
    /\ call' \in Signalled(call, "pop")
    /\ UNCHANGED <<ring, got>>

threadboundedqueue_stop ==
    /\ is_run
    /\ is_run' = FALSE
    /\ call' = [t \in Threads |-> Awake(call[t])]
    /\ UNCHANGED <<ring, got>>

\* Every node is freed, with the message in it.  No caller may be in the queue or
\* come to it any more, so it is a step of the queue's owner (FixThreadpool) only.
threadboundedqueue_uninit ==
    /\ count' = 0
    /\ head' = 0
    /\ tail' = 0
    /\ nodes' = [i \in Slots |-> EmptyNode]
    /\ UNCHANGED <<is_run, call, pushed, refused, got>>

Begin(t) ==
    \/ \E v \in Values : Enter(t, "push", v)
    \/ Enter(t, "pop", None)
    \/ \E v \in Values : threadboundedqueue_push_nonblock(t, v)
    \/ threadboundedqueue_pop_nonblock(t)

Continue(t) == threadboundedqueue_push_block(t) \/ threadboundedqueue_pop_block(t)

Next ==
    \/ \E t \in Threads : Begin(t) \/ Continue(t) \/ TimeOut(t) \/ SpuriousWakeup(t)
    \/ threadboundedqueue_stop

\* A thread that is in a call and not asleep gets the mutex and goes on.
Spec == Init /\ [][Next]_vars /\ \A t \in Threads : WF_vars(Continue(t))

-----------------------------------------------------------------------------
(***************************************************************************)
(* Properties.                                                             *)
(***************************************************************************)

\* The types, and the ring: head is count slots ahead of tail, and exactly the
\* slots from tail to head hold a message.
TypeOK ==
    /\ is_run \in BOOLEAN
    /\ count \in 0..Capacity
    /\ head \in Slots /\ tail \in Slots
    /\ head = (tail + count) % Capacity
    /\ nodes \in [Slots -> threadboundedqueue_node_t]
    /\ call \in [Threads -> [op : {"none", "push", "pop"},
                             arg : Values \cup {None}, asleep : BOOLEAN]]
    /\ pushed \in Values \cup {None}
    /\ refused \subseteq {"pop", "push"}
    /\ got \in Values \cup {None}
    /\ \A i \in Slots : nodes[i].len > 0 <=> \E k \in 0 .. count - 1 : i = (tail + k) % Capacity

\* The ring, with its wrap-around, its long and short messages, is a bounded
\* FIFO: every step of the queue is a step of it or leaves it alone.
Fifo == INSTANCE BoundedFifo WITH
    queue <- [k \in 1..count |-> Content(nodes[(tail + k - 1) % Capacity])],
    run <- is_run
IsFifo == Fifo!Spec

\* "Timeout in milliseconds, wait time if queue is empty" (threadqueue.h:67): no
\* popper sleeps on while there is a message, unless a popper that was woken for
\* it is still to run.
PopperWaitsIfEmpty ==
    is_run /\ ~Empty /\ Sleepers("pop") # {} =>
       \E t \in Threads : call[t].op = "pop" /\ ~call[t].asleep

\* So it is as long as no pop was refused for a short buffer: each push wakes one
\* sleeper, and a sleeper that finds the queue empty again has lost its message
\* to another popper.
PopperIsWoken == "pop" \notin refused => PopperWaitsIfEmpty

\* As long as no push found no memory, no pusher sleeps on while there is room,
\* unless one that was woken for it is still to run.
PusherIsWoken ==
    "push" \notin refused /\ is_run /\ ~Full /\ Sleepers("push") # {} =>
       \E t \in Threads : call[t].op = "push" /\ ~call[t].asleep

\* Neither side misses a wakeup: the signals of push and pop reach a sleeper that
\* can use the message or the slot, whatever wins the races for the mutex.
NoLostWakeup == PopperIsWoken /\ PusherIsWoken

\* threadboundedqueue_stop ends every blocking call, those without a timeout
\* included, whether the caller sleeps at the time, was woken, or has yet to take
\* the mutex for its first look: the owner can join its threads and uninit the queue.
StopReleases ==
    \A t \in Threads : (~is_run /\ call[t] # NoCall) ~> call[t] = NoCall
=============================================================================
