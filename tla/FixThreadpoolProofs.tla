-------------------------- MODULE FixThreadpoolProofs --------------------------
(***************************************************************************)
(* The bounded queue and the thread pool on it, for any numbers of         *)
(* threads, any messages, any batches and any capacity.                    *)
(***************************************************************************)
EXTENDS FixThreadpool, FiniteSetTheorems, SequenceTheorems, TLAPS

-----------------------------------------------------------------------------
(***************************************************************************)
(* The queue.                                                              *)
(*                                                                         *)
(* The ring: the slots in use are the count slots from tail on (RingInv),  *)
(* so a push writes the slot behind the last one and a pop empties the     *)
(* first one: the ring implements a bounded FIFO.                          *)
(* The wakeups: while a popper sleeps, at least as many poppers are awake  *)
(* as there are messages (WakeInv), because each push wakes one and each   *)
(* pop takes one; and so for the pushers and the room.                     *)
(***************************************************************************)

CallType == [op : {"none", "push", "pop"}, arg : Values \cup {None}, asleep : BOOLEAN]

\* A blocking push has its message.
ArgInv == \A t \in Threads : call[t].op = "push" => call[t].arg \in Values

\* The slots in use.
InRing(first, n, i) == \E k \in 0 .. n - 1 : i = (first + k) % Capacity

RingInv ==
    /\ count \in 0..Capacity
    /\ head \in Slots /\ tail \in Slots
    /\ head = (tail + count) % Capacity
    /\ nodes \in [Slots -> threadboundedqueue_node_t]
    /\ pushed \in Values \cup {None}
    /\ refused \subseteq {"pop", "push"}
    /\ got \in Values \cup {None}
    /\ \A i \in Slots : nodes[i].len > 0 <=> InRing(tail, count, i)

-----------------------------------------------------------------------------
\* The remainder that the ring takes, without a division.
LEMMA Wrap ==
  ASSUME NEW i \in Slots, NEW k \in 0..Capacity
  PROVE  /\ (i + k) % Capacity = IF i + k < Capacity THEN i + k ELSE i + k - Capacity
         /\ (i + k) % Capacity \in Slots
<1>1. CASE i + k < Capacity
  BY <1>1, QueueAssumption DEF Slots
<1>2. CASE i + k >= Capacity
  <2>1. PICK j \in Slots : i + k = j + Capacity
    BY <1>2, QueueAssumption DEF Slots
  <2>2. (j + Capacity) % Capacity = j
    BY QueueAssumption DEF Slots
  <2> QED  BY <1>2, <2>1, <2>2, QueueAssumption DEF Slots
<1> QED  BY <1>1, <1>2, QueueAssumption DEF Slots

\* Advance goes one slot on.
LEMMA AdvanceWraps ==
  ASSUME NEW i \in Slots
  PROVE  /\ Advance(i) = IF i + 1 = Capacity THEN 0 ELSE i + 1
         /\ Advance(i) \in Slots
<1>1. 1 \in 0..Capacity
  BY QueueAssumption
<1>2. /\ (i + 1) % Capacity = IF i + 1 < Capacity THEN i + 1 ELSE i + 1 - Capacity
      /\ (i + 1) % Capacity \in Slots
  BY <1>1, Wrap, Zenon
<1> QED  BY <1>2, QueueAssumption DEF Advance, Slots

\* The slots in use after a push: one more at the end.
LEMMA RingGrows ==
  ASSUME NEW i \in Slots, NEW n \in 0 .. Capacity - 1, NEW j \in Slots
  PROVE  /\ InRing(i, n + 1, j) <=> InRing(i, n, j) \/ j = (i + n) % Capacity
         /\ ~InRing(i, n, (i + n) % Capacity)
         /\ Advance((i + n) % Capacity) = (i + (n + 1)) % Capacity
<1>1. \A k \in 0..Capacity : (i + k) % Capacity = IF i + k < Capacity THEN i + k
                                                  ELSE i + k - Capacity
  BY Wrap, Zenon
<1>2. InRing(i, n + 1, j) <=> InRing(i, n, j) \/ j = (i + n) % Capacity
  BY QueueAssumption DEF InRing
<1>3. ~InRing(i, n, (i + n) % Capacity)
  BY <1>1, QueueAssumption DEF InRing, Slots
<1>4. Advance((i + n) % Capacity) = (i + (n + 1)) % Capacity
  <2>1. (i + n) % Capacity \in Slots
    BY Wrap, QueueAssumption
  <2>2. n + 1 \in 0..Capacity
    BY QueueAssumption DEF Slots
  <2>0. (i + (n + 1)) % Capacity =
           IF i + (n + 1) < Capacity THEN i + (n + 1) ELSE i + (n + 1) - Capacity
    BY <2>2, Wrap, Zenon
  <2>4. (i + n) % Capacity = IF i + n < Capacity THEN i + n ELSE i + n - Capacity
    BY <1>1, QueueAssumption
  <2> QED  BY <2>0, <2>1, <2>4, AdvanceWraps, QueueAssumption, SMTT(30) DEF Slots
<1> QED  BY <1>2, <1>3, <1>4, Zenon

\* The slots in use after a pop: one less at the front.
LEMMA RingShrinks ==
  ASSUME NEW i \in Slots, NEW n \in 1..Capacity, NEW j \in Slots
  PROVE  /\ InRing(Advance(i), n - 1, j) <=> InRing(i, n, j) /\ j # i
         /\ InRing(i, n, i)
         /\ \A k \in 0 .. n - 1 : (Advance(i) + k) % Capacity = (i + (k + 1)) % Capacity
<1>1. \A k \in 0..Capacity : (i + k) % Capacity = IF i + k < Capacity THEN i + k
                                                  ELSE i + k - Capacity
  BY Wrap, Zenon
<1>2. \A k \in 0..Capacity : (Advance(i) + k) % Capacity =
         IF Advance(i) + k < Capacity THEN Advance(i) + k ELSE Advance(i) + k - Capacity
  BY Wrap, AdvanceWraps, Zenon
<1>3. ASSUME NEW k \in 0 .. n - 1
      PROVE  (Advance(i) + k) % Capacity = (i + (k + 1)) % Capacity
  <2>1. k \in 0..Capacity /\ k + 1 \in 0..Capacity
    BY QueueAssumption DEF Slots
  <2>0. (i + (k + 1)) % Capacity =
           IF i + (k + 1) < Capacity THEN i + (k + 1) ELSE i + (k + 1) - Capacity
    BY <2>1, Wrap, Zenon
  <2>3. (Advance(i) + k) % Capacity =
           IF Advance(i) + k < Capacity THEN Advance(i) + k ELSE Advance(i) + k - Capacity
    BY <1>2, <2>1, Zenon
  <2> QED  BY <2>0, <2>3, AdvanceWraps, QueueAssumption DEF Slots
<1>4. InRing(i, n, i)
  <2>1. 0 \in 0 .. n - 1 /\ (i + 0) % Capacity = i
    BY <1>1, QueueAssumption DEF Slots
  <2> QED  BY <2>1, Zenon DEF InRing
<1>5. InRing(Advance(i), n - 1, j) => InRing(i, n, j) /\ j # i
  <2> SUFFICES ASSUME NEW k \in 0 .. n - 1 - 1, j = (Advance(i) + k) % Capacity
               PROVE  InRing(i, n, j) /\ j # i
    BY Zenon DEF InRing
  <2>1. k + 1 \in 0 .. n - 1 /\ k \in 0 .. n - 1 /\ k + 1 \in 1 .. Capacity - 1
    BY QueueAssumption DEF Slots
  <2>2. j = (i + (k + 1)) % Capacity
    BY <1>3, <2>1, Zenon
  <2>3. j # i
    BY <1>1, <2>1, <2>2, QueueAssumption DEF Slots
  <2> QED  BY <2>1, <2>2, <2>3, Zenon DEF InRing
<1>6. InRing(i, n, j) /\ j # i => InRing(Advance(i), n - 1, j)
  <2> SUFFICES ASSUME NEW k \in 0 .. n - 1, j = (i + k) % Capacity, j # i
               PROVE  InRing(Advance(i), n - 1, j)
    BY Zenon DEF InRing
  <2>1. k # 0
    BY <1>1, QueueAssumption DEF Slots
  <2>2. k - 1 \in 0 .. n - 1 /\ k - 1 \in 0 .. (n - 1) - 1 /\ (k - 1) + 1 = k
    BY <2>1, QueueAssumption DEF Slots
  <2>3. j = (Advance(i) + (k - 1)) % Capacity
    BY <1>3, <2>2, Zenon
  <2> QED  BY <2>2, <2>3, Zenon DEF InRing
<1> QED  BY <1>3, <1>4, <1>5, <1>6, Zenon

\* What a push leaves in a node, and a pop.
LEMMA NodeParts ==
  ASSUME NEW node \in threadboundedqueue_node_t
  PROVE  /\ Content(node) \in Values \cup {None}
         /\ Cleared(node) \in threadboundedqueue_node_t
         /\ Cleared(node).len = node.len
         /\ Emptied(node) \in threadboundedqueue_node_t
         /\ Emptied(node).len = 0
<1> USE QueueAssumption DEF threadboundedqueue_node_t
<1>1. /\ Cleared(node) \in threadboundedqueue_node_t
      /\ Cleared(node).len = node.len
  BY Zenon DEF Cleared
<1>2. /\ Emptied(node) \in threadboundedqueue_node_t
      /\ Emptied(node).len = 0
  BY <1>1, Zenon DEF Emptied
<1>3. Content(node) \in Values \cup {None}
  BY Zenon DEF Content
<1> QED  BY <1>1, <1>2, <1>3, Zenon

\* A node that is written has the message, however long that and the last one are.
LEMMA WrittenParts ==
  ASSUME NEW node \in threadboundedqueue_node_t, NEW v \in Values
  PROVE  /\ Written(Cleared(node), v) \in threadboundedqueue_node_t
         /\ Written(Cleared(node), v).len > 0
         /\ Content(Written(Cleared(node), v)) = v
<1> DEFINE n == Cleared(node)
<1>1. n \in threadboundedqueue_node_t /\ ~(n.is_extern /\ n.p_extern # None)
  BY QueueAssumption, Zenon DEF Cleared, threadboundedqueue_node_t
<1>2. Size[v] \in Nat \ {0} /\ v # None
  BY QueueAssumption, Zenon
<1> HIDE DEF n
<1>3. /\ Written(n, v) \in threadboundedqueue_node_t
      /\ Written(n, v).len > 0
      /\ Content(Written(n, v)) = v
  <2>1. CASE Size[v] > NodeSize
    <3>1. Written(n, v) = [n EXCEPT !.p_extern = v, !.is_extern = TRUE, !.len = Size[v]]
      BY <2>1, Zenon DEF Written
    <3>2. /\ Written(n, v) \in threadboundedqueue_node_t
          /\ Written(n, v).len = Size[v] /\ Written(n, v).p_extern = v
          /\ Written(n, v).is_extern = TRUE
      BY <3>1, <1>1, <1>2, Zenon DEF threadboundedqueue_node_t
    <3> QED  BY <3>2, <1>2 DEF Content
  <2>2. CASE ~(Size[v] > NodeSize)
    <3>1. Written(n, v) = [n EXCEPT !.data = v, !.len = Size[v]]
      BY <2>2, Zenon DEF Written
    <3>2. /\ Written(n, v) \in threadboundedqueue_node_t
          /\ Written(n, v).len = Size[v] /\ Written(n, v).data = v
          /\ Written(n, v).is_extern = n.is_extern /\ Written(n, v).p_extern = n.p_extern
      BY <3>1, <1>1, <1>2, Zenon DEF threadboundedqueue_node_t
    <3> QED  BY <3>2, <1>1, <1>2 DEF Content
  <2> QED  BY <2>1, <2>2, Zenon
<1> QED  BY <1>3, Zenon DEF n

\* What a call is after a wakeup, and after going to sleep.
LEMMA CallParts ==
  ASSUME NEW k \in CallType
  PROVE  /\ Awake(k) \in CallType /\ Awake(k).op = k.op /\ Awake(k).arg = k.arg
         /\ Awake(k).asleep = FALSE
         /\ Asleep(k) \in CallType /\ Asleep(k).op = k.op /\ Asleep(k).arg = k.arg
         /\ Asleep(k).asleep = TRUE
  BY Zenon DEF Awake, Asleep, CallType

\* A signal leaves the calls what they are.
LEMMA SignalledCalls ==
  ASSUME call \in [Threads -> CallType], NEW c \in [Threads -> CallType],
         NEW op, NEW d \in Signalled(c, op)
  PROVE  /\ d \in [Threads -> CallType]
         /\ \A t \in Threads : d[t].op = c[t].op /\ d[t].arg = c[t].arg
<1>1. CASE d = c
  BY <1>1, Zenon
<1>2. CASE \E u \in Sleepers(op) : d = [c EXCEPT ![u] = Awake(@)]
  <2>1. PICK u \in Threads : d = [c EXCEPT ![u] = Awake(@)]
    BY <1>2, Zenon DEF Sleepers
  <2>2. /\ \A t \in Threads \ {u} : d[t] = c[t]
        /\ d[u] = Awake(c[u]) /\ c[u] \in CallType
    BY <2>1, Zenon
  <2>3. d[u] \in CallType /\ d[u].op = c[u].op /\ d[u].arg = c[u].arg
    BY <2>2, CallParts, Zenon
  <2> QED  BY <2>1, <2>2, <2>3, Zenon
<1> QED  BY <1>1, <1>2, Zenon DEF Signalled

\* The message goes into the slot behind the last one.
LEMMA PushKeeps ==
  ASSUME RingInv, ~Full, NEW v \in Values, NEW c, push(v, c)
  PROVE  RingInv'
<1>1. CASE UNCHANGED <<head, tail, count, pushed, got>> /\ refused' = refused \cup {"push"}
           /\ nodes' = [nodes EXCEPT ![head] = Cleared(@)]
  <2>1. nodes[head] \in threadboundedqueue_node_t
    BY Zenon DEF RingInv
  <2>2. /\ nodes' \in [Slots -> threadboundedqueue_node_t]
        /\ \A i \in Slots : nodes'[i].len = nodes[i].len
    BY <1>1, <2>1, NodeParts, Zenon DEF RingInv
  <2>3. \A i \in Slots : nodes'[i].len > 0 <=> InRing(tail', count', i)
    BY <1>1, <2>2, Zenon DEF RingInv
  <2> QED  BY <1>1, <2>2, <2>3, Zenon DEF RingInv
<1>2. CASE /\ nodes' = [nodes EXCEPT ![head] = Written(Cleared(@), v)]
           /\ head' = Advance(head)
           /\ count' = count + 1
           /\ pushed' = v
           /\ UNCHANGED <<tail, refused, got>>
  <2>0. nodes[head] \in threadboundedqueue_node_t /\ head \in Slots /\ tail \in Slots
    BY Zenon DEF RingInv
  <2>1. count \in 0 .. Capacity - 1 /\ count' \in 0..Capacity
    BY <1>2, QueueAssumption DEF RingInv, Full
  <2>2. /\ nodes' \in [Slots -> threadboundedqueue_node_t]
        /\ nodes'[head].len > 0
        /\ \A i \in Slots \ {head} : nodes'[i] = nodes[i]
    BY <1>2, <2>0, WrittenParts, Zenon DEF RingInv
  <2>3. head' \in Slots /\ head' = (tail' + count') % Capacity
    <3>1. Advance((tail + count) % Capacity) = (tail + (count + 1)) % Capacity
      BY <2>0, <2>1, RingGrows, Zenon
    <3>2. Advance(head) \in Slots
      BY <2>0, AdvanceWraps, Zenon
    <3> QED  BY <1>2, <3>1, <3>2, Zenon DEF RingInv
  <2>4. ASSUME NEW i \in Slots  PROVE nodes'[i].len > 0 <=> InRing(tail', count', i)
    <3>1. InRing(tail, count + 1, i) <=> InRing(tail, count, i) \/ i = head
      BY <2>0, <2>1, RingGrows, Zenon DEF RingInv
    <3>2. CASE i = head
      BY <3>1, <3>2, <2>2, <1>2, Zenon
    <3>3. CASE i # head
      BY <3>1, <3>3, <2>2, <1>2, Zenon DEF RingInv
    <3> QED  BY <3>2, <3>3, Zenon
  <2> QED  BY <1>2, <2>1, <2>2, <2>3, <2>4, Zenon DEF RingInv
<1> QED  BY <1>1, <1>2, Zenon DEF push

\* The message comes out of the first slot.
LEMMA PopKeeps ==
  ASSUME RingInv, ~Empty, NEW t \in Threads, NEW c, pop(t, c)
  PROVE  RingInv'
<1>1. CASE UNCHANGED <<head, tail, count, nodes, pushed, got>>
           /\ refused' = refused \cup {"pop"}
  BY <1>1, Zenon DEF RingInv
<1>2. CASE /\ got' = Content(nodes[tail])
           /\ nodes' = [nodes EXCEPT ![tail] = Emptied(@)]
           /\ tail' = Advance(tail)
           /\ count' = count - 1
           /\ UNCHANGED <<head, pushed, refused>>
  <2>0. nodes[tail] \in threadboundedqueue_node_t /\ head \in Slots /\ tail \in Slots
    BY Zenon DEF RingInv
  <2>1. count \in 1..Capacity /\ count' \in 0..Capacity /\ count' = count - 1
    BY <1>2, QueueAssumption DEF RingInv, Empty
  <2>2. /\ nodes' \in [Slots -> threadboundedqueue_node_t]
        /\ nodes'[tail].len = 0
        /\ \A i \in Slots \ {tail} : nodes'[i] = nodes[i]
        /\ got' \in Values \cup {None}
    BY <1>2, <2>0, NodeParts, Zenon DEF RingInv
  <2>3. tail' \in Slots /\ head' = (tail' + count') % Capacity
    <3>1. count - 1 \in 0 .. count - 1 /\ (count - 1) + 1 = count
      BY <2>1
    <3>2. (Advance(tail) + (count - 1)) % Capacity = (tail + ((count - 1) + 1)) % Capacity
      BY <2>0, <2>1, <3>1, RingShrinks
    <3>3. Advance(tail) \in Slots
      BY <2>0, AdvanceWraps, Zenon
    <3> QED  BY <1>2, <3>1, <3>2, <3>3, Zenon DEF RingInv
  <2>4. ASSUME NEW i \in Slots  PROVE nodes'[i].len > 0 <=> InRing(tail', count', i)
    <3>1. InRing(Advance(tail), count - 1, i) <=> InRing(tail, count, i) /\ i # tail
      BY <2>0, <2>1, RingShrinks, Zenon
    <3>2. CASE i = tail
      BY <3>1, <3>2, <2>2, <1>2
    <3>3. CASE i # tail
      BY <3>1, <3>3, <2>2, <1>2, Zenon DEF RingInv
    <3> QED  BY <3>2, <3>3, Zenon
  <2> QED  BY <1>2, <2>1, <2>2, <2>3, <2>4, Zenon DEF RingInv
<1> QED  BY <1>1, <1>2, Zenon DEF pop

-----------------------------------------------------------------------------
QueueInv == is_run \in BOOLEAN /\ RingInv /\ call \in [Threads -> CallType] /\ ArgInv

\* The parts of TypeOK.
LEMMA TypeOfQueue == QueueInv <=> TypeOK /\ ArgInv
  BY Zenon DEF QueueInv, RingInv, TypeOK, CallType, InRing

\* The initial state satisfies the invariant.
LEMMA InitQueue == Init => QueueInv
<1> SUFFICES ASSUME Init  PROVE QueueInv
  OBVIOUS
<1> USE QueueAssumption DEF Init
<1>1. RingInv
  <2>1. \A i \in Slots : nodes[i].len > 0 <=> InRing(tail, count, i)
    BY DEF InRing, EmptyNode
  <2>2. head = (tail + count) % Capacity
    BY DEF Slots
  <2> QED  BY <2>1, <2>2 DEF RingInv, Slots, EmptyNode, threadboundedqueue_node_t
<1>2. call \in [Threads -> CallType] /\ ArgInv
  BY Zenon DEF CallType, NoCall, ArgInv
<1> QED  BY <1>1, <1>2, Zenon DEF QueueInv

\* The calls after a thread's call has ended.
LEMMA FinishedCalls ==
  ASSUME QueueInv, NEW t \in Threads
  PROVE  /\ Finished(t) \in [Threads -> CallType]
         /\ Finished(t)[t] = NoCall
         /\ \A u \in Threads \ {t} : Finished(t)[u] = call[u]
         /\ \A u \in Threads : Finished(t)[u].op = "push" => Finished(t)[u].arg \in Values
<1>1. NoCall \in CallType /\ NoCall.op = "none"
  BY Zenon DEF NoCall, CallType
<1> QED  BY <1>1, Zenon DEF QueueInv, Finished, ArgInv

\* A push or a pop, with the calls as they are then.
LEMMA QueueMoves ==
  ASSUME QueueInv, NEW c \in [Threads -> CallType],
         \A u \in Threads : c[u].op = "push" => c[u].arg \in Values
  PROVE  /\ \A v \in Values : ~Full /\ push(v, c) => QueueInv'
         /\ \A t \in Threads : ~Empty /\ pop(t, c) => QueueInv'
<1>1. ASSUME \/ call' = c
             \/ call' \in Signalled(c, "pop")
             \/ call' \in Signalled(c, "push")
      PROVE  call' \in [Threads -> CallType] /\ ArgInv'
  <2>1. /\ call' \in [Threads -> CallType]
        /\ \A u \in Threads : call'[u].op = c[u].op /\ call'[u].arg = c[u].arg
    BY <1>1, SignalledCalls DEF QueueInv
  <2> QED  BY <2>1, Zenon DEF ArgInv
<1>2. ASSUME NEW v \in Values, ~Full, push(v, c)  PROVE QueueInv'
  BY <1>1, <1>2, PushKeeps, Zenon DEF push, QueueInv
<1>3. ASSUME NEW t \in Threads, ~Empty, pop(t, c)  PROVE QueueInv'
  BY <1>1, <1>3, PopKeeps, Zenon DEF pop, QueueInv
<1> QED  BY <1>2, <1>3, Zenon

\* The calls of a thread that goes on alone.
LEMMA CallMoves ==
  ASSUME QueueInv, NEW t \in Threads, NEW k \in CallType, k.op = "push" => k.arg \in Values,
         call' = [call EXCEPT ![t] = k], UNCHANGED <<is_run, ring, got>>
  PROVE  QueueInv'
<1>1. RingInv'
  BY Zenon DEF QueueInv, RingInv, ring
<1>2. call' \in [Threads -> CallType] /\ ArgInv'
  BY Zenon DEF QueueInv, ArgInv
<1> QED  BY <1>1, <1>2, Zenon DEF QueueInv

\* Every step keeps the types, the ring and the arguments.
LEMMA QueueStep == QueueInv /\ [Next]_vars => QueueInv'
<1> SUFFICES ASSUME QueueInv, [Next]_vars  PROVE QueueInv'
  OBVIOUS
<1>0. call \in [Threads -> CallType] /\ ArgInv
  BY Zenon DEF QueueInv
<1>1. ASSUME NEW t \in Threads, Begin(t)  PROVE QueueInv'
  <2>1. ASSUME NEW v \in Values, Enter(t, "push", v)  PROVE QueueInv'
    <3>1. Call("push", v) \in CallType /\ Call("push", v).arg = v
      BY Zenon DEF Call, CallType
    <3> QED  BY <2>1, <3>1, CallMoves, Zenon DEF Enter
  <2>2. ASSUME Enter(t, "pop", None)  PROVE QueueInv'
    <3>1. Call("pop", None) \in CallType /\ Call("pop", None).op = "pop"
      BY Zenon DEF Call, CallType
    <3> QED  BY <2>2, <3>1, CallMoves, Zenon DEF Enter
  <2>3. ASSUME NEW v \in Values, threadboundedqueue_push_nonblock(t, v)  PROVE QueueInv'
    BY <2>3, <1>0, QueueMoves, Zenon DEF threadboundedqueue_push_nonblock, ArgInv
  <2>4. ASSUME threadboundedqueue_pop_nonblock(t)  PROVE QueueInv'
    BY <2>4, <1>0, QueueMoves, Zenon DEF threadboundedqueue_pop_nonblock, ArgInv
  <2> QED  BY <1>1, <2>1, <2>2, <2>3, <2>4, Zenon DEF Begin
<1>2. ASSUME NEW t \in Threads, Sleep(t) \/ Stopped(t) \/ TimeOut(t) \/ SpuriousWakeup(t)
      PROVE  QueueInv'
  <2>1. /\ call[t] \in CallType /\ Awake(call[t]) \in CallType /\ Asleep(call[t]) \in CallType
        /\ NoCall \in CallType /\ NoCall.op = "none"
        /\ Awake(call[t]).op = call[t].op /\ Awake(call[t]).arg = call[t].arg
        /\ Asleep(call[t]).op = call[t].op /\ Asleep(call[t]).arg = call[t].arg
    BY <1>0, CallParts, Zenon DEF NoCall, CallType
  <2>2. \E k \in {NoCall, Awake(call[t]), Asleep(call[t])} : call' = [call EXCEPT ![t] = k]
    BY <1>2, Zenon DEF Sleep, Stopped, TimeOut, SpuriousWakeup, Finished
  <2>3. UNCHANGED <<is_run, ring, got>>
    BY <1>2, Zenon DEF Sleep, Stopped, TimeOut, SpuriousWakeup
  <2> QED  BY <2>1, <2>2, <2>3, <1>0, CallMoves, Zenon DEF ArgInv
<1>3. ASSUME NEW t \in Threads, threadboundedqueue_push_block(t)  PROVE QueueInv'
  <2>1. ASSUME ~Full, push(call[t].arg, Finished(t))  PROVE QueueInv'
    <3>1. call[t].arg \in Values
      BY <1>0, <1>3, Zenon DEF ArgInv, threadboundedqueue_push_block
    <3> QED  BY <2>1, <3>1, FinishedCalls, QueueMoves, Zenon
  <2> QED  BY <1>2, <1>3, <2>1, Zenon DEF threadboundedqueue_push_block
<1>4. ASSUME NEW t \in Threads, threadboundedqueue_pop_block(t)  PROVE QueueInv'
  <2>1. ASSUME ~Empty, pop(t, Finished(t))  PROVE QueueInv'
    BY <2>1, FinishedCalls, QueueMoves, Zenon
  <2> QED  BY <1>2, <1>4, <2>1, Zenon DEF threadboundedqueue_pop_block
<1>5. ASSUME threadboundedqueue_stop  PROVE QueueInv'
  <2>1. RingInv'
    BY <1>5, Zenon DEF threadboundedqueue_stop, QueueInv, RingInv, ring
  <2>2. call' \in [Threads -> CallType] /\ ArgInv'
    <3>1. \A t \in Threads : /\ Awake(call[t]) \in CallType /\ Awake(call[t]).op = call[t].op
                             /\ Awake(call[t]).arg = call[t].arg
      BY <1>0, CallParts, Zenon
    <3> QED  BY <3>1, <1>0, <1>5, Zenon DEF threadboundedqueue_stop, ArgInv
  <2> QED  BY <1>5, <2>1, <2>2, Zenon DEF threadboundedqueue_stop, QueueInv
<1>6. CASE UNCHANGED vars
  BY <1>6, Zenon DEF vars, QueueInv, RingInv, ArgInv
<1> QED
  BY <1>1, <1>2, <1>3, <1>4, <1>5, <1>6, Zenon DEF Next, Continue

\* QueueInv is an invariant.
LEMMA QueueAlways == Spec => []QueueInv
  BY InitQueue, QueueStep, PTL DEF Spec

\* The types hold, and the ring is what it should be: head is count slots ahead of
\* tail, and exactly the slots between hold a message.
THEOREM TypeCorrect == Spec => []TypeOK
  BY QueueAlways, TypeOfQueue, PTL

-----------------------------------------------------------------------------
(***************************************************************************)
(* The ring implements a bounded FIFO.                                     *)
(***************************************************************************)
Queue == [k \in 1..count |-> Content(nodes[(tail + k - 1) % Capacity])]
At(k) == Content(nodes[(tail + k) % Capacity])

QueueOK ==
    /\ Queue \in Seq(Values \cup {None}) /\ Len(Queue) = count
    /\ \A k \in 1..count : Queue[k] = At(k - 1)

\* The queue that the ring stands for.
LEMMA QueueParts == RingInv => QueueOK
<1> SUFFICES ASSUME RingInv  PROVE QueueOK
  OBVIOUS
<1>1. ASSUME NEW k \in 1..count
      PROVE  (tail + k - 1) % Capacity = (tail + (k - 1)) % Capacity
             /\ (tail + (k - 1)) % Capacity \in Slots
  <2>1. k - 1 \in 0..Capacity /\ tail \in Slots
    BY QueueAssumption DEF RingInv
  <2>2. tail + k - 1 = tail + (k - 1)
    BY <2>1, Zenon DEF RingInv, Slots
  <2>3. (tail + (k - 1)) % Capacity \in Slots
    BY <2>1, Wrap, Zenon
  <2> QED  BY <2>2, <2>3, Zenon
<1>2. \A k \in 1..count : Content(nodes[(tail + k - 1) % Capacity]) \in Values \cup {None}
  BY <1>1, NodeParts, Zenon DEF RingInv
<1>3. Queue \in [1..count -> Values \cup {None}] /\ count \in Nat
  BY <1>2 DEF Queue, RingInv
<1>4. Queue \in Seq(Values \cup {None}) /\ Len(Queue) = count
  BY <1>3
<1>5. \A k \in 1..count : Queue[k] = At(k - 1)
  BY <1>1, Zenon DEF Queue, At
<1> QED  BY <1>4, <1>5, Zenon DEF QueueOK

\* And after a step.
LEMMA QueuePartsNext == RingInv' => QueueOK'
  BY QueueParts, PTL

\* A push appends to it, or leaves it alone when there is no memory.
LEMMA PushIsPut ==
  ASSUME RingInv, RingInv', ~Full, NEW v \in Values, NEW c, push(v, c)
  PROVE  \/ Queue' = Append(Queue, v) /\ pushed' = v /\ UNCHANGED <<is_run, got>>
         \/ UNCHANGED <<Queue, pushed, is_run, got>>
<1>0. count \in Nat /\ count < Capacity /\ tail \in Slots /\ head \in Slots
      /\ nodes \in [Slots -> threadboundedqueue_node_t]
  BY QueueAssumption DEF RingInv, Full
<1>q. /\ Queue' \in Seq(Values \cup {None}) /\ Len(Queue') = count'
      /\ \A k \in 1..count' : Queue'[k] = At(k - 1)'
  BY QueuePartsNext, Zenon DEF QueueOK
<1>1. ASSUME NEW k \in 0 .. count - 1  PROVE (tail + k) % Capacity \in Slots \ {head}
  <2>1. k \in 0..Capacity /\ count \in 0 .. Capacity - 1
    BY <1>0, QueueAssumption
  <2>2. (tail + k) % Capacity \in Slots
    BY <2>1, <1>0, Wrap, Zenon
  <2>3. ~InRing(tail, count, head)
    BY <1>0, <2>1, RingGrows, Zenon DEF RingInv
  <2> QED  BY <2>2, <2>3, Zenon DEF InRing
<1>2. CASE /\ nodes' = [nodes EXCEPT ![head] = Written(Cleared(@), v)]
           /\ count' = count + 1
           /\ pushed' = v
           /\ UNCHANGED <<tail, is_run, got>>
  <2>1. \A k \in 0 .. count - 1 : At(k)' = At(k)
    BY <1>0, <1>1, <1>2, Zenon DEF At
  <2>2. \A k \in {count} : At(k)' = v
    <3>1. nodes'[head] = Written(Cleared(nodes[head]), v)
      BY <1>0, <1>2, Zenon
    <3>2. Content(nodes'[head]) = v
      BY <3>1, <1>0, WrittenParts
    <3> QED  BY <3>2, <1>2, Zenon DEF At, RingInv
  <2>3. /\ Append(Queue, v) \in Seq(Values \cup {None})
        /\ Len(Append(Queue, v)) = count + 1
        /\ \A k \in 1..count : Append(Queue, v)[k] = Queue[k]
        /\ Append(Queue, v)[count + 1] = v
    BY QueueParts, <1>0 DEF QueueOK
  <2>4. ASSUME NEW k \in 1 .. count + 1  PROVE Queue'[k] = Append(Queue, v)[k]
    <3>1. CASE k = count + 1
      <4>1. k - 1 \in {count} /\ Queue'[k] = At(k - 1)'
        BY <3>1, <1>0, <1>2, <1>q
      <4> QED  BY <4>1, <3>1, <2>2, <2>3, Zenon
    <3>2. CASE k # count + 1
      <4>1. k \in 1..count /\ k - 1 \in 0 .. count - 1 /\ k \in 1..count'
        BY <3>2, <1>0, <1>2
      <4>2. Queue'[k] = At(k - 1)'
        BY <4>1, <1>q, Zenon
      <4>3. Queue[k] = At(k - 1)
        BY <4>1, QueueParts, Zenon DEF QueueOK
      <4> QED  BY <4>1, <4>2, <4>3, <2>1, <2>3, Zenon
    <3> QED  BY <3>1, <3>2, Zenon
  <2>5. Queue' = Append(Queue, v)
    BY <2>3, <2>4, <1>q, <1>2, SeqEqual, Zenon
  <2> QED  BY <2>5, <1>2, Zenon
<1>3. CASE /\ nodes' = [nodes EXCEPT ![head] = Cleared(@)]
           /\ UNCHANGED <<head, tail, count, pushed, is_run, got>>
  <2>1. \A k \in 0 .. count - 1 : At(k)' = At(k)
    BY <1>0, <1>1, <1>3, Zenon DEF At
  <2>2. ASSUME NEW k \in 1..count  PROVE Queue'[k] = Queue[k]
    <3>1. k - 1 \in 0 .. count - 1
      BY <1>0
    <3>2. Queue'[k] = At(k - 1)' /\ Queue[k] = At(k - 1)
      BY <1>q, <1>3, QueueParts, Zenon DEF QueueOK
    <3> QED  BY <3>1, <3>2, <2>1, Zenon
  <2>3. Queue' = Queue
    BY <2>2, <1>q, <1>3, QueueParts, SeqEqual, Zenon DEF QueueOK
  <2> QED  BY <2>3, <1>3, Zenon
<1> QED  BY <1>2, <1>3, Zenon DEF push

\* A pop takes its head, or leaves it alone when the buffer is too short.
LEMMA PopIsGet ==
  ASSUME RingInv, RingInv', ~Empty, NEW t \in Threads, NEW c, pop(t, c)
  PROVE  \/ /\ Queue # <<>> /\ got' = Head(Queue) /\ Queue' = Tail(Queue)
            /\ UNCHANGED <<pushed, is_run>>
         \/ UNCHANGED <<Queue, pushed, is_run, got>>
<1>0. count \in 1..Capacity /\ tail \in Slots
      /\ nodes \in [Slots -> threadboundedqueue_node_t]
  BY QueueAssumption DEF RingInv, Empty
<1>q. /\ Queue' \in Seq(Values \cup {None}) /\ Len(Queue') = count'
      /\ \A k \in 1..count' : Queue'[k] = At(k - 1)'
  BY QueuePartsNext, Zenon DEF QueueOK
<1>1. CASE UNCHANGED <<count, head, tail, nodes, pushed, is_run, got>>
  BY <1>1, Zenon DEF Queue
<1>2. CASE /\ got' = Content(nodes[tail])
           /\ nodes' = [nodes EXCEPT ![tail] = Emptied(@)]
           /\ tail' = Advance(tail)
           /\ count' = count - 1
           /\ UNCHANGED <<pushed, is_run>>
  <2>1. Queue \in Seq(Values \cup {None}) /\ Len(Queue) = count /\ Queue # <<>>
        /\ \A k \in 1..count : Queue[k] = At(k - 1)
    BY QueueParts, <1>0, EmptySeq DEF QueueOK
  <2>2. got' = Head(Queue)
    <3>1. Head(Queue) = Queue[1] /\ Queue[1] = At(1 - 1)
      BY <2>1, <1>0
    <3>2. (tail + 0) % Capacity = tail
      <4>1. 0 \in 0..Capacity
        BY QueueAssumption
      <4>2. (tail + 0) % Capacity = IF tail + 0 < Capacity THEN tail + 0 ELSE tail + 0 - Capacity
        BY <4>1, <1>0, Wrap, Zenon
      <4> QED  BY <4>2, <1>0, QueueAssumption, SMTT(30) DEF Slots
    <3>3. At(1 - 1) = Content(nodes[tail])
      BY <3>2 DEF At
    <3> QED  BY <3>1, <3>2, <3>3, <1>2, Zenon
  <2>3. ASSUME NEW k \in 0 .. count - 2  PROVE At(k)' = At(k + 1)
    <3>1. k \in 0 .. count - 1 /\ k + 1 \in 1 .. Capacity - 1 /\ k + 1 \in 0..Capacity
          /\ k + 1 \in 0 .. count - 1 /\ k \in 0 .. (count - 1) - 1
      BY <1>0, QueueAssumption
    <3>2. (Advance(tail) + k) % Capacity = (tail + (k + 1)) % Capacity
      BY <3>1, <1>0, RingShrinks, Zenon
    <3>3. (tail + (k + 1)) % Capacity \in Slots
      BY <3>1, <1>0, Wrap, Zenon
    <3>4. (tail + (k + 1)) % Capacity # tail
      <4>1. InRing(Advance(tail), count - 1, (tail + (k + 1)) % Capacity)
        BY <3>1, <3>2, Zenon DEF InRing
      <4> QED  BY <4>1, <3>3, <1>0, RingShrinks
    <3> QED  BY <3>2, <3>3, <3>4, <1>0, <1>2, Zenon DEF At
  <2>4. Tail(Queue) \in Seq(Values \cup {None}) /\ Len(Tail(Queue)) = count - 1
        /\ \A k \in 1 .. count - 1 : Tail(Queue)[k] = Queue[k + 1]
    BY <2>1, HeadTailProperties, Zenon
  <2>5. ASSUME NEW k \in 1 .. count - 1  PROVE Queue'[k] = Tail(Queue)[k]
    <3>1. k - 1 \in 0 .. count - 2 /\ k \in 1..count' /\ k + 1 \in 1..count
          /\ (k - 1) + 1 = k /\ (k + 1) - 1 = k
      BY <1>0, <1>2
    <3>2. Queue'[k] = At(k - 1)' /\ Queue[k + 1] = At((k + 1) - 1)
      BY <3>1, <2>1, <1>q, Zenon
    <3>3. At(k - 1)' = At((k - 1) + 1)
      BY <3>1, <2>3, Zenon
    <3> QED  BY <3>1, <3>2, <3>3, <2>4, Zenon
  <2>6. Queue' = Tail(Queue)
    BY <2>4, <2>5, <1>q, <1>2, SeqEqual, Zenon
  <2> QED  BY <2>1, <2>2, <2>6, <1>2, Zenon
<1> QED  BY <1>1, <1>2, Zenon DEF pop

\* Every step of the ring is a step of the FIFO or leaves it alone.
LEMMA FifoStep ==
  ASSUME QueueInv, QueueInv', [Next]_vars
  PROVE  [Fifo!Next]_(Fifo!vars)
<1>0. RingInv /\ RingInv' /\ ArgInv
  BY Zenon DEF QueueInv
<1>s. UNCHANGED <<Queue, pushed, is_run, got>> => UNCHANGED Fifo!vars
  BY Zenon DEF Queue, Fifo!vars
<1>1. ASSUME NEW v \in Values, NEW c, is_run, ~Full, push(v, c)
      PROVE  [Fifo!Next]_(Fifo!vars)
  <2>1. CASE Queue' = Append(Queue, v) /\ pushed' = v /\ UNCHANGED <<is_run, got>>
    <3>1. Len(Queue) < Capacity
      BY <1>0, <1>1, QueueParts, QueueAssumption, SMTT(30) DEF QueueOK, Full, RingInv
    <3>2. Fifo!Put(v)
      BY <1>1, <2>1, <3>1, Zenon DEF Fifo!Put, Queue
    <3> QED  BY <3>2, Zenon DEF Fifo!Next
  <2>2. CASE UNCHANGED <<Queue, pushed, is_run, got>>
    BY <2>2, <1>s, Zenon
  <2> QED  BY <2>1, <2>2, <1>0, <1>1, PushIsPut, Zenon
<1>2. ASSUME NEW t \in Threads, NEW c, is_run, ~Empty, pop(t, c)
      PROVE  [Fifo!Next]_(Fifo!vars)
  <2>1. CASE /\ Queue # <<>> /\ got' = Head(Queue) /\ Queue' = Tail(Queue)
             /\ UNCHANGED <<pushed, is_run>>
    <3>1. Fifo!Get
      BY <1>2, <2>1, Zenon DEF Fifo!Get, Queue
    <3> QED  BY <3>1, Zenon DEF Fifo!Next
  <2>2. CASE UNCHANGED <<Queue, pushed, is_run, got>>
    BY <2>2, <1>s, Zenon
  <2> QED  BY <2>1, <2>2, <1>0, <1>2, PopIsGet, Zenon
<1>3. ASSUME UNCHANGED <<is_run, ring, got>>  PROVE UNCHANGED Fifo!vars
  BY <1>3, Zenon DEF ring, Fifo!vars
<1>4. ASSUME threadboundedqueue_stop  PROVE Fifo!Next
  <2>1. Fifo!Stop
    BY <1>4, Zenon DEF threadboundedqueue_stop, ring, Fifo!Stop
  <2> QED  BY <2>1, Zenon DEF Fifo!Next
<1>5. ASSUME NEW t \in Threads, Begin(t)  PROVE [Fifo!Next]_(Fifo!vars)
  BY <1>1, <1>2, <1>3, <1>5, Zenon
  DEF Begin, Enter, threadboundedqueue_push_nonblock, threadboundedqueue_pop_nonblock
<1>6. ASSUME NEW t \in Threads, Continue(t)  PROVE [Fifo!Next]_(Fifo!vars)
  <2>1. call[t].op = "push" => call[t].arg \in Values
    BY <1>0, Zenon DEF ArgInv
  <2> QED  BY <1>1, <1>2, <1>3, <1>6, <2>1, Zenon
           DEF Continue, threadboundedqueue_push_block, threadboundedqueue_pop_block, Sleep,
               Stopped
<1>7. ASSUME NEW t \in Threads, TimeOut(t) \/ SpuriousWakeup(t)
      PROVE  UNCHANGED Fifo!vars
  BY <1>3, <1>7, Zenon DEF TimeOut, SpuriousWakeup
<1>8. CASE UNCHANGED vars
  BY <1>3, <1>8, Zenon DEF vars, ring
<1> QED  BY <1>4, <1>5, <1>6, <1>7, <1>8, Zenon DEF Next

\* The queue starts as an empty FIFO.
LEMMA FifoInit == Init => Fifo!Init
<1> SUFFICES ASSUME Init  PROVE Fifo!Init
  OBVIOUS
<1>1. [k \in 1..count |-> Content(nodes[(tail + k - 1) % Capacity])] = <<>>
  <2>1. QueueOK /\ count = 0
    BY InitQueue, QueueParts, Zenon DEF QueueInv, Init
  <2>2. Queue = <<>>
    BY <2>1, EmptySeq, Zenon DEF QueueOK
  <2> QED  BY <2>2, Zenon DEF Queue
<1> QED  BY <1>1, Zenon DEF Fifo!Init, Init

\* The ring, with its wrap-around and its long and short messages, implements a
\* bounded FIFO: messages come out once, in the order in which they went in, never
\* more than Capacity of them inside, and none once the queue is stopped.
THEOREM IsFifoThm == Spec => IsFifo
<1>1. QueueInv /\ QueueInv' /\ [Next]_vars => [Fifo!Next]_(Fifo!vars)
  BY FifoStep, Zenon
<1> QED  BY <1>1, FifoInit, QueueAlways, PTL DEF Spec, IsFifo, Fifo!Spec

-----------------------------------------------------------------------------
(***************************************************************************)
(* The wakeups.                                                            *)
(***************************************************************************)
AwakeFor(c, op) == {t \in Threads : c[t].op = op /\ ~c[t].asleep}
AsleepFor(c, op) == {t \in Threads : c[t].op = op /\ c[t].asleep}

\* While a thread sleeps in op, at least n threads are awake in it.
Woken(c, op, n) == AsleepFor(c, op) # {} => Cardinality(AwakeFor(c, op)) >= n

WakeInv ==
    is_run => /\ "pop" \notin refused => Woken(call, "pop", count)
              /\ "push" \notin refused => Woken(call, "push", Capacity - count)

\* The threads awake in an operation can be counted.
LEMMA AwakeCount ==
  ASSUME NEW c, NEW op
  PROVE  IsFiniteSet(AwakeFor(c, op)) /\ Cardinality(AwakeFor(c, op)) \in Nat
<1>1. AwakeFor(c, op) \in SUBSET Threads /\ IsFiniteSet(Threads)
  BY QueueAssumption, Zenon DEF AwakeFor
<1>2. IsFiniteSet(AwakeFor(c, op))
  BY <1>1, FS_Subset, Zenon
<1> QED  BY <1>2, FS_CardinalityType, Zenon

\* No thread goes to sleep, none that is awake leaves, and no more are needed.
LEMMA WokenMonotonic ==
  ASSUME NEW c, NEW d, NEW op, NEW m \in Int, NEW n \in Int, m <= n,
         AsleepFor(d, op) \subseteq AsleepFor(c, op),
         AwakeFor(c, op) \subseteq AwakeFor(d, op), Woken(c, op, n)
  PROVE  Woken(d, op, m)
<1>1. AwakeFor(c, op) \in SUBSET AwakeFor(d, op)
  OBVIOUS
<1>2. Cardinality(AwakeFor(c, op)) <= Cardinality(AwakeFor(d, op))
  BY <1>1, AwakeCount, FS_Subset, Zenon
<1>3. Cardinality(AwakeFor(c, op)) \in Nat /\ Cardinality(AwakeFor(d, op)) \in Nat
  BY AwakeCount, Zenon
<1> QED  BY <1>2, <1>3 DEF Woken

\* A signal wakes one sleeper of its operation, and nobody else.
LEMMA WokenSignal ==
  ASSUME NEW c \in [Threads -> CallType], NEW op, NEW d \in Signalled(c, op),
         AsleepFor(c, op) = Sleepers(op)
  PROVE  /\ \A n \in Int : Woken(c, op, n) => Woken(d, op, n + 1)
         /\ \A o, n : o # op /\ Woken(c, o, n) => Woken(d, o, n)
<1>1. CASE Sleepers(op) = {}
  <2>1. d = c
    BY <1>1, Zenon DEF Signalled
  <2> QED  BY <1>1, <2>1, Zenon DEF Woken
<1>2. CASE Sleepers(op) # {}
  <2>1. PICK u \in AsleepFor(c, op) : d = [c EXCEPT ![u] = Awake(@)]
    BY <1>2, Zenon DEF Signalled
  <2>2. /\ u \in Threads /\ c[u].op = op /\ c[u].asleep /\ c[u] \in CallType
        /\ d[u] = Awake(c[u]) /\ \A t \in Threads \ {u} : d[t] = c[t]
    BY <2>1, Zenon DEF AsleepFor
  <2>0. Awake(c[u]).op = c[u].op /\ Awake(c[u]).asleep = FALSE
    BY <2>2, CallParts, Zenon
  <2>3. d[u].op = op /\ ~d[u].asleep
    BY <2>0, <2>2, Zenon
  <2>4. /\ AwakeFor(d, op) = AwakeFor(c, op) \cup {u}
        /\ u \notin AwakeFor(c, op)
    BY <2>2, <2>3, Zenon DEF AwakeFor
  <2>5. /\ Cardinality(AwakeFor(d, op)) = Cardinality(AwakeFor(c, op)) + 1
        /\ Cardinality(AwakeFor(c, op)) \in Nat
    BY <2>4, AwakeCount, FS_AddElement, ZenonT(60)
  <2>6. ASSUME NEW n \in Int, Woken(c, op, n)  PROVE Woken(d, op, n + 1)
    BY <2>1, <2>5, <2>6, SMTT(30) DEF Woken
  <2>7. ASSUME NEW o, o # op
        PROVE  AwakeFor(d, o) = AwakeFor(c, o) /\ AsleepFor(d, o) = AsleepFor(c, o)
    BY <2>2, <2>3, <2>7, SMTT(30) DEF AwakeFor, AsleepFor
  <2> QED  BY <2>6, <2>7, Zenon DEF Woken
<1> QED  BY <1>1, <1>2, Zenon

\* A thread that is awake ends its call.
LEMMA WokenFinished ==
  ASSUME QueueInv, NEW t \in Threads, ~call[t].asleep
  PROVE  /\ \A n \in Int : Woken(call, call[t].op, n) => Woken(Finished(t), call[t].op, n - 1)
         /\ \A o \in {"push", "pop"}, n \in Int :
               o # call[t].op /\ Woken(call, o, n) => Woken(Finished(t), o, n)
         /\ \A o \in {"push", "pop"} : AsleepFor(Finished(t), o) = Sleepers(o)
<1> DEFINE c == Finished(t)
<1>1. c[t] = NoCall /\ \A u \in Threads \ {t} : c[u] = call[u]
  BY FinishedCalls, Zenon
<1>2. NoCall.op = "none" /\ NoCall.asleep = FALSE
  BY Zenon DEF NoCall
<1> HIDE DEF c
<1>3. \A o \in {"push", "pop"} : AsleepFor(c, o) = Sleepers(o)
  BY <1>1, <1>2, Zenon DEF AsleepFor, Sleepers
<1>4. ASSUME NEW n \in Int, Woken(call, call[t].op, n)
      PROVE  Woken(c, call[t].op, n - 1)
  <2> DEFINE op == call[t].op
  <2>1. AwakeFor(call, op) \ {t} \subseteq AwakeFor(c, op)
        /\ t \in AwakeFor(call, op)
    BY <1>1, Zenon DEF AwakeFor
  <2>2. AsleepFor(c, op) \subseteq AsleepFor(call, op)
    BY <1>1, <1>2, Zenon DEF AsleepFor
  <2> HIDE DEF op
  <2>3. /\ Cardinality(AwakeFor(call, op) \ {t}) = Cardinality(AwakeFor(call, op)) - 1
        /\ Cardinality(AwakeFor(call, op)) \in Nat
    BY <2>1, AwakeCount, FS_RemoveElement, Zenon
  <2>4. Cardinality(AwakeFor(call, op) \ {t}) <= Cardinality(AwakeFor(c, op))
        /\ Cardinality(AwakeFor(c, op)) \in Nat
    <3>1. AwakeFor(call, op) \ {t} \in SUBSET AwakeFor(c, op)
      BY <2>1, Zenon
    <3> QED  BY <3>1, AwakeCount, FS_Subset, Zenon
  <2>5. Woken(call, op, n) => Woken(c, op, n - 1)
    BY <2>2, <2>3, <2>4, SMTT(30) DEF Woken
  <2> QED  BY <2>5, <1>4, Zenon DEF op
<1>5. ASSUME NEW o \in {"push", "pop"}, o # call[t].op
      PROVE  AwakeFor(c, o) = AwakeFor(call, o) /\ AsleepFor(c, o) = AsleepFor(call, o)
  BY <1>1, <1>2, <1>5, Zenon DEF AwakeFor, AsleepFor
<1> QED  BY <1>3, <1>4, <1>5, Zenon DEF Woken, c

\* A push: one more message and one more popper awake; one place less, and one
\* pusher less if it was a blocking call.
LEMMA WokenPush ==
  ASSUME QueueInv, ~Full, NEW v, NEW c \in [Threads -> CallType], push(v, c),
         is_run => /\ "pop" \notin refused => Woken(c, "pop", count)
                   /\ "push" \notin refused => Woken(c, "push", Capacity - count - 1),
         AsleepFor(c, "pop") = Sleepers("pop")
  PROVE  WakeInv'
<1>0. count \in Int /\ Capacity \in Int
  BY QueueAssumption DEF QueueInv, RingInv
<1>1. CASE /\ count' = count + 1 /\ call' \in Signalled(c, "pop")
           /\ UNCHANGED <<refused, is_run>>
  <2>1. /\ \A n \in Int : Woken(c, "pop", n) => Woken(call', "pop", n + 1)
        /\ \A n : Woken(c, "push", n) => Woken(call', "push", n)
    BY <1>1, WokenSignal
  <2>2. Capacity - (count + 1) = Capacity - count - 1
    BY <1>0
  <2> QED  BY <1>0, <1>1, <2>1, <2>2, ZenonT(60) DEF WakeInv
<1>2. CASE call' = c /\ refused' = refused \cup {"push"} /\ UNCHANGED <<count, is_run>>
  BY <1>2, Zenon DEF WakeInv
<1> QED  BY <1>1, <1>2, Zenon DEF push

\* A pop: one place more and one more pusher awake.
LEMMA WokenPop ==
  ASSUME QueueInv, ~Empty, NEW t, NEW c \in [Threads -> CallType], pop(t, c),
         is_run => /\ "pop" \notin refused => Woken(c, "pop", count - 1)
                   /\ "push" \notin refused => Woken(c, "push", Capacity - count),
         AsleepFor(c, "push") = Sleepers("push")
  PROVE  WakeInv'
<1>0. count \in Int /\ Capacity \in Int
  BY QueueAssumption DEF QueueInv, RingInv
<1>1. CASE /\ count' = count - 1 /\ call' \in Signalled(c, "push")
           /\ UNCHANGED <<refused, is_run>>
  <2>1. /\ \A n \in Int : Woken(c, "push", n) => Woken(call', "push", n + 1)
        /\ \A n : Woken(c, "pop", n) => Woken(call', "pop", n)
    BY <1>1, WokenSignal
  <2>2. Capacity - (count - 1) = (Capacity - count) + 1 /\ Capacity - count \in Int
    BY <1>0
  <2> QED  BY <1>0, <1>1, <2>1, <2>2, Zenon DEF WakeInv
<1>2. CASE call' = c /\ refused' = refused \cup {"pop"} /\ UNCHANGED <<count, is_run>>
  BY <1>2, Zenon DEF WakeInv
<1> QED  BY <1>1, <1>2, Zenon DEF pop

\* No thread goes to sleep and none that is awake leaves; the queue is left alone.
LEMMA WokenKeeps ==
  ASSUME QueueInv, WakeInv, UNCHANGED <<is_run, ring, got>>,
         \A o \in {"push", "pop"} : /\ AsleepFor(call', o) \subseteq AsleepFor(call, o)
                                    /\ AwakeFor(call, o) \subseteq AwakeFor(call', o)
  PROVE  WakeInv'
<1>0. count \in Int /\ Capacity - count \in Int
  BY QueueAssumption DEF QueueInv, RingInv
<1>1. /\ Woken(call, "pop", count) => Woken(call', "pop", count)
      /\ Woken(call, "push", Capacity - count) => Woken(call', "push", Capacity - count)
  BY <1>0, WokenMonotonic
<1> QED  BY <1>1, Zenon DEF WakeInv, ring

\* Every step keeps enough threads awake.
LEMMA WakeStep == QueueInv /\ WakeInv /\ [Next]_vars => WakeInv'
<1> SUFFICES ASSUME QueueInv, WakeInv, [Next]_vars  PROVE WakeInv'
  OBVIOUS
<1>0. /\ call \in [Threads -> CallType]
      /\ count \in Int /\ Capacity \in Int /\ Capacity - count \in Int
      /\ count - 1 \in Int /\ Capacity - count - 1 \in Int
  BY QueueAssumption DEF QueueInv, RingInv
<1>a. \A o : AsleepFor(call, o) = Sleepers(o)
  BY Zenon DEF AsleepFor, Sleepers
<1>1. ASSUME NEW t \in Threads, NEW op, NEW v, Enter(t, op, v)  PROVE WakeInv'
  <2>1. /\ call[t].op = "none" /\ ~call'[t].asleep
        /\ \A u \in Threads \ {t} : call'[u] = call[u]
    BY <1>0, <1>1 DEF Enter, NoCall, Call
  <2>2. \A o \in {"push", "pop"} : /\ AsleepFor(call', o) \subseteq AsleepFor(call, o)
                                   /\ AwakeFor(call, o) \subseteq AwakeFor(call', o)
    BY <2>1, Zenon DEF AsleepFor, AwakeFor
  <2> QED  BY <1>1, <2>2, WokenKeeps, Zenon DEF Enter
<1>2. ASSUME NEW t \in Threads, NEW v, ~Full, push(v, call)  PROVE WakeInv'
  <2>1. Woken(call, "push", Capacity - count) => Woken(call, "push", Capacity - count - 1)
    BY <1>0, WokenMonotonic
  <2> QED  BY <1>0, <1>2, <1>a, <2>1, WokenPush, Zenon DEF WakeInv
<1>3. ASSUME NEW t \in Threads, ~Empty, pop(t, call)  PROVE WakeInv'
  <2>1. Woken(call, "pop", count) => Woken(call, "pop", count - 1)
    BY <1>0, WokenMonotonic
  <2> QED  BY <1>0, <1>3, <1>a, <2>1, WokenPop, Zenon DEF WakeInv
<1>4. ASSUME NEW t \in Threads, call[t].op = "push", ~call[t].asleep, ~Full,
             push(call[t].arg, Finished(t))
      PROVE  WakeInv'
  <2>1. /\ Finished(t) \in [Threads -> CallType]
        /\ AsleepFor(Finished(t), "pop") = Sleepers("pop")
    BY <1>4, FinishedCalls, WokenFinished, Zenon
  <2>2. /\ Woken(call, "pop", count) => Woken(Finished(t), "pop", count)
        /\ Woken(call, "push", Capacity - count) =>
              Woken(Finished(t), "push", Capacity - count - 1)
    BY <1>0, <1>4, WokenFinished, Zenon
  <2> QED  BY <1>4, <2>1, <2>2, WokenPush, Zenon DEF WakeInv
<1>5. ASSUME NEW t \in Threads, call[t].op = "pop", ~call[t].asleep, ~Empty,
             pop(t, Finished(t))
      PROVE  WakeInv'
  <2>1. /\ Finished(t) \in [Threads -> CallType]
        /\ AsleepFor(Finished(t), "push") = Sleepers("push")
    BY <1>5, FinishedCalls, WokenFinished, Zenon
  <2>2. /\ Woken(call, "push", Capacity - count) =>
              Woken(Finished(t), "push", Capacity - count)
        /\ Woken(call, "pop", count) => Woken(Finished(t), "pop", count - 1)
    BY <1>0, <1>5, WokenFinished, Zenon
  <2> QED  BY <1>5, <2>1, <2>2, WokenPop, Zenon DEF WakeInv
<1>6. ASSUME NEW t \in Threads, Sleep(t), ~call[t].asleep,
             \/ call[t].op = "push" /\ Full
             \/ call[t].op = "pop" /\ Empty
      PROVE  WakeInv'
  <2>0. \A o : Cardinality(AwakeFor(call', o)) \in Nat
    BY AwakeCount, Zenon
  <2>1. /\ call'[t].op = call[t].op
        /\ \A u \in Threads \ {t} : call'[u] = call[u]
    BY <1>0, <1>6, CallParts, Zenon DEF Sleep
  <2>2. ASSUME NEW o, o # call[t].op
        PROVE  AwakeFor(call', o) = AwakeFor(call, o) /\ AsleepFor(call', o) = AsleepFor(call, o)
    BY <2>1, <2>2, Zenon DEF AwakeFor, AsleepFor
  <2>3. UNCHANGED <<is_run, count, refused>>
    BY <1>6, Zenon DEF Sleep, ring
  <2>4. CASE call[t].op = "push" /\ Full
    <3>1. Woken(call', "push", Capacity - count)
      BY <2>0, <2>4, <1>0 DEF Woken, Full
    <3>2. Woken(call, "pop", count) => Woken(call', "pop", count)
      BY <2>2, <2>4, Zenon DEF Woken
    <3> QED  BY <3>1, <3>2, <2>3, Zenon DEF WakeInv
  <2>5. CASE call[t].op = "pop" /\ Empty
    <3>1. Woken(call', "pop", count)
      BY <2>0, <2>5, <1>0, SMTT(30) DEF Woken, Empty
    <3>2. Woken(call, "push", Capacity - count) => Woken(call', "push", Capacity - count)
      BY <2>2, <2>5, Zenon DEF Woken
    <3> QED  BY <3>1, <3>2, <2>3, Zenon DEF WakeInv
  <2> QED  BY <1>6, <2>4, <2>5, Zenon
<1>7. ASSUME ~is_run'  PROVE WakeInv'
  BY <1>7, Zenon DEF WakeInv
<1>8. ASSUME NEW t \in Threads, TimeOut(t) \/ SpuriousWakeup(t)  PROVE WakeInv'
  <2>1. /\ call[t].asleep /\ \A u \in Threads \ {t} : call'[u] = call[u]
        /\ ~call'[t].asleep
    <3>1. Awake(call[t]).asleep = FALSE /\ NoCall.asleep = FALSE
      BY <1>0, CallParts, Zenon DEF NoCall
    <3>2. /\ call[t].asleep /\ \A u \in Threads \ {t} : call'[u] = call[u]
          /\ call'[t] \in {NoCall, Awake(call[t])}
      BY <1>0, <1>8, Zenon DEF TimeOut, SpuriousWakeup, Finished
    <3> QED  BY <3>1, <3>2, Zenon
  <2>2. \A o \in {"push", "pop"} : /\ AsleepFor(call', o) \subseteq AsleepFor(call, o)
                                   /\ AwakeFor(call, o) \subseteq AwakeFor(call', o)
    BY <2>1, Zenon DEF AsleepFor, AwakeFor
  <2> QED  BY <1>8, <2>2, WokenKeeps, Zenon DEF TimeOut, SpuriousWakeup
<1>9. CASE UNCHANGED vars
  BY <1>9, Zenon DEF vars, WakeInv
<1>10. ASSUME NEW t \in Threads, Begin(t)  PROVE WakeInv'
  BY <1>1, <1>2, <1>3, <1>10, Zenon
  DEF Begin, threadboundedqueue_push_nonblock, threadboundedqueue_pop_nonblock
<1>11. ASSUME NEW t \in Threads, Continue(t)  PROVE WakeInv'
  BY <1>4, <1>5, <1>6, <1>7, <1>11, Zenon
  DEF Continue, threadboundedqueue_push_block, threadboundedqueue_pop_block, Stopped
<1>12. ASSUME threadboundedqueue_stop  PROVE WakeInv'
  BY <1>7, <1>12, Zenon DEF threadboundedqueue_stop
<1> QED  BY <1>8, <1>9, <1>10, <1>11, <1>12, Zenon DEF Next

\* WakeInv is an invariant.
LEMMA WakeAlways == Spec => [](QueueInv /\ WakeInv)
<1>1. Init => WakeInv
  <2> SUFFICES ASSUME Init  PROVE WakeInv
    OBVIOUS
  <2>1. \A o \in {"push", "pop"} : AsleepFor(call, o) = {}
    BY Zenon DEF Init, NoCall, AsleepFor
  <2> QED  BY <2>1, Zenon DEF WakeInv, Woken
<1> QED  BY <1>1, WakeStep, QueueAlways, PTL DEF Spec

\* As long as no pop is refused for a short buffer, no popper sleeps on while there
\* is a message, unless one that was woken for it is still to run.
THEOREM PopperIsWokenThm == Spec => []PopperIsWoken
<1>1. QueueInv /\ WakeInv => PopperIsWoken
  <2> SUFFICES ASSUME QueueInv, WakeInv, "pop" \notin refused, is_run, ~Empty,
                      Sleepers("pop") # {}
               PROVE  \E t \in Threads : call[t].op = "pop" /\ ~call[t].asleep
    BY Zenon DEF PopperIsWoken, PopperWaitsIfEmpty
  <2>1. Cardinality(AwakeFor(call, "pop")) >= 1
    <3>1. Cardinality(AwakeFor(call, "pop")) >= count
      BY Zenon DEF WakeInv, Woken, Sleepers, AsleepFor
    <3>2. Cardinality(AwakeFor(call, "pop")) \in Nat
      BY AwakeCount, Zenon
    <3> QED  BY <3>1, <3>2 DEF Empty, QueueInv, RingInv
  <2>2. AwakeFor(call, "pop") # {}
    BY <2>1, FS_EmptySet, SMTT(30)
  <2> QED  BY <2>2, Zenon DEF AwakeFor
<1> QED  BY <1>1, WakeAlways, PTL

\* As long as no push runs out of memory, no pusher sleeps on while there is room,
\* unless one that was woken for it is still to run.
THEOREM PusherIsWokenThm == Spec => []PusherIsWoken
<1>1. QueueInv /\ WakeInv => PusherIsWoken
  <2> SUFFICES ASSUME QueueInv, WakeInv, "push" \notin refused, is_run, ~Full,
                      Sleepers("push") # {}
               PROVE  \E t \in Threads : call[t].op = "push" /\ ~call[t].asleep
    BY Zenon DEF PusherIsWoken
  <2>1. Cardinality(AwakeFor(call, "push")) >= 1
    <3>1. Cardinality(AwakeFor(call, "push")) >= Capacity - count
      BY Zenon DEF WakeInv, Woken, Sleepers, AsleepFor
    <3>2. Cardinality(AwakeFor(call, "push")) \in Nat
      BY AwakeCount, Zenon
    <3> QED  BY <3>1, <3>2, QueueAssumption DEF Full, QueueInv, RingInv
  <2>2. AwakeFor(call, "push") # {}
    BY <2>1, FS_EmptySet
  <2> QED  BY <2>2, Zenon DEF AwakeFor
<1> QED  BY <1>1, WakeAlways, PTL

\* Until a call is refused, no thread sleeps in a blocking pop beside a message, or
\* in a blocking push beside a free slot, that no awake thread will come for.
THEOREM NoLostWakeupThm == Spec => []NoLostWakeup
<1>1. PopperIsWoken /\ PusherIsWoken => NoLostWakeup
  BY Zenon DEF NoLostWakeup
<1> QED  BY <1>1, PopperIsWokenThm, PusherIsWokenThm, PTL

-----------------------------------------------------------------------------
(***************************************************************************)
(* The pool.                                                               *)
(*                                                                         *)
(* Every step of the pool is a step of its queue, or of none, or frees it, *)
(* or ends the call of a worker whose queue was freed: the ring stays as   *)
(* it is above.                                                            *)
(* A node's length is that of its message, so a worker's buffer is never   *)
(* too short (LenInv); a batch has tasks that were not accepted before     *)
(* (BatchInv); then a push, a pop and a run move a task from one place to  *)
(* the next (PlaceInv).                                                    *)
(***************************************************************************)

Holds(i, v) == nodes[i].len > 0 /\ Content(nodes[i]) = v

LenInv ==
    \A i \in Slots : nodes[i].len > 0 => \E v \in Values : Holds(i, v) /\ nodes[i].len = Size[v]

WorkerInv ==
    /\ worker \in [Workers -> {"none", "test", "pop", "run", "done"}]
    /\ doing \in [Workers -> Values \cup {None}]
    /\ \A w \in Workers : worker[w] = "run" <=> doing[w] # None

Waits(a, m, v) == m \in 1..Len(batch[a]) /\ batch[a][m] = v

BatchInv ==
    /\ batch \in [Adders -> Seq(Values)]
    /\ \A v \in Values, a, b \in Adders, m, n \in Nat :
          Waits(a, m, v) /\ Waits(b, n, v) => a = b /\ m = n
    /\ \A v \in accepted, a \in Adders, m \in Nat : ~Waits(a, m, v)

\* A task in two slots, in two workers' hands or in both is in two places.
OneHolder(v) ==
    /\ \A i, j \in Slots : Holds(i, v) /\ Holds(j, v) => i = j
    /\ \A w, u \in Workers : doing[w] = v /\ doing[u] = v => w = u
    /\ \A i \in Slots, w \in Workers : ~(Holds(i, v) /\ doing[w] = v)

Somewhere(v) == (\E i \in Slots : Holds(i, v)) \/ (\E w \in Workers : doing[w] = v)

\* What is somewhere was accepted and not run; and what was is somewhere, until the
\* queue is freed.
Placed(v) ==
    /\ Somewhere(v) => v \in accepted \ ran
    /\ ~QueueFreed /\ v \in accepted \ ran => Somewhere(v)

PlaceInv ==
    /\ accepted \subseteq Values /\ ran \subseteq accepted
    /\ \A v \in Values : OneHolder(v) /\ Placed(v)

PoolInv ==
    /\ QueueInv
    /\ run \in BOOLEAN
    /\ owner \in {"creating", "live", "failed", "unwinding", "none", "stopped", "joining", "gone"}
    /\ LenInv /\ WorkerInv /\ BatchInv /\ PlaceInv

-----------------------------------------------------------------------------
\* The threads of the pool, and what fits.
LEMMA Sizes ==
  /\ Workers \subseteq Threads /\ Adders \subseteq Threads
  /\ \A v \in Values : ~(Size[v] > NodeSize) /\ v # None
  /\ \A v \in Values, w \in Workers : ~(Size[v] > Buffer[w])
<1>1. Workers \subseteq Threads /\ Adders \subseteq Threads
  BY PoolAssumption, Zenon
<1>2. ASSUME NEW v \in Values
      PROVE  /\ ~(Size[v] > NodeSize) /\ v # None
             /\ \A w \in Workers : ~(Size[v] > Buffer[w])
  <2>1. Size[v] \in Nat /\ NodeSize \in Nat /\ v # None /\ Size[v] <= NodeSize
    BY QueueAssumption, PoolAssumption, Zenon
  <2>2. \A w \in Workers : Buffer[w] \in Nat /\ Size[v] <= Buffer[w]
    BY <1>1, QueueAssumption, PoolAssumption, Zenon
  <2> QED  BY <2>1, <2>2
<1> QED  BY <1>1, <1>2, Zenon

\* A message that was written to a node has its length there.
LEMMA WrittenLength ==
  ASSUME NEW node \in threadboundedqueue_node_t, NEW v \in Values
  PROVE  Written(Cleared(node), v).len = Size[v]
<1>1. Cleared(node) \in threadboundedqueue_node_t
  BY NodeParts, Zenon
<1>2. Written(Cleared(node), v) = [Cleared(node) EXCEPT !.data = v, !.len = Size[v]]
  BY Sizes, Zenon DEF Written
<1> QED  BY <1>1, <1>2, Zenon DEF threadboundedqueue_node_t

\* A push in the pool: the message goes into an empty slot, and there is no
\* message too long for a node.
LEMMA PushPlaces ==
  ASSUME QueueInv, LenInv, ~Full, NEW v \in Values, NEW c, push(v, c)
  PROVE  /\ LenInv'
         /\ head \in Slots
         /\ \A x : ~Holds(head, x)
         /\ \A i \in Slots : \A x : Holds(i, x)' <=> IF i = head THEN x = v ELSE Holds(i, x)
<1>0. /\ nodes' = [nodes EXCEPT ![head] = Written(Cleared(@), v)]
  BY Sizes, Zenon DEF push
<1>1. /\ head \in Slots /\ tail \in Slots /\ nodes \in [Slots -> threadboundedqueue_node_t]
      /\ nodes[head] \in threadboundedqueue_node_t
  BY Zenon DEF QueueInv, RingInv
<1>2. ~(nodes[head].len > 0)
  <2>1. count \in 0 .. Capacity - 1
    BY QueueAssumption DEF QueueInv, RingInv, Full
  <2>2. ~InRing(tail, count, head)
    BY <1>1, <2>1, RingGrows, Zenon DEF QueueInv, RingInv
  <2> QED  BY <1>1, <2>2, Zenon DEF QueueInv, RingInv
<1>3. nodes'[head] = Written(Cleared(nodes[head]), v) /\ \A i \in Slots \ {head} : nodes'[i] = nodes[i]
  BY <1>0, <1>1, Zenon
<1>4. nodes'[head].len > 0 /\ Content(nodes'[head]) = v /\ nodes'[head].len = Size[v]
  BY <1>1, <1>3, WrittenParts, WrittenLength, ZenonT(60)
<1>5. \A x : ~Holds(head, x)
  BY <1>2, Zenon DEF Holds
<1>6. ASSUME NEW i \in Slots, NEW x  PROVE Holds(i, x)' <=> IF i = head THEN x = v ELSE Holds(i, x)
  <2>1. CASE i = head
    BY <1>4, <2>1, Zenon DEF Holds
  <2>2. CASE i # head
    BY <1>3, <2>2, Zenon DEF Holds
  <2> QED  BY <2>1, <2>2, Zenon
<1>7. ASSUME NEW i \in Slots, nodes'[i].len > 0
      PROVE  \E x \in Values : Holds(i, x)' /\ nodes'[i].len = Size[x]
  <2>1. CASE i = head
    BY <1>4, <2>1, Zenon DEF Holds
  <2>2. CASE i # head
    BY <1>3, <1>7, <2>2, Zenon DEF Holds, LenInv
  <2> QED  BY <2>1, <2>2, Zenon
<1> QED  BY <1>1, <1>5, <1>6, <1>7, Zenon DEF LenInv

\* A worker's pop: it gets the message of the first slot, which is empty then.
LEMMA PopPlaces ==
  ASSUME QueueInv, LenInv, ~Empty, NEW w \in Workers, NEW c, pop(w, c)
  PROVE  /\ LenInv'
         /\ tail \in Slots /\ got' \in Values /\ Holds(tail, got')
         /\ \A i \in Slots : \A x : Holds(i, x)' <=> i # tail /\ Holds(i, x)
         /\ call' \in Signalled(c, "push")
<1>1. /\ tail \in Slots /\ nodes \in [Slots -> threadboundedqueue_node_t]
      /\ nodes[tail] \in threadboundedqueue_node_t
  BY Zenon DEF QueueInv, RingInv
<1>2. nodes[tail].len > 0
  <2>1. count \in 1..Capacity
    BY QueueAssumption DEF QueueInv, RingInv, Empty
  <2>2. InRing(tail, count, tail)
    BY <1>1, <2>1, RingShrinks, Zenon
  <2> QED  BY <1>1, <2>2, Zenon DEF QueueInv, RingInv
<1>3. PICK v \in Values : Holds(tail, v) /\ nodes[tail].len = Size[v]
  BY <1>1, <1>2, Zenon DEF LenInv
<1>4. ~(nodes[tail].len > Buffer[w])
  BY <1>3, Sizes, Zenon
<1>5. /\ got' = Content(nodes[tail])
      /\ nodes' = [nodes EXCEPT ![tail] = Emptied(@)]
      /\ call' \in Signalled(c, "push")
  BY <1>4, Zenon DEF pop
<1>6. nodes'[tail].len = 0 /\ \A i \in Slots \ {tail} : nodes'[i] = nodes[i]
  BY <1>1, <1>5, NodeParts, ZenonT(60)
<1>7. ~(nodes'[tail].len > 0)
  BY <1>6
<1>8. ASSUME NEW i \in Slots, NEW x  PROVE Holds(i, x)' <=> i # tail /\ Holds(i, x)
  <2>1. CASE i = tail
    BY <1>7, <2>1, Zenon DEF Holds
  <2>2. CASE i # tail
    BY <1>6, <2>2, Zenon DEF Holds
  <2> QED  BY <2>1, <2>2, Zenon
<1>9. LenInv'
  BY <1>6, <1>7, ZenonT(60) DEF LenInv, Holds
<1> QED  BY <1>1, <1>3, <1>5, <1>8, <1>9, ZenonT(60) DEF Holds

-----------------------------------------------------------------------------
(***************************************************************************)
(* The moves of a task.                                                    *)
(***************************************************************************)
\* Steps that leave the nodes and the tasks alone.
LEMMA PlaceKept ==
  ASSUME PlaceInv, LenInv, QueueFreed => QueueFreed', UNCHANGED <<nodes, doing, accepted, ran>>
  PROVE  PlaceInv' /\ LenInv'
<1>1. \A i \in Slots : \A x : Holds(i, x)' <=> Holds(i, x)
  BY Zenon DEF Holds
<1>2. \A x : (OneHolder(x)' <=> OneHolder(x)) /\ (Somewhere(x)' <=> Somewhere(x))
  BY <1>1, Zenon DEF OneHolder, Somewhere
<1>3. LenInv'
  BY <1>1, Zenon DEF LenInv
<1> QED  BY <1>2, <1>3, Zenon DEF PlaceInv, Placed

\* A push of a task that was not accepted before.
LEMMA PlacePushed ==
  ASSUME PlaceInv, QueueFreed => QueueFreed', NEW v \in Values, v \notin accepted, NEW h \in Slots,
         \A x : ~Holds(h, x),
         \A i \in Slots : \A x : Holds(i, x)' <=> IF i = h THEN x = v ELSE Holds(i, x),
         accepted' = accepted \cup {v}, doing' = doing, ran' = ran
  PROVE  PlaceInv'
<1>1. OneHolder(v) /\ ~Somewhere(v) /\ v \notin ran
  BY Zenon DEF PlaceInv, Placed
<1>2. ASSUME NEW x \in Values, x # v  PROVE OneHolder(x)' /\ Placed(x)'
  <2>1. \A i \in Slots : Holds(i, x)' <=> Holds(i, x)
    BY <1>2, Zenon
  <2>2. (OneHolder(x)' <=> OneHolder(x)) /\ (Somewhere(x)' <=> Somewhere(x))
    BY <2>1, Zenon DEF OneHolder, Somewhere
  <2> QED  BY <1>2, <2>2, Zenon DEF PlaceInv, Placed
<1>3. \A i \in Slots : Holds(i, v)' <=> i = h
  BY <1>1, Zenon DEF Somewhere
<1>4. \A w \in Workers : doing'[w] # v
  BY <1>1, Zenon DEF Somewhere
<1>5. OneHolder(v)' /\ Somewhere(v)'
  BY <1>3, <1>4, Zenon DEF OneHolder, Somewhere
<1> QED  BY <1>1, <1>2, <1>5, Zenon DEF PlaceInv, Placed

\* A pop hands a task from its slot to a worker that has none.
LEMMA PlacePopped ==
  ASSUME PlaceInv, QueueFreed => QueueFreed', NEW v \in Values, NEW h \in Slots, Holds(h, v),
         \A i \in Slots : \A x : Holds(i, x)' <=> i # h /\ Holds(i, x),
         NEW w \in Workers, doing \in [Workers -> Values \cup {None}], doing[w] = None,
         doing' = [doing EXCEPT ![w] = v], accepted' = accepted, ran' = ran
  PROVE  PlaceInv'
<1>0. \A x \in Values : x # None
  BY Sizes, Zenon
<1>1. OneHolder(v) /\ v \in accepted \ ran
  BY Zenon DEF PlaceInv, Placed, Somewhere
<1>2. doing'[w] = v /\ \A u \in Workers \ {w} : doing'[u] = doing[u]
  BY Zenon
<1>3. ASSUME NEW x \in Values, x # v  PROVE OneHolder(x)' /\ Placed(x)'
  <2>1. \A i \in Slots : Holds(i, x)' <=> Holds(i, x)
    BY <1>3, Zenon DEF Holds
  <2>2. \A u \in Workers : doing'[u] = x <=> doing[u] = x
    BY <1>0, <1>2, <1>3, Zenon
  <2>3. (OneHolder(x)' <=> OneHolder(x)) /\ (Somewhere(x)' <=> Somewhere(x))
    BY <2>1, <2>2, Zenon DEF OneHolder, Somewhere
  <2> QED  BY <1>3, <2>3, Zenon DEF PlaceInv, Placed
<1>4. \A i \in Slots : ~Holds(i, v)'
  BY <1>1, Zenon DEF OneHolder
<1>5. \A u \in Workers : doing'[u] = v <=> u = w
  BY <1>1, <1>2, Zenon DEF OneHolder
<1>6. OneHolder(v)' /\ Somewhere(v)'
  BY <1>4, <1>5, Zenon DEF OneHolder, Somewhere
<1> QED  BY <1>1, <1>3, <1>6, Zenon DEF PlaceInv, Placed

\* A worker has run its task.
LEMMA PlaceRun ==
  ASSUME PlaceInv, QueueFreed => QueueFreed', NEW w \in Workers,
         doing \in [Workers -> Values \cup {None}], doing[w] \in Values,
         doing' = [doing EXCEPT ![w] = None], accepted' = accepted, ran' = ran \cup {doing[w]},
         nodes' = nodes
  PROVE  PlaceInv'
<1>0. \A x \in Values : x # None
  BY Sizes, Zenon
<1>1. PICK v \in Values : v = doing[w]
  BY Zenon
<1>2. OneHolder(v) /\ v \in accepted \ ran
  BY <1>1, Zenon DEF PlaceInv, Placed, Somewhere
<1>3. doing'[w] = None /\ \A u \in Workers \ {w} : doing'[u] = doing[u]
  BY Zenon
<1>4. \A i \in Slots : \A x : Holds(i, x)' <=> Holds(i, x)
  BY Zenon DEF Holds
<1>5. ASSUME NEW x \in Values, x # v  PROVE OneHolder(x)' /\ Placed(x)'
  <2>1. \A u \in Workers : doing'[u] = x <=> doing[u] = x
    BY <1>0, <1>1, <1>3, <1>5, ZenonT(60)
  <2>2. (OneHolder(x)' <=> OneHolder(x)) /\ (Somewhere(x)' <=> Somewhere(x))
    BY <1>4, <2>1, Zenon DEF OneHolder, Somewhere
  <2> QED  BY <1>1, <1>5, <2>2, Zenon DEF PlaceInv, Placed
<1>6. /\ \A i \in Slots : ~Holds(i, v)'
      /\ \A u \in Workers : doing'[u] # v
  BY <1>0, <1>1, <1>2, <1>3, <1>4, ZenonT(60) DEF OneHolder
<1>7. OneHolder(v)' /\ ~Somewhere(v)'
  BY <1>6, Zenon DEF OneHolder, Somewhere
<1> QED  BY <1>1, <1>2, <1>5, <1>7, ZenonT(60) DEF PlaceInv, Placed

-----------------------------------------------------------------------------
(***************************************************************************)
(* The batches.                                                            *)
(***************************************************************************)
\* A batch that shrinks to part of itself, while its head may be accepted.
LEMMA BatchShrinks ==
  ASSUME BatchInv, NEW a \in Adders, NEW b \in Seq(Values), batch' = [batch EXCEPT ![a] = b],
         NEW d \in {0, 1}, \A m \in 1..Len(b) : m + d \in 1..Len(batch[a]) /\ b[m] = batch[a][m + d],
         NEW S, accepted' = accepted \cup S,
         \A v \in S, c \in Adders, m \in Nat : ~Waits(c, m, v)'
  PROVE  BatchInv'
<1>1. batch'[a] = b /\ \A c \in Adders \ {a} : batch'[c] = batch[c]
  BY Zenon DEF BatchInv
<1>2. batch' \in [Adders -> Seq(Values)]
  BY Zenon DEF BatchInv
<1>3. ASSUME NEW c \in Adders, NEW m \in Nat, NEW v, Waits(c, m, v)'
      PROVE  IF c = a THEN Waits(c, m + d, v) ELSE Waits(c, m, v)
  <2>0. m \in 1..Len(batch'[c]) /\ batch'[c][m] = v
    BY <1>3, Zenon DEF Waits
  <2>1. CASE c = a
    <3>1. m \in 1..Len(b) /\ b[m] = v
      BY <1>1, <2>0, <2>1, Zenon
    <3>2. m + d \in 1..Len(batch[a]) /\ batch[a][m + d] = v
      BY <3>1, Zenon
    <3> QED  BY <2>1, <3>2, Zenon DEF Waits
  <2>2. CASE c # a
    <3>1. m \in 1..Len(batch[c]) /\ batch[c][m] = v
      BY <1>1, <2>0, <2>2, Zenon
    <3> QED  BY <2>2, <3>1, Zenon DEF Waits
  <2> QED  BY <2>1, <2>2, Zenon
<1>4. ASSUME NEW v \in Values, NEW c \in Adders, NEW e \in Adders, NEW m \in Nat, NEW n \in Nat,
             Waits(c, m, v)', Waits(e, n, v)'
      PROVE  c = e /\ m = n
  <2>1. m + d \in Nat /\ n + d \in Nat /\ (m + d = n + d => m = n)
    OBVIOUS
  <2>2. \E x, y \in Nat : /\ Waits(c, x, v) /\ Waits(e, y, v)
                          /\ x = (IF c = a THEN m + d ELSE m)
                          /\ y = (IF e = a THEN n + d ELSE n)
    BY <1>3, <1>4, <2>1, Zenon
  <2>3. c = e /\ (IF c = a THEN m + d ELSE m) = (IF e = a THEN n + d ELSE n)
    BY <2>2, Zenon DEF BatchInv
  <2> QED  BY <2>1, <2>3, Zenon
<1>5. ASSUME NEW v \in accepted', NEW c \in Adders, NEW m \in Nat, Waits(c, m, v)'  PROVE FALSE
  <2>1. m + d \in Nat
    OBVIOUS
  <2>2. v \in accepted
    BY <1>5, Zenon
  <2>3. \E n \in Nat : Waits(c, n, v)
    BY <1>3, <1>5, <2>1, Zenon
  <2> QED  BY <2>2, <2>3, Zenon DEF BatchInv
<1> QED  BY <1>2, <1>4, <1>5, ZenonT(60) DEF BatchInv

\* fix_threadpool_addtasks with tasks that nobody has given to the pool.
LEMMA BatchAdded ==
  ASSUME BatchInv, NEW a \in Adders, NEW b \in Batches, Add(a, b)
  PROVE  BatchInv'
<1>0. batch' = [batch EXCEPT ![a] = b] /\ accepted' = accepted /\ Tasks(b) \cap Given = {}
  BY Zenon DEF Add
<1>1. b \in Seq(Values) /\ \A m, n \in 1..Len(b) : b[m] = b[n] => m = n
  BY PoolAssumption, Zenon
<1>2. batch'[a] = b /\ \A c \in Adders \ {a} : batch'[c] = batch[c]
  BY <1>0, Zenon DEF BatchInv
<1>3. batch' \in [Adders -> Seq(Values)]
  BY <1>0, <1>1, Zenon DEF BatchInv
<1>4. ASSUME NEW v, NEW m \in 1..Len(b), v = b[m]
      PROVE  v \notin accepted /\ \A c \in Adders, n \in Nat : ~Waits(c, n, v)
  <2>1. v \notin Given
    BY <1>0, <1>4, Zenon DEF Tasks
  <2>2. ASSUME NEW c \in Adders, NEW n \in Nat, Waits(c, n, v)  PROVE v \in Given
    <3>1. v \in Tasks(batch[c])
      BY <2>2, Zenon DEF Tasks, Waits
    <3> QED  BY <3>1, Zenon DEF Given
  <2>3. accepted \subseteq Given
    BY Zenon DEF Given
  <2> QED  BY <2>1, <2>2, <2>3, Zenon
<1>5. ASSUME NEW c \in Adders, NEW m \in Nat, NEW v
      PROVE  Waits(c, m, v)' <=> IF c = a THEN m \in 1..Len(b) /\ b[m] = v ELSE Waits(c, m, v)
  BY <1>2, Zenon DEF Waits
<1>6. ASSUME NEW v \in Values, NEW c \in Adders, NEW e \in Adders, NEW m \in Nat, NEW n \in Nat,
             Waits(c, m, v)', Waits(e, n, v)'
      PROVE  c = e /\ m = n
  <2>1. CASE c # a /\ e # a
    BY <1>5, <1>6, <2>1, Zenon DEF BatchInv
  <2>2. CASE c = a /\ e # a
    BY <1>4, <1>5, <1>6, <2>2, Zenon
  <2>3. CASE c # a /\ e = a
    BY <1>4, <1>5, <1>6, <2>3, Zenon
  <2>4. CASE c = a /\ e = a
    BY <1>1, <1>5, <1>6, <2>4, ZenonT(60)
  <2> QED  BY <2>1, <2>2, <2>3, <2>4, Zenon
<1>7. ASSUME NEW v \in accepted', NEW c \in Adders, NEW m \in Nat, Waits(c, m, v)'  PROVE FALSE
  <2>1. CASE c = a
    BY <1>0, <1>4, <1>5, <1>7, <2>1, ZenonT(60)
  <2>2. CASE c # a
    BY <1>0, <1>5, <1>7, <2>2, ZenonT(60) DEF BatchInv
  <2> QED  BY <2>1, <2>2, Zenon
<1> QED  BY <1>3, <1>6, <1>7, Zenon DEF BatchInv

\* Steps that leave the batches alone.
LEMMA BatchKept ==
  ASSUME BatchInv, UNCHANGED <<batch, accepted>>
  PROVE  BatchInv'
<1>1. \A v, a, m : Waits(a, m, v)' <=> Waits(a, m, v)
  BY Zenon DEF Waits
<1> QED  BY <1>1, Zenon DEF BatchInv

\* The head of a batch: a new task, and the rest does not have it.
LEMMA BatchHead ==
  ASSUME BatchInv, NEW a \in Adders, batch[a] # <<>>
  PROVE  /\ Head(batch[a]) \in Values /\ Head(batch[a]) \notin accepted
         /\ Waits(a, 1, Head(batch[a]))
         /\ Tail(batch[a]) \in Seq(Values)
         /\ \A m \in 1..Len(Tail(batch[a])) : /\ m + 1 \in 1..Len(batch[a]) /\ m + 1 # 1
                                              /\ Tail(batch[a])[m] = batch[a][m + 1]
<1>1. batch[a] \in Seq(Values)
  BY Zenon DEF BatchInv
<1>2. /\ 1 \in 1..Len(batch[a]) /\ Head(batch[a]) = batch[a][1] /\ Head(batch[a]) \in Values
      /\ Tail(batch[a]) \in Seq(Values)
      /\ \A m \in 1..Len(Tail(batch[a])) : /\ m + 1 \in 1..Len(batch[a]) /\ m + 1 # 1
                                           /\ Tail(batch[a])[m] = batch[a][m + 1]
  BY <1>1, SMTT(30)
<1>3. 1 \in Nat /\ Waits(a, 1, Head(batch[a]))
  BY <1>2 DEF Waits
<1>4. Head(batch[a]) \notin accepted
  BY <1>3, Zenon DEF BatchInv
<1> QED  BY <1>2, <1>3, <1>4, ZenonT(60)

\* The head of a batch is accepted, the tail is left.
LEMMA BatchTaken ==
  ASSUME BatchInv, NEW a \in Adders, batch[a] # <<>>
  PROVE  accepted' = accepted \cup {Head(batch[a])} /\ batch' = [batch EXCEPT ![a] = Tail(@)] => BatchInv'
<1>0. SUFFICES ASSUME accepted' = accepted \cup {Head(batch[a])}, batch' = [batch EXCEPT ![a] = Tail(@)]
               PROVE  BatchInv'
  OBVIOUS
<1>1. /\ Head(batch[a]) \in Values
      /\ Waits(a, 1, Head(batch[a]))
      /\ Tail(batch[a]) \in Seq(Values)
      /\ \A m \in 1..Len(Tail(batch[a])) : /\ m + 1 \in 1..Len(batch[a]) /\ m + 1 # 1
                                           /\ Tail(batch[a])[m] = batch[a][m + 1]
  BY BatchHead, Zenon
<1>2. PICK v \in Values : v = Head(batch[a])
  BY <1>1, Zenon
<1>3. PICK b \in Seq(Values) : b = Tail(batch[a])
  BY <1>1, Zenon
<1>4. /\ batch' = [batch EXCEPT ![a] = b] /\ accepted' = accepted \cup {v} /\ Waits(a, 1, v)
      /\ \A m \in 1..Len(b) : m + 1 \in 1..Len(batch[a]) /\ m + 1 # 1 /\ b[m] = batch[a][m + 1]
  BY <1>0, <1>1, <1>2, <1>3, ZenonT(60)
<1>5. ASSUME NEW c \in Adders, NEW m \in Nat, Waits(c, m, v)'  PROVE FALSE
  <2>0. 1 \in Nat /\ m + 1 \in Nat
    OBVIOUS
  <2>1. batch'[a] = b /\ \A e \in Adders \ {a} : batch'[e] = batch[e]
    BY <1>4, Zenon DEF BatchInv
  <2>2. m \in 1..Len(batch'[c]) /\ batch'[c][m] = v
    BY <1>5, Zenon DEF Waits
  <2>3. CASE c = a
    <3>1. m \in 1..Len(b) /\ b[m] = v
      BY <2>1, <2>2, <2>3, ZenonT(60)
    <3>2. Waits(a, m + 1, v) /\ m + 1 # 1
      BY <1>4, <3>1, Zenon DEF Waits
    <3> QED  BY <1>4, <2>0, <3>2, Zenon DEF BatchInv
  <2>4. CASE c # a
    <3>1. Waits(c, m, v)
      BY <2>1, <2>2, <2>4, Zenon DEF Waits
    <3> QED  BY <1>4, <2>0, <2>4, <3>1, ZenonT(60) DEF BatchInv
  <2> QED  BY <2>3, <2>4, Zenon
<1>6. PICK S : S = {v}
  BY Zenon
<1>7. accepted' = accepted \cup S /\ \A x \in S, c \in Adders, m \in Nat : ~Waits(c, m, x)'
  BY <1>4, <1>5, <1>6, ZenonT(60)
<1>8. PICK d \in {0, 1} : d = 1
  BY Zenon
<1>9. \A m \in 1..Len(b) : m + d \in 1..Len(batch[a]) /\ b[m] = batch[a][m + d]
  BY <1>4, <1>8, Zenon
<1> QED  BY <1>4, <1>7, <1>9, BatchShrinks, ZenonT(60)

\* The rest of a batch is given up.
LEMMA BatchGivenUp ==
  ASSUME BatchInv, NEW a \in Adders, accepted' = accepted, batch' = [batch EXCEPT ![a] = <<>>]
  PROVE  BatchInv'
<1>1. <<>> \in Seq(Values) /\ \A m \in 1..Len(<<>>) : FALSE
  OBVIOUS
<1>2. accepted' = accepted \cup {}
  BY Zenon
<1> QED  BY <1>1, <1>2, BatchShrinks, ZenonT(60)

-----------------------------------------------------------------------------
(***************************************************************************)
(* The steps.                                                              *)
(***************************************************************************)
\* A queue that was freed is empty, and what is left of its fields is well-formed.
LEMMA Uninit ==
  ASSUME QueueInv, threadboundedqueue_uninit
  PROVE  QueueInv' /\ LenInv' /\ \A i \in Slots : \A x : ~Holds(i, x)'
<1>1. /\ count' = 0 /\ head' = 0 /\ tail' = 0 /\ nodes' = [i \in Slots |-> EmptyNode]
      /\ UNCHANGED <<is_run, call, pushed, refused, got>>
  BY Zenon DEF threadboundedqueue_uninit
<1>2. \A i \in Slots : nodes'[i].len = 0 /\ ~(nodes'[i].len > 0)
  BY <1>1 DEF EmptyNode
<1>3. nodes' \in [Slots -> threadboundedqueue_node_t]
  BY <1>1 DEF EmptyNode, threadboundedqueue_node_t
<1>4. count' \in 0..Capacity /\ head' \in Slots /\ tail' \in Slots /\ head' = (tail' + count') % Capacity
  BY <1>1, QueueAssumption DEF Slots
<1>5. \A i \in Slots : ~InRing(0, 0, i)
  BY DEF InRing
<1>6. RingInv'
  BY <1>1, <1>2, <1>3, <1>4, <1>5, Zenon DEF QueueInv, RingInv
<1>7. QueueInv'
  BY <1>1, <1>6, Zenon DEF QueueInv, ArgInv
<1> QED  BY <1>2, <1>7, Zenon DEF LenInv, Holds

\* Every step of the pool is a step of its queue, or none, or frees it, or ends the
\* call of a worker whose queue was freed.
LEMMA PoolIsQueueStep ==
  ASSUME QueueInv, BatchInv, [PoolNext]_poolVars
  PROVE  \/ [Next]_vars
         \/ \E w \in Workers : Astray(w)
         \/ QueueFreed' /\ threadboundedqueue_uninit
<1>0. Workers \subseteq Threads /\ Adders \subseteq Threads
  BY Sizes, Zenon
<1>1. UNCHANGED queue => UNCHANGED vars
  BY Zenon DEF vars, queue, ring
<1>2. ASSUME NEW w \in Workers, Work(w) \/ Stir(w)  PROVE [Next]_vars
  <2>1. w \in Threads
    BY <1>0, Zenon
  <2>2. \/ UNCHANGED queue
        \/ Enter(w, "pop", None) \/ threadboundedqueue_pop_block(w) \/ SpuriousWakeup(w)
    BY <1>2, Zenon DEF Work, Test, Pop, Run, Stir
  <2> QED  BY <1>1, <2>1, <2>2, Zenon DEF Next, Begin, Continue
<1>3. ASSUME NEW a \in Adders, Push(a)  PROVE [Next]_vars
  <2>1. a \in Threads
    BY <1>0, Zenon
  <2>2. batch[a] # <<>> /\ (threadboundedqueue_push_nonblock(a, Head(batch[a])) \/ UNCHANGED queue)
    BY <1>3, Zenon DEF Push
  <2>3. Head(batch[a]) \in Values
    BY <2>2, BatchHead, Zenon
  <2> QED  BY <1>1, <2>1, <2>2, <2>3, ZenonT(60) DEF Next, Begin
<1>4. ASSUME StopTasks  PROVE [Next]_vars
  BY <1>4, Zenon DEF StopTasks, Next
<1>5. ASSUME \/ \E w \in Workers : Spawn(w)
             \/ \E a \in Adders : PushFreed(a) \/ \E b \in Batches : Add(a, b)
             \/ Created \/ Unwind \/ Unwound \/ ClearFlag
      PROVE  UNCHANGED queue
  BY <1>5, Zenon DEF Spawn, PushFreed, Add, Created, Unwind, Unwound, ClearFlag
<1>6. ASSUME CreateFails \/ JoinAndFree  PROVE QueueFreed' /\ threadboundedqueue_uninit
  BY <1>6, Zenon DEF CreateFails, JoinAndFree, QueueFreed
<1> QED  BY <1>1, <1>2, <1>3, <1>4, <1>5, <1>6, ZenonT(60) DEF PoolNext, poolVars, Destroy

\* Every step of the pool keeps the invariant of its queue.
LEMMA PoolQueueStep == QueueInv /\ BatchInv /\ [PoolNext]_poolVars => QueueInv'
<1> SUFFICES ASSUME QueueInv, BatchInv, [PoolNext]_poolVars  PROVE QueueInv'
  OBVIOUS
<1>1. CASE [Next]_vars
  BY <1>1, QueueStep, Zenon
<1>2. ASSUME NEW w \in Workers, Astray(w)  PROVE QueueInv'
  <2>1. w \in Threads /\ NoCall \in CallType /\ NoCall.op = "none"
    BY Sizes, Zenon DEF NoCall, CallType
  <2>2. call' = [call EXCEPT ![w] = NoCall] /\ UNCHANGED <<is_run, ring, got>>
    BY <1>2, Zenon DEF Astray, Finished
  <2> QED  BY <2>1, <2>2, CallMoves, Zenon
<1>3. CASE threadboundedqueue_uninit
  BY <1>3, Uninit, Zenon
<1> QED  BY <1>1, <1>2, <1>3, PoolIsQueueStep, ZenonT(60)

\* A pop with a message ends the worker's call.
LEMMA PopReturns ==
  ASSUME QueueInv, NEW w \in Workers, call' \in Signalled(Finished(w), "push"), call[w].op = "pop"
  PROVE  call'[w] = NoCall
<1>0. w \in Threads
  BY Sizes, Zenon
<1>1. Finished(w)[w] = NoCall /\ Finished(w) \in [Threads -> CallType]
  BY <1>0, FinishedCalls, Zenon
<1>2. CASE call' = Finished(w)
  BY <1>1, <1>2, Zenon
<1>3. CASE \E t \in Sleepers("push") : call' = [Finished(w) EXCEPT ![t] = Awake(@)]
  <2>1. PICK t \in Sleepers("push") : call' = [Finished(w) EXCEPT ![t] = Awake(@)]
    BY <1>3, Zenon
  <2>2. t \in Threads /\ call[t].op = "push"
    BY Zenon DEF Sleepers
  <2>3. t # w
    BY <2>2, Zenon
  <2> QED  BY <1>0, <1>1, <2>1, <2>2, <2>3, ZenonT(60)
<1> QED  BY <1>2, <1>3, Zenon DEF Signalled

\* A worker's pop takes nothing, or takes a message and is the worker's to run.
LEMMA PopEffect ==
  ASSUME QueueInv, LenInv, NEW w \in Workers, Pop(w)
  PROVE  \/ /\ UNCHANGED <<nodes, doing>>
            /\ worker' = worker \/ worker' = [worker EXCEPT ![w] = "done"]
         \/ /\ is_run /\ ~Empty /\ pop(w, Finished(w))
            /\ worker' = [worker EXCEPT ![w] = "run"] /\ doing' = [doing EXCEPT ![w] = got']
<1>0. w \in Threads /\ call \in [Threads -> CallType]
  BY Sizes, Zenon DEF QueueInv
<1>1. CASE is_run /\ Empty /\ Sleep(w)
  <2>1. call'[w].asleep = TRUE /\ NoCall.asleep = FALSE
    BY <1>0, <1>1, CallParts, Zenon DEF Sleep, NoCall
  <2>2. call'[w] # NoCall
    BY <2>1
  <2> QED  BY <1>1, <2>2, Zenon DEF Pop, Sleep, ring
<1>2. CASE Stopped(w)
  BY <1>2, Zenon DEF Pop, Stopped, ring
<1>3. CASE is_run /\ ~Empty /\ pop(w, Finished(w))
  <2>1. call' \in Signalled(Finished(w), "push")
    BY <1>3, PopPlaces, Zenon
  <2>2. call[w].op = "pop"
    BY Zenon DEF Pop, threadboundedqueue_pop_block
  <2>3. call'[w] = NoCall
    BY <2>1, <2>2, PopReturns, Zenon
  <2> QED  BY <1>3, <2>3, Zenon DEF Pop
<1> QED  BY <1>1, <1>2, <1>3, Zenon DEF Pop, threadboundedqueue_pop_block

\* The worker after a step of its own that gives it no task.
LEMMA WorkerMoves ==
  ASSUME WorkerInv, NEW w \in Workers, NEW pc \in {"none", "test", "pop", "done"}, doing[w] = None,
         worker' = [worker EXCEPT ![w] = pc], doing' = doing
  PROVE  WorkerInv'
<1>1. pc # "run"
  OBVIOUS
<1>2. worker'[w] = pc /\ \A u \in Workers \ {w} : worker'[u] = worker[u]
  BY Zenon DEF WorkerInv
<1>3. worker' \in [Workers -> {"none", "test", "pop", "run", "done"}]
  BY Zenon DEF WorkerInv
<1>4. \A u \in Workers : worker'[u] = "run" <=> doing'[u] # None
  BY <1>1, <1>2, Zenon DEF WorkerInv
<1> QED  BY <1>3, <1>4, Zenon DEF WorkerInv

\* A worker that is not at "run" has no task.
LEMMA Idle ==
  ASSUME WorkerInv, NEW w \in Workers, worker[w] \in {"none", "test", "pop", "done"}
  PROVE  doing[w] = None
<1>1. worker[w] # "run"
  OBVIOUS
<1> QED  BY <1>1, Zenon DEF WorkerInv

TasksInv == LenInv /\ WorkerInv /\ BatchInv /\ PlaceInv

\* Steps that touch neither the nodes nor a task, and move at most an idle worker.
LEMMA TasksKept ==
  ASSUME TasksInv, QueueFreed => QueueFreed', UNCHANGED <<nodes, doing, batch, accepted, ran>>,
         \/ worker' = worker
         \/ \E w \in Workers : /\ worker[w] \in {"none", "test", "pop", "done"}
                               /\ \E pc \in {"none", "test", "pop", "done"} :
                                     worker' = [worker EXCEPT ![w] = pc]
  PROVE  TasksInv'
<1>1. LenInv' /\ PlaceInv'
  BY PlaceKept, Zenon DEF TasksInv
<1>2. BatchInv'
  BY BatchKept, Zenon DEF TasksInv
<1>3. WorkerInv'
  <2>1. CASE worker' = worker
    BY <2>1, Zenon DEF TasksInv, WorkerInv
  <2>2. CASE worker' # worker
    BY <2>2, Idle, WorkerMoves, Zenon DEF TasksInv
  <2> QED  BY <2>1, <2>2, Zenon
<1> QED  BY <1>1, <1>2, <1>3, Zenon DEF TasksInv

\* A worker takes a task from the queue.
LEMMA TasksPop ==
  ASSUME QueueInv, TasksInv, NEW w \in Workers, Pop(w)
  PROVE  TasksInv'
<1>0. worker[w] = "pop" /\ UNCHANGED <<batch, accepted, ran>> /\ (QueueFreed => QueueFreed')
  BY Zenon DEF Pop, QueueFreed
<1>1. CASE /\ UNCHANGED <<nodes, doing>>
           /\ worker' = worker \/ worker' = [worker EXCEPT ![w] = "done"]
  BY <1>0, <1>1, TasksKept, Zenon
<1>2. CASE /\ ~Empty /\ pop(w, Finished(w))
           /\ worker' = [worker EXCEPT ![w] = "run"] /\ doing' = [doing EXCEPT ![w] = got']
  <2>1. /\ LenInv'
        /\ tail \in Slots /\ got' \in Values /\ Holds(tail, got')
        /\ \A i \in Slots : \A x : Holds(i, x)' <=> i # tail /\ Holds(i, x)
    BY <1>2, PopPlaces, Zenon DEF TasksInv
  <2>2. doing[w] = None /\ doing \in [Workers -> Values \cup {None}]
    BY <1>0, Idle, Zenon DEF TasksInv, WorkerInv
  <2>3. PICK v \in Values : v = got'
    BY <2>1, Zenon
  <2>4. PICK h \in Slots : h = tail
    BY <2>1, Zenon
  <2>5. PlaceInv'
    <3>1. Holds(h, v) /\ \A i \in Slots : \A x : Holds(i, x)' <=> i # h /\ Holds(i, x)
      BY <2>1, <2>3, <2>4, Zenon
    <3>2. doing' = [doing EXCEPT ![w] = v]
      BY <1>2, <2>3, Zenon
    <3> QED  BY <1>0, <2>2, <3>1, <3>2, PlacePopped, Zenon DEF TasksInv
  <2>6. WorkerInv'
    <3>1. worker'[w] = "run" /\ doing'[w] = v /\ v # None
          /\ \A u \in Workers \ {w} : worker'[u] = worker[u] /\ doing'[u] = doing[u]
      BY <1>2, <2>3, Sizes, Zenon DEF TasksInv, WorkerInv
    <3>2. /\ worker' \in [Workers -> {"none", "test", "pop", "run", "done"}]
          /\ doing' \in [Workers -> Values \cup {None}]
      BY <1>2, <2>1, Zenon DEF TasksInv, WorkerInv
    <3>3. \A u \in Workers : worker'[u] = "run" <=> doing'[u] # None
      BY <3>1, Zenon DEF TasksInv, WorkerInv
    <3> QED  BY <3>2, <3>3, Zenon DEF WorkerInv
  <2>7. BatchInv'
    BY <1>0, BatchKept, Zenon DEF TasksInv
  <2> QED  BY <2>1, <2>5, <2>6, <2>7, Zenon DEF TasksInv
<1> QED  BY <1>1, <1>2, PopEffect, Zenon DEF TasksInv

\* A worker has run its task.
LEMMA TasksRun ==
  ASSUME TasksInv, NEW w \in Workers, Run(w)
  PROVE  TasksInv'
<1>0. /\ worker[w] = "run" /\ ran' = ran \cup {doing[w]} /\ doing' = [doing EXCEPT ![w] = None]
      /\ worker' = [worker EXCEPT ![w] = "test"] /\ UNCHANGED <<batch, accepted>> /\ nodes' = nodes
      /\ QueueFreed => QueueFreed'
  BY Zenon DEF Run, queue, ring, QueueFreed
<1>1. doing \in [Workers -> Values \cup {None}] /\ doing[w] \in Values
  BY <1>0, Zenon DEF TasksInv, WorkerInv
<1>2. PlaceInv'
  BY <1>0, <1>1, PlaceRun, Zenon DEF TasksInv
<1>3. LenInv'
  BY <1>0, Zenon DEF TasksInv, LenInv, Holds
<1>4. BatchInv'
  BY <1>0, BatchKept, Zenon DEF TasksInv
<1>5. WorkerInv'
  <2>1. worker'[w] = "test" /\ doing'[w] = None
        /\ \A u \in Workers \ {w} : worker'[u] = worker[u] /\ doing'[u] = doing[u]
    BY <1>0, Zenon DEF TasksInv, WorkerInv
  <2>2. /\ worker' \in [Workers -> {"none", "test", "pop", "run", "done"}]
        /\ doing' \in [Workers -> Values \cup {None}]
    BY <1>0, Zenon DEF TasksInv, WorkerInv
  <2>3. "test" # "run"
    OBVIOUS
  <2>4. \A u \in Workers : worker'[u] = "run" <=> doing'[u] # None
    BY <2>1, <2>3, Zenon DEF TasksInv, WorkerInv
  <2> QED  BY <2>2, <2>4, Zenon DEF WorkerInv
<1> QED  BY <1>2, <1>3, <1>4, <1>5, Zenon DEF TasksInv

\* An adder pushes the head of its batch, or gives the rest up.
LEMMA TasksPush ==
  ASSUME QueueInv, TasksInv, NEW a \in Adders, Push(a)
  PROVE  TasksInv'
<1>0. batch[a] # <<>> /\ UNCHANGED <<worker, doing, ran>> /\ (QueueFreed => QueueFreed')
  BY Zenon DEF Push, QueueFreed
<1>1. WorkerInv'
  BY <1>0, Zenon DEF TasksInv, WorkerInv
<1>2. CASE batch' = [batch EXCEPT ![a] = <<>>] /\ UNCHANGED <<queue, accepted>>
  <2>1. LenInv' /\ PlaceInv'
    BY <1>0, <1>2, PlaceKept, Zenon DEF TasksInv, queue, ring
  <2>2. BatchInv'
    BY <1>2, BatchGivenUp, Zenon DEF TasksInv
  <2> QED  BY <1>1, <2>1, <2>2, Zenon DEF TasksInv
<1>3. CASE /\ threadboundedqueue_push_nonblock(a, Head(batch[a]))
           /\ accepted' = accepted \cup {Head(batch[a])}
           /\ batch' = [batch EXCEPT ![a] = Tail(@)]
  <2>1. Head(batch[a]) \in Values /\ Head(batch[a]) \notin accepted
    BY <1>0, BatchHead, Zenon DEF TasksInv
  <2>2. PICK v \in Values : v = Head(batch[a])
    BY <2>1, Zenon
  <2>4. ~Full /\ push(v, call)
    BY <1>3, <2>2, Zenon DEF threadboundedqueue_push_nonblock
  <2>5. /\ LenInv'
        /\ head \in Slots
        /\ \A x : ~Holds(head, x)
        /\ \A i \in Slots : \A x : Holds(i, x)' <=> IF i = head THEN x = v ELSE Holds(i, x)
    BY <2>4, PushPlaces, Zenon DEF TasksInv
  <2>6. PICK h \in Slots : h = head
    BY <2>5, Zenon
  <2>7. PlaceInv'
    <3>1. /\ \A x : ~Holds(h, x)
          /\ \A i \in Slots : \A x : Holds(i, x)' <=> IF i = h THEN x = v ELSE Holds(i, x)
      BY <2>5, <2>6, Zenon
    <3>2. v \notin accepted /\ accepted' = accepted \cup {v}
      BY <1>3, <2>1, <2>2, Zenon
    <3> QED  BY <1>0, <3>1, <3>2, PlacePushed, ZenonT(60) DEF TasksInv
  <2>8. BatchInv'
    BY <1>0, <1>3, BatchTaken, Zenon DEF TasksInv
  <2> QED  BY <1>1, <2>5, <2>7, <2>8, Zenon DEF TasksInv
<1> QED  BY <1>2, <1>3, Zenon DEF Push

\* An adder pushes into a queue that was freed: no task is anywhere afterwards that
\* was not before.
LEMMA TasksPushFreed ==
  ASSUME TasksInv, NEW a \in Adders, PushFreed(a)
  PROVE  TasksInv'
<1>0. batch[a] # <<>> /\ QueueFreed /\ QueueFreed' /\ UNCHANGED <<nodes, worker, doing, ran>>
  BY Zenon DEF PushFreed, QueueFreed, queue, ring
<1>1. WorkerInv' /\ LenInv'
  BY <1>0, Zenon DEF TasksInv, WorkerInv, LenInv, Holds
<1>2. CASE batch' = [batch EXCEPT ![a] = <<>>] /\ UNCHANGED accepted
  BY <1>0, <1>1, <1>2, PlaceKept, BatchGivenUp, Zenon DEF TasksInv
<1>3. CASE /\ accepted' = accepted \cup {Head(batch[a])}
           /\ batch' = [batch EXCEPT ![a] = Tail(@)]
  <2>1. Head(batch[a]) \in Values
    BY <1>0, BatchHead, Zenon DEF TasksInv
  <2>2. BatchInv'
    BY <1>0, <1>3, BatchTaken, Zenon DEF TasksInv
  <2>3. \A i \in Slots : \A x : Holds(i, x)' <=> Holds(i, x)
    BY <1>0, Zenon DEF Holds
  <2>4. \A x : (OneHolder(x)' <=> OneHolder(x)) /\ (Somewhere(x)' <=> Somewhere(x))
    BY <1>0, <2>3, Zenon DEF OneHolder, Somewhere
  <2>5. PlaceInv'
    BY <1>0, <1>3, <2>1, <2>4, Zenon DEF TasksInv, PlaceInv, Placed
  <2> QED  BY <1>1, <2>2, <2>5, Zenon DEF TasksInv
<1> QED  BY <1>2, <1>3, Zenon DEF PushFreed

\* The queue is freed, with the tasks in it.
LEMMA TasksFreed ==
  ASSUME QueueInv, TasksInv, threadboundedqueue_uninit, QueueFreed',
         UNCHANGED <<worker, doing, batch, accepted, ran>>
  PROVE  TasksInv'
<1>1. LenInv' /\ \A i \in Slots : \A x : ~Holds(i, x)'
  BY Uninit, Zenon
<1>2. \A x : (OneHolder(x) => OneHolder(x)') /\ (Somewhere(x)' => Somewhere(x))
  BY <1>1, Zenon DEF OneHolder, Somewhere
<1>3. PlaceInv'
  BY <1>2, Zenon DEF TasksInv, PlaceInv, Placed
<1>4. BatchInv'
  BY BatchKept, Zenon DEF TasksInv
<1>5. WorkerInv'
  BY Zenon DEF TasksInv, WorkerInv
<1> QED  BY <1>1, <1>3, <1>4, <1>5, Zenon DEF TasksInv

\* An adder is given a batch.
LEMMA TasksAdd ==
  ASSUME TasksInv, NEW a \in Adders, NEW b \in Batches, Add(a, b)
  PROVE  TasksInv'
<1>0. UNCHANGED <<nodes, worker, doing, accepted, ran>> /\ (QueueFreed => QueueFreed')
  BY Zenon DEF Add, queue, ring, QueueFreed
<1>1. LenInv' /\ PlaceInv'
  BY <1>0, PlaceKept, Zenon DEF TasksInv
<1>2. WorkerInv'
  BY <1>0, Zenon DEF TasksInv, WorkerInv
<1>3. BatchInv'
  BY BatchAdded, Zenon DEF TasksInv
<1> QED  BY <1>1, <1>2, <1>3, Zenon DEF TasksInv

\* Every step keeps the invariant.
LEMMA PoolStep == PoolInv /\ [PoolNext]_poolVars => PoolInv'
<1> SUFFICES ASSUME PoolInv, [PoolNext]_poolVars  PROVE PoolInv'
  OBVIOUS
<1>0. QueueInv /\ TasksInv /\ BatchInv
  BY Zenon DEF PoolInv, TasksInv
<1>1. QueueInv'
  BY <1>0, PoolQueueStep, Zenon
<1>2. /\ run' \in BOOLEAN
      /\ owner' \in {"creating", "live", "failed", "unwinding", "none", "stopped", "joining", "gone"}
  BY ZenonT(30) DEF PoolInv, PoolNext, poolVars, pool, Spawn, Work, Test, Pop, Run, Stir, Astray, Push,
     PushFreed, Add, Created, CreateFails, Unwind, Unwound, StopTasks, Destroy, ClearFlag, JoinAndFree
<1>3. TasksInv'
  <2>1. ASSUME NEW w \in Workers, Spawn(w) \/ Test(w) \/ Stir(w) \/ Astray(w)  PROVE TasksInv'
    <3>1. UNCHANGED <<nodes, doing, batch, accepted, ran>> /\ (QueueFreed => QueueFreed')
      BY <2>1, Zenon DEF Spawn, Test, Stir, Astray, Enter, SpuriousWakeup, queue, ring, pool, QueueFreed
    <3>2. \/ worker' = worker
          \/ /\ worker[w] \in {"none", "test", "pop", "done"}
             /\ \E pc \in {"none", "test", "pop", "done"} : worker' = [worker EXCEPT ![w] = pc]
      BY <2>1, Zenon DEF Spawn, Test, Stir, Astray, pool
    <3> QED  BY <1>0, <3>1, <3>2, TasksKept, ZenonT(60)
  <2>2. ASSUME NEW w \in Workers, Pop(w) \/ Run(w)  PROVE TasksInv'
    BY <1>0, <2>2, TasksPop, TasksRun, ZenonT(60)
  <2>3. ASSUME NEW a \in Adders, Push(a) \/ PushFreed(a) \/ \E b \in Batches : Add(a, b)
        PROVE  TasksInv'
    BY <1>0, <2>3, TasksPush, TasksPushFreed, TasksAdd, ZenonT(60)
  <2>4. ASSUME Created \/ Unwind \/ Unwound \/ StopTasks \/ ClearFlag \/ UNCHANGED poolVars
        PROVE  TasksInv'
    <3>1. UNCHANGED <<nodes, doing, batch, accepted, ran>> /\ worker' = worker
      BY <2>4, Zenon DEF Created, Unwind, Unwound, StopTasks, ClearFlag,
         threadboundedqueue_stop, queue, ring, pool, poolVars, vars
    <3>2. owner' = owner \/ (owner \in {"failed", "unwinding"} /\ owner' \in {"unwinding", "none"})
          \/ owner \in {"creating", "live", "stopped"}
      BY <2>4, Zenon DEF Created, Unwind, Unwound, StopTasks, ClearFlag, pool, poolVars
    <3>3. QueueFreed => QueueFreed'
      BY <3>2 DEF QueueFreed
    <3> QED  BY <1>0, <3>1, <3>3, TasksKept, ZenonT(60)
  <2>5. ASSUME CreateFails \/ JoinAndFree  PROVE TasksInv'
    <3>1. threadboundedqueue_uninit /\ UNCHANGED <<worker, doing, batch, accepted, ran>> /\ QueueFreed'
      BY <2>5, Zenon DEF CreateFails, JoinAndFree, QueueFreed
    <3> QED  BY <1>0, <3>1, TasksFreed, Zenon
  <2> QED  BY <2>1, <2>2, <2>3, <2>4, <2>5, Zenon DEF PoolNext, Work, Destroy
<1> QED  BY <1>1, <1>2, <1>3, Zenon DEF PoolInv, TasksInv

\* The initial state satisfies it.
LEMMA InitPool == PoolInit => PoolInv
<1> SUFFICES ASSUME PoolInit  PROVE PoolInv
  OBVIOUS
<1>1. QueueInv
  BY InitQueue, Zenon DEF PoolInit
<1>2. \A i \in Slots : ~(nodes[i].len > 0)
  BY DEF PoolInit, Init, EmptyNode
<1>3. LenInv /\ \A i \in Slots : \A x : ~Holds(i, x)
  BY <1>2, Zenon DEF LenInv, Holds
<1>4. "none" # "run"
  OBVIOUS
<1>5. WorkerInv /\ \A w \in Workers : doing[w] = None
  BY <1>4, Zenon DEF PoolInit, WorkerInv
<1>6. BatchInv
  <2>1. <<>> \in Seq(Values) /\ \A m \in Nat : m \notin 1..Len(<<>>)
    OBVIOUS
  <2>2. \A a \in Adders : batch[a] = <<>>
    BY Zenon DEF PoolInit
  <2>3. \A v : \A a \in Adders, m \in Nat : ~Waits(a, m, v)
    BY <2>1, <2>2, Zenon DEF Waits
  <2> QED  BY <2>1, <2>3, Zenon DEF PoolInit, BatchInv
<1>7. PlaceInv
  <2>1. \A v \in Values : OneHolder(v) /\ ~Somewhere(v)
    BY <1>3, <1>5, Sizes, Zenon DEF OneHolder, Somewhere
  <2> QED  BY <2>1, Zenon DEF PoolInit, PlaceInv, Placed
<1>8. run \in BOOLEAN /\ owner = "creating"
  BY Zenon DEF PoolInit
<1> QED  BY <1>1, <1>3, <1>5, <1>6, <1>7, <1>8, ZenonT(60) DEF PoolInv

\* PoolInv is an invariant.
LEMMA PoolAlways == PoolSpec => []PoolInv
  BY InitPool, PoolStep, PTL DEF PoolSpec

\* The types hold; the ring under the pool stays the ring of the bounded queue, a
\* worker has a task exactly while it runs it, and only accepted tasks are run.
THEOREM PoolTypeCorrect == PoolSpec => []PoolTypeOK
<1>1. PoolInv => PoolTypeOK
  <2> SUFFICES ASSUME PoolInv  PROVE PoolTypeOK
    OBVIOUS
  <2>1. TypeOK
    BY TypeOfQueue, Zenon DEF PoolInv
  <2>2. ASSUME NEW a \in Adders  PROVE Tasks(batch[a]) \subseteq Values
    <3>1. batch[a] \in Seq(Values)
      BY Zenon DEF PoolInv, BatchInv
    <3> QED  BY <3>1 DEF Tasks
  <2> QED  BY <2>1, <2>2, Zenon DEF PoolInv, WorkerInv, PlaceInv, PoolTypeOK
<1> QED  BY <1>1, PoolAlways, PTL

\* A set of which any two members are the same.
LEMMA AtMostOne ==
  ASSUME NEW S, \A x, y \in S : x = y
  PROVE  Cardinality(S) = IF S = {} THEN 0 ELSE 1
<1>1. CASE S = {}
  BY <1>1, FS_EmptySet, Zenon
<1>2. CASE S # {}
  <2>0. PICK x \in S : TRUE
    BY <1>2, Zenon
  <2>1. S = {x}
    BY <2>0, ZenonT(60)
  <2> QED  BY <1>2, <2>1, FS_Singleton, Zenon
<1> QED  BY <1>1, <1>2, Zenon

\* TaskInOnePlace holds of every behaviour: through batches cut short by a full
\* queue, races of workers for the mutex and calls that a stop overtakes, a task
\* that threadboundedqueue_push_nonblock took is in the ring or with one worker
\* until it has run or the pool is freed, and is not run again.
THEOREM TaskInOnePlaceThm == PoolSpec => []TaskInOnePlace
<1>1. PoolInv => TaskInOnePlace
  <2> SUFFICES ASSUME PoolInv, ~QueueFreed, NEW v \in accepted
               PROVE  Cardinality(Queued(v)) + Cardinality(HeldBy(v)) = IF v \in ran THEN 0 ELSE 1
    BY Zenon DEF TaskInOnePlace
  <2>1. v \in Values /\ OneHolder(v) /\ (Somewhere(v) <=> v \notin ran)
    BY Zenon DEF PoolInv, PlaceInv, Placed
  <2>2. \A i : i \in Queued(v) <=> i \in Slots /\ Holds(i, v)
    BY Zenon DEF Queued, Holds
  <2>3. \A w : w \in HeldBy(v) <=> w \in Workers /\ doing[w] = v
    BY Zenon DEF HeldBy
  <2>4. Cardinality(Queued(v)) = IF Queued(v) = {} THEN 0 ELSE 1
    <3>1. \A i, j \in Queued(v) : i = j
      BY <2>1, <2>2, Zenon DEF OneHolder
    <3> QED  BY <3>1, AtMostOne, Zenon
  <2>5. Cardinality(HeldBy(v)) = IF HeldBy(v) = {} THEN 0 ELSE 1
    <3>1. ASSUME NEW w \in HeldBy(v), NEW u \in HeldBy(v)  PROVE w = u
      <4>1. w \in Workers /\ doing[w] = v /\ u \in Workers /\ doing[u] = v
        BY <2>3, <3>1, Zenon
      <4> QED  BY <2>1, <4>1, Zenon DEF OneHolder
    <3> QED  BY <3>1, AtMostOne, Zenon
  <2>6. ~(Queued(v) # {} /\ HeldBy(v) # {})
    <3> SUFFICES ASSUME NEW i \in Queued(v), NEW w \in HeldBy(v)  PROVE FALSE
      BY Zenon
    <3>1. i \in Slots /\ Holds(i, v) /\ w \in Workers /\ doing[w] = v
      BY <2>2, <2>3, Zenon
    <3> QED  BY <2>1, <3>1, Zenon DEF OneHolder
  <2>7. (Queued(v) = {} /\ HeldBy(v) = {}) <=> v \in ran
    BY <2>1, <2>2, <2>3, Zenon DEF Somewhere
  <2> QED  BY <2>4, <2>5, <2>6, <2>7, SMTT(30)
<1> QED  BY <1>1, PoolAlways, PTL

\* The queue of the pool is a bounded FIFO until it is freed: tasks are taken once, in
\* the order in which they were accepted, and none after fix_threadpool_destroy has
\* stopped the queue.
THEOREM PoolIsFifo == PoolSpec => Fifo!Init /\ [][QueueFreed' \/ Fifo!Next]_(Fifo!vars)
<1>1. PoolInit => Fifo!Init
  BY FifoInit, Zenon DEF PoolInit
<1>2. PoolInv /\ PoolInv' /\ [PoolNext]_poolVars => [QueueFreed' \/ Fifo!Next]_(Fifo!vars)
  <2> SUFFICES ASSUME PoolInv, PoolInv', [PoolNext]_poolVars
               PROVE  [QueueFreed' \/ Fifo!Next]_(Fifo!vars)
    OBVIOUS
  <2>1. QueueInv /\ QueueInv' /\ BatchInv
    BY Zenon DEF PoolInv
  <2>2. CASE [Next]_vars
    BY <2>1, <2>2, FifoStep, Zenon
  <2>3. ASSUME NEW w \in Workers, Astray(w)  PROVE UNCHANGED Fifo!vars
    BY <2>3, Zenon DEF Astray, ring, Fifo!vars
  <2> QED  BY <2>1, <2>2, <2>3, PoolIsQueueStep, Zenon
<1> QED  BY <1>1, <1>2, PoolAlways, PTL DEF PoolSpec
=============================================================================
