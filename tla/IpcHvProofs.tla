----------------------------- MODULE IpcHvProofs -----------------------------
(***************************************************************************)
(* Proofs about the calls of ipc_hv.  The inductive invariant has three    *)
(* parts: TypeOK; PoolInv, which says who has which context and what the   *)
(* pool's counter counts; and AnswerInv, which follows an answer from its  *)
(* connection to the buffer of the call that waits for it.                 *)
(***************************************************************************)
EXTENDS IpcHv, FiniteSetTheorems, TLAPS

Holders == {t \in Threads : mine[t] # None}

\* A thread has a context from its borrow to its return.
HolderInside ==
    \A t \in Threads : pc[t] \in {"idle", "borrow"} <=> mine[t] = None

\* Lent and listed contexts have been created.
CreatedAll ==
    /\ \A t \in Threads : mine[t] # None => mine[t] \in created
    /\ \A i \in 1..Len(head) : head[i] \in created

\* What the counter counts: it exceeds the length of the list by the contexts
\* created on demand, which are all the contexts less the first InitCount.
CountInv == ~lost => size + InitCount = 2 * Len(head) + Cardinality(Holders)

PoolInv == HolderInside /\ CreatedAll /\ ContextExclusive /\ CountInv /\ HeadIsLentToCrowd

\* A mutex is held by a loop only for the answer it is at, and by a thread only
\* if a call has timed out.
MutexInv ==
    /\ \A c \in Ctxs : mutex[c] \in Threads => timedOut
    /\ \A c \in Ctxs, l \in Loops : mutex[c] = l => at[l] # None /\ conn[at[l]].ctx = c

\* The numbers of the calls: each has one thread, and no connection before it is
\* connected.
IdInv ==
    /\ \A t \in Threads : id[t] <= calls
    /\ \A t \in Threads : pc[t] = "idle" <=> id[t] = 0
    /\ \A t, u \in Threads : id[t] = id[u] /\ id[t] # 0 => t = u
    /\ \A k \in Calls : k > calls => conn[k] = Closed
    /\ \A t \in Threads : pc[t] \in {"borrow", "connect"} => conn[id[t]] = Closed

\* The connection of a synchronous call has a context until it is closed.
WellFormed(r) ==
    /\ r.state # "closed" /\ r.kind = "SYNC_REQ" => r.ctx \in Ctxs
    /\ r.state = "closed" => r = Closed

\* A loop stands at the answer of a synchronous call that it serves.
LoopInv ==
    /\ \A l \in Loops : at[l] # None =>
          /\ conn[at[l]].state = "answered" /\ conn[at[l]].kind = "SYNC_REQ"
          /\ conn[at[l]].loop = l
    /\ \A k \in Calls : WellFormed(conn[k])

\* The context of a call points to the caller's buffer.
DataInv == \A t \in Threads : mine[t] # None => data[mine[t]] = t

Waits(t) == pc[t] \in {"lock", "wait"}

\* An open connection that was not left behind is that of a call that waits for it,
\* and the buffer a loop has found for its answer is that call's.
OwnerInv ==
    /\ \A k \in Calls : k \notin abandoned /\ conn[k].state # "closed" /\ conn[k].kind = "SYNC_REQ" =>
          \E t \in Threads : id[t] = k /\ mine[t] = conn[k].ctx /\ Waits(t)
    /\ \A l \in Loops : at[l] # None /\ at[l] \notin abandoned /\ mutex[conn[at[l]].ctx] = l =>
          target[l] \in Threads /\ id[target[l]] = at[l] /\ Waits(target[l])

\* The buffer of a call that has no connection yet has no answer but a late one.
LateInv ==
    /\ ForeignAnswerIsLate
    /\ \A t \in Threads : pc[t] \in {"idle", "borrow"} => buf[t] = 0 \/ buf[t] \in abandoned

\* What was written into the buffers, as long as nothing was left behind.
BufferInv ==
    /\ \A t \in Threads : pc[t] \in {"idle", "borrow"} => buf[t] = 0
    /\ \A t \in Threads : pc[t] # "return" => ret[t] = -1
    /\ \A t \in Threads : pc[t] = "connect" => result[mine[t]] = -1
    /\ \A t \in Threads : Waits(t) /\ result[mine[t]] = 0 => buf[t] = id[t]
    /\ \A t \in Threads : ret[t] = 0 => buf[t] = id[t]

AnswerInv == MutexInv /\ IdInv /\ LoopInv /\ DataInv /\ OwnerInv /\ LateInv
             /\ (abandoned = {} => BufferInv)

-----------------------------------------------------------------------------
(***************************************************************************)
(* Types.                                                                  *)
(***************************************************************************)
\* Calls are numbers, and None is nothing else.
LEMMA ConstantsType ==
    /\ InitCount \in Nat /\ MaxCalls \in Nat /\ Calls \subseteq Nat
    /\ None \notin Threads /\ None \notin Loops /\ None \notin Ctxs /\ None \notin Calls
<1>1. Cardinality(Ctxs) \in Nat
  BY IpcHvAssumption, FS_CardinalityType, Zenon
<1> QED
  BY <1>1, IpcHvAssumption DEF Calls

\* The connections the actions write are connections.
LEMMA ConnectionType ==
    /\ Closed \in Connection
    /\ \A kind \in {"NOTIFY", "ASYNC_REQ", "SYNC_REQ"}, c \in Ctxs \cup {None}, l \in Loops :
          Open(kind, c, l) \in Connection
    /\ \A r \in Connection, s \in {"connecting", "sent", "answered", "closed"} :
          WithState(r, s) \in Connection
BY Zenon DEF Closed, Open, WithState, Connection

\* The pool's list stays a sequence of contexts.
LEMMA HeadType ==
    ASSUME NEW h \in Seq(Ctxs), NEW c \in Ctxs
    PROVE  /\ <<c>> \o h \in Seq(Ctxs)
           /\ Len(<<c>> \o h) = Len(h) + 1
           /\ (<<c>> \o h)[1] = c
           /\ \A i \in 1..Len(h) : (<<c>> \o h)[i + 1] = h[i]
           /\ h # <<>> => /\ Head(h) = h[1] /\ Head(h) \in Ctxs /\ Tail(h) \in Seq(Ctxs)
                          /\ Len(h) > 0 /\ Len(Tail(h)) = Len(h) - 1
                          /\ \A i \in 1..Len(Tail(h)) : Tail(h)[i] = h[i + 1]
OBVIOUS

\* The first contexts are a list.
LEMMA InitType ==
    ASSUME Init
    PROVE  head \in Seq(Ctxs) /\ Len(head) = InitCount
<1>1. head \in [1..InitCount -> Ctxs]
  BY Zenon DEF Init
<1> QED
  BY <1>1, ConstantsType

IInv == TypeOK /\ PoolInv /\ AnswerInv

\* A step of the specification is one of its actions, before the head of the list
\* was lent.
LEMMA NextActions ==
    ASSUME Next
    PROVE  /\ ~lost
           /\ \/ \E t \in Threads : \/ Begin(t) \/ Borrow(t) \/ Connect(t) \/ Lock(t)
                                    \/ Wake(t) \/ TimeOut(t) \/ Return(t)
              \/ \E kind \in {"NOTIFY", "ASYNC_REQ"} : Send(kind)
              \/ \E l \in Loops : LockCtx(l) \/ Fill(l)
              \/ \E l \in Loops, k \in Calls :
                    \/ OnConnect(l, k) \/ OnClose(l, k)
                    \/ OnRecvAsyncRep(l, k) \/ OnRecvSyncRep(l, k)
              \/ \E k \in Calls : OnRecv(k)
BY Zenon DEF Next, Step, Loop

\* The context of the answer at which a loop stands is a context.
LEMMA AtCtx ==
    ASSUME TypeOK, LoopInv, NEW l \in Loops, at[l] # None
    PROVE  at[l] \in Calls /\ conn[at[l]].ctx \in Ctxs
<1>1. at[l] \in Calls
  BY Zenon DEF TypeOK
<1>2. conn[at[l]].state = "answered" /\ conn[at[l]].kind = "SYNC_REQ"
  BY Zenon DEF LoopInv
<1> QED
  BY <1>1, <1>2, Zenon DEF LoopInv, WellFormed

\* How syncctxpool_borrow ends: with the first context of the list, with the head
\* of the empty list, with a new context, or without one.
LEMMA BorrowCases ==
    ASSUME TypeOK, NEW t \in Threads, Borrow(t)
    PROVE  \/ /\ head # <<>> /\ size > 0
              /\ Head(head) \in Ctxs /\ Lend(t, Head(head))
              /\ head' = Tail(head) /\ head' \in Seq(Ctxs)
              /\ size' = size - 1 /\ size' \in Nat
              /\ created' = created /\ lost' = lost
           \/ /\ head = <<>> /\ size > 0 /\ lost' = TRUE
              /\ size' = size - 1 /\ size' \in Nat
              /\ UNCHANGED <<pc, mine, data, result, head, created>>
           \/ /\ size = 0
              /\ \E c \in Ctxs : /\ c \notin created /\ Lend(t, c)
                                 /\ created' = created \cup {c} /\ created' \subseteq Ctxs
              /\ size' = 1 /\ head' = head /\ lost' = lost
           \/ Goto(t, "idle") /\ UNCHANGED <<mine, data, result, pool, lost>>
<1>1. head \in Seq(Ctxs) /\ size \in Nat /\ created \subseteq Ctxs
  BY Zenon DEF TypeOK
<1>2. head # <<>> => Head(head) \in Ctxs /\ Tail(head) \in Seq(Ctxs)
  BY <1>1
<1> QED
  BY <1>1, <1>2 DEF Borrow

\* Every action keeps the types.
LEMMA TypeStep ==
    ASSUME TypeOK, HolderInside, LoopInv, [Next]_vars
    PROVE  TypeOK'
<1> USE ConstantsType
<1>1. CASE UNCHANGED vars
  BY <1>1, Zenon DEF vars, TypeOK
<1>2. ASSUME NEW t \in Threads, Begin(t)
      PROVE  TypeOK'
  BY <1>2, SMTT(30) DEF TypeOK, Begin, Goto, pool, ctx, loops, history
<1>3. ASSUME NEW t \in Threads, Borrow(t)
      PROVE  TypeOK'
  <2>1. ASSUME NEW c \in Ctxs, Lend(t, c), head' \in Seq(Ctxs), size' \in Nat,
               created' \subseteq Ctxs, lost' = lost
        PROVE  TypeOK'
    <3>1. pc' \in [Threads -> {"idle", "borrow", "connect", "lock", "wait", "return"}]
      BY <2>1, Zenon DEF Lend, Goto, TypeOK
    <3>2. id' \in [Threads -> 0..MaxCalls]
      BY <1>3 DEF Borrow, TypeOK
    <3> QED
      BY <1>3, <2>1, <3>1, <3>2, SMTT(30) DEF Borrow, TypeOK, Lend, loops
  <2>2. CASE lost' = TRUE /\ UNCHANGED <<pc, mine, data, result, head, created>> /\ size' \in Nat
    BY <1>3, <2>2, Zenon DEF Borrow, TypeOK, loops
  <2>3. CASE Goto(t, "idle") /\ UNCHANGED <<mine, data, result, pool, lost>>
    BY <1>3, <2>3 DEF Borrow, TypeOK, Goto, loops, pool
  <2> QED
    <3>1. head \in Seq(Ctxs) /\ created \subseteq Ctxs /\ 1 \in Nat
      BY Zenon DEF TypeOK
    <3> QED
      BY <1>3, <2>1, <2>2, <2>3, <3>1, BorrowCases, Zenon
<1>4. ASSUME NEW t \in Threads, Connect(t)
      PROVE  TypeOK'
  <2>1. conn' \in [Calls -> Connection]
    <3>1. CASE \E l \in Loops : conn' = [conn EXCEPT ![id[t]] = Open("SYNC_REQ", mine[t], l)]
      <4>1. PICK l \in Loops : conn' = [conn EXCEPT ![id[t]] = Open("SYNC_REQ", mine[t], l)]
        BY <3>1, Zenon
      <4>2. Open("SYNC_REQ", mine[t], l) \in Connection
        BY ConnectionType, Zenon DEF TypeOK
      <4> QED
        BY <4>1, <4>2, Zenon DEF TypeOK
    <3> QED
      BY <3>1, <1>4, Zenon DEF Connect, TypeOK
  <2> QED
    BY <1>4, <2>1, Zenon DEF TypeOK, Connect, Goto, pool, ctx, loops, history
<1>5. ASSUME NEW t \in Threads, Lock(t) \/ Wake(t) \/ TimeOut(t)
      PROVE  TypeOK'
  <2>1. mine[t] \in Ctxs
    BY <1>5, Zenon DEF Lock, Wake, TimeOut, HolderInside, TypeOK
  <2>2. CASE Lock(t)
    BY <2>1, <2>2, Zenon DEF TypeOK, Lock, Goto, pool, loops, history
  <2>a. Abandon(t) => abandoned' \subseteq 0..MaxCalls
    <3>1. id[t] \in 0..MaxCalls /\ abandoned \subseteq 0..MaxCalls
      BY Zenon DEF TypeOK
    <3> QED
      BY <3>1, Zenon DEF Abandon
  <2>3. CASE Wake(t)
    BY <2>1, <2>3, <2>a, Zenon DEF TypeOK, Wake, Goto, pool, ctx, loops
  <2>4. CASE TimeOut(t)
    BY <2>1, <2>4, <2>a, Zenon DEF TypeOK, TimeOut, Goto, pool, loops
  <2> QED
    BY <1>5, <2>2, <2>3, <2>4, Zenon
<1>6. ASSUME NEW t \in Threads, Return(t)
      PROVE  TypeOK'
  <2>1. mine[t] \in Ctxs
    BY <1>6, Zenon DEF Return, HolderInside, TypeOK
  <2>2. head' \in Seq(Ctxs)
    BY <1>6, <2>1, HeadType, Zenon DEF Return, TypeOK
  <2> QED
    BY <1>6, <2>1, <2>2 DEF TypeOK, Return, Goto, loops, history
<1>7. ASSUME NEW kind \in {"NOTIFY", "ASYNC_REQ"}, Send(kind)
      PROVE  TypeOK'
  <2>1. conn' \in [Calls -> Connection]
    <3>1. CASE \E l \in Loops : conn' = [conn EXCEPT ![calls + 1] = Open(kind, None, l)]
      <4>1. PICK l \in Loops : conn' = [conn EXCEPT ![calls + 1] = Open(kind, None, l)]
        BY <3>1, Zenon
      <4>2. Open(kind, None, l) \in Connection
        BY ConnectionType, Zenon
      <4> QED
        BY <4>1, <4>2, Zenon DEF TypeOK
    <3> QED
      BY <3>1, <1>7, Zenon DEF Send, TypeOK
  <2> QED
    BY <1>7, <2>1 DEF TypeOK, Send, pool, ctx, loops, history
<1>8. ASSUME NEW l \in Loops, LockCtx(l)
      PROVE  TypeOK'
  <2>1. conn[at[l]].ctx \in Ctxs
    BY <1>8, AtCtx, Zenon DEF LockCtx
  <2> QED
    BY <1>8, <2>1, Zenon DEF TypeOK, LockCtx, caller, pool, history
<1>9. ASSUME NEW l \in Loops, Fill(l)
      PROVE  TypeOK'
  <2>1. at[l] \in Calls /\ conn[at[l]].ctx \in Ctxs
    BY <1>9, AtCtx, Zenon DEF Fill
  <2>2. conn' \in [Calls -> Connection]
    BY <1>9, <2>1, ConnectionType, Zenon DEF Fill, InState, TypeOK
  <2>3. buf' \in [Threads -> 0..MaxCalls]
    BY <1>9, <2>1 DEF Fill, TypeOK, Calls
  <2> QED
    BY <1>9, <2>1, <2>2, <2>3, Zenon DEF TypeOK, Fill, pool, history
<1>10. ASSUME NEW l \in Loops, NEW k \in Calls,
              OnConnect(l, k) \/ OnClose(l, k) \/ OnRecvAsyncRep(l, k)
       PROVE  TypeOK'
  <2>1. conn' \in [Calls -> Connection]
    <3>1. conn \in [Calls -> Connection]
      BY Zenon DEF TypeOK
    <3>2. conn' = InState(k, "closed") \/ conn' = InState(k, "sent")
      BY <1>10, Zenon DEF OnConnect, OnClose, OnRecvAsyncRep
    <3> QED
      BY <3>1, <3>2, ConnectionType, Zenon DEF InState
  <2> QED
    BY <1>10, <2>1, ZenonT(20) DEF TypeOK, OnConnect, OnClose, OnRecvAsyncRep, caller, pool, ctx,
                       loops, history
<1>11. ASSUME NEW l \in Loops, NEW k \in Calls, OnRecvSyncRep(l, k)
       PROVE  TypeOK'
  BY <1>11, Zenon DEF TypeOK, OnRecvSyncRep, caller, pool, ctx, history
<1>12. ASSUME NEW k \in Calls, OnRecv(k)
       PROVE  TypeOK'
  <2>1. conn' \in [Calls -> Connection]
    BY <1>12, ConnectionType, Zenon DEF OnRecv, InState, TypeOK
  <2> QED
    BY <1>12, <2>1, Zenon DEF TypeOK, OnRecv, caller, pool, ctx, loops, history
<1> QED
  BY <1>1, <1>2, <1>3, <1>4, <1>5, <1>6, <1>7, <1>8, <1>9, <1>10, <1>11, <1>12, NextActions, Zenon

-----------------------------------------------------------------------------
(***************************************************************************)
(* The pool.                                                               *)
(***************************************************************************)
\* A thread that gets a context is one holder more.
LEMMA HoldersGain ==
    ASSUME TypeOK, NEW t \in Threads, mine[t] = None, NEW c \in Ctxs,
           mine' = [mine EXCEPT ![t] = c]
    PROVE  Cardinality(Holders') = Cardinality(Holders) + 1 /\ Cardinality(Holders) \in Nat
<1>1. IsFiniteSet(Holders)
  BY IpcHvAssumption, FS_Subset, Zenon DEF Holders
<1>2. Holders' = Holders \cup {t} /\ t \notin Holders
  BY ConstantsType DEF Holders, TypeOK
<1> QED
  BY <1>1, <1>2, FS_AddElement, FS_CardinalityType, Zenon

\* A thread that gives its context back is one holder less.
LEMMA HoldersLose ==
    ASSUME TypeOK, NEW t \in Threads, mine[t] # None, mine' = [mine EXCEPT ![t] = None]
    PROVE  Cardinality(Holders') = Cardinality(Holders) - 1 /\ Cardinality(Holders) \in Nat
<1>1. IsFiniteSet(Holders)
  BY IpcHvAssumption, FS_Subset, Zenon DEF Holders
<1>2. Holders' = Holders \ {t} /\ t \in Holders
  BY Zenon DEF Holders, TypeOK
<1> QED
  BY <1>1, <1>2, FS_RemoveElement, FS_CardinalityType, Zenon

\* An action that lends nothing and gives nothing back keeps PoolInv.
LEMMA PoolSame ==
    ASSUME PoolInv, UNCHANGED <<mine, head, size, created, lost>>, HolderInside'
    PROVE  PoolInv'
BY Zenon DEF PoolInv, CreatedAll, ContextExclusive, CountInv, HeadIsLentToCrowd, Holders

\* A context that is in no list and with no call is lent.
LEMMA LendExclusive ==
    ASSUME TypeOK, ContextExclusive, NEW t \in Threads, NEW c \in Ctxs,
           mine' = [mine EXCEPT ![t] = c],
           \A u \in Threads : mine[u] # c,
           head' \in Seq(Ctxs),
           \A i \in 1..Len(head') : head'[i] # c,
           \A i \in 1..Len(head') : \E j \in 1..Len(head) : head'[i] = head[j],
           \A i, j \in 1..Len(head') : head'[i] = head'[j] => i = j
    PROVE  ContextExclusive'
<1>1. \A u \in Threads : mine'[u] = IF u = t THEN c ELSE mine[u]
  BY Zenon DEF TypeOK
<1>2. \A u, v \in Threads : mine'[u] # None /\ mine'[u] = mine'[v] => u = v
  BY <1>1 DEF ContextExclusive
<1>3. \A u \in Threads, i \in 1..Len(head') : head'[i] # mine'[u]
  BY <1>1 DEF ContextExclusive
<1> QED
  BY <1>2, <1>3, Zenon DEF ContextExclusive

\* Borrowing keeps PoolInv: the context lent is with no other call, and the head
\* of the empty list is lent only when more than InitCount contexts are out.
LEMMA PoolBorrow ==
    ASSUME TypeOK, PoolInv, ~lost, NEW t \in Threads, Borrow(t)
    PROVE  PoolInv'
<1> USE ConstantsType
<1>1. /\ HolderInside /\ CreatedAll /\ ContextExclusive
      /\ size + InitCount = 2 * Len(head) + Cardinality(Holders)
  BY Zenon DEF PoolInv, CountInv
<1>2. mine[t] = None /\ mine \in [Threads -> Ctxs \cup {None}] /\ head \in Seq(Ctxs)
      /\ size \in Nat /\ Len(head) \in Nat
  BY <1>1 DEF Borrow, HolderInside, TypeOK
<1>3. ASSUME head # <<>>, size > 0, Head(head) \in Ctxs, Lend(t, Head(head)),
             head' = Tail(head), size' = size - 1, created' = created, lost' = lost
      PROVE  PoolInv'
  <2>1. /\ Head(head) = head[1] /\ 1 \in 1..Len(head)
        /\ head' \in Seq(Ctxs) /\ Len(head') = Len(head) - 1
        /\ \A i \in 1..Len(head') : i + 1 \in 1..Len(head) /\ head'[i] = head[i + 1]
    BY <1>2, <1>3
  <2>2. mine' = [mine EXCEPT ![t] = Head(head)]
    BY <1>3, Zenon DEF Lend
  <2>3. HolderInside'
    BY <1>1, <1>2, <1>3, Zenon DEF HolderInside, Lend, Goto, TypeOK
  <2>4. CreatedAll'
    BY <1>1, <1>2, <1>3, <2>1, <2>2, Zenon DEF CreatedAll
  <2>5. ContextExclusive'
    <3>1. \A u \in Threads : mine[u] # Head(head)
      BY <1>1, <2>1 DEF ContextExclusive
    <3>2. \A i \in 1..Len(head') : head'[i] # Head(head)
      BY <1>1, <2>1, <1>2 DEF ContextExclusive
    <3>3. \A i, j \in 1..Len(head') : head'[i] = head'[j] => i = j
      BY <1>1, <2>1, <1>2, SMTT(30) DEF ContextExclusive
    <3>4. \A i \in 1..Len(head') : \E j \in 1..Len(head) : head'[i] = head[j]
      BY <2>1, Zenon
    <3> QED
      BY <1>1, <1>3, <2>1, <2>2, <3>1, <3>2, <3>3, <3>4, LendExclusive, Zenon
  <2>6. CountInv' /\ HeadIsLentToCrowd'
    <3>1. Cardinality(Holders') = Cardinality(Holders) + 1 /\ Cardinality(Holders) \in Nat
      BY <1>2, <1>3, <2>2, HoldersGain, Zenon
    <3>2. Len(head') = Len(head) - 1 /\ size' = size - 1 /\ ~lost'
      BY <1>3, <2>1, Zenon
    <3> QED
      BY ONLY <3>1, <3>2, <1>1, <1>2, ConstantsType DEF CountInv, HeadIsLentToCrowd
  <2> QED
    BY <2>3, <2>4, <2>5, <2>6, Zenon DEF PoolInv
<1>4. ASSUME head = <<>>, size > 0, lost' = TRUE,
             UNCHANGED <<pc, mine, data, result, head, created>>
      PROVE  PoolInv'
  <2>1. Holders' = Holders
    BY <1>4, Zenon DEF Holders
  <2>2. Cardinality(Holders) \in Nat
    BY IpcHvAssumption, FS_Subset, FS_CardinalityType, Zenon DEF Holders
  <2>3. HeadIsLentToCrowd'
    BY <1>1, <1>2, <1>4, <2>1, <2>2 DEF HeadIsLentToCrowd, Holders
  <2> QED
    BY <1>1, <1>4, <2>3 DEF PoolInv, CountInv, HolderInside, CreatedAll, ContextExclusive
<1>5. ASSUME size = 0, NEW c \in Ctxs, c \notin created, Lend(t, c),
             created' = created \cup {c}, size' = 1, head' = head, lost' = lost
      PROVE  PoolInv'
  <2>1. mine' = [mine EXCEPT ![t] = c]
    BY <1>5, Zenon DEF Lend
  <2>2. HolderInside'
    BY <1>1, <1>2, <1>5, Zenon DEF HolderInside, Lend, Goto, TypeOK
  <2>3. CreatedAll'
    BY <1>1, <1>2, <1>5, <2>1, Zenon DEF CreatedAll
  <2>4. ContextExclusive'
    <3>1. \A u \in Threads : mine[u] # c
      BY <1>1, <1>5, Zenon DEF CreatedAll
    <3>2. \A i \in 1..Len(head') : head'[i] # c
      BY <1>1, <1>5, Zenon DEF CreatedAll
    <3>3. \A i, j \in 1..Len(head') : head'[i] = head'[j] => i = j
      BY <1>1, <1>5, Zenon DEF ContextExclusive
    <3> QED
      BY <1>1, <1>2, <1>5, <2>1, <3>1, <3>2, <3>3, LendExclusive, Zenon
  <2>5. CountInv' /\ HeadIsLentToCrowd'
    <3>1. Cardinality(Holders') = Cardinality(Holders) + 1 /\ Cardinality(Holders) \in Nat
      BY <1>2, <1>5, <2>1, HoldersGain, ZenonT(30)
    <3> QED
      BY <1>1, <1>2, <1>5, <2>1, <3>1 DEF CountInv, HeadIsLentToCrowd
  <2> QED
    BY <2>2, <2>3, <2>4, <2>5, Zenon DEF PoolInv
<1>6. ASSUME Goto(t, "idle"), UNCHANGED <<mine, data, result, pool, lost>>
      PROVE  PoolInv'
  <2>1. HolderInside'
    BY <1>1, <1>2, <1>6, Zenon DEF HolderInside, Goto, TypeOK
  <2> QED
    BY <1>6, <2>1, PoolSame, Zenon DEF pool
<1> QED
  BY <1>3, <1>4, <1>5, <1>6, BorrowCases, Zenon

\* Returning keeps PoolInv: the context goes from the call to the list.
LEMMA PoolReturn ==
    ASSUME TypeOK, PoolInv, ~lost, NEW t \in Threads, Return(t)
    PROVE  PoolInv'
<1> USE ConstantsType
<1>1. /\ HolderInside /\ CreatedAll /\ ContextExclusive
      /\ size + InitCount = 2 * Len(head) + Cardinality(Holders)
  BY Zenon DEF PoolInv, CountInv
<1>2. mine[t] \in Ctxs /\ mine \in [Threads -> Ctxs \cup {None}] /\ head \in Seq(Ctxs)
      /\ size \in Nat /\ Len(head) \in Nat
  <2>1. mine[t] # None
    BY <1>1, ZenonT(30) DEF Return, HolderInside
  <2> QED
    BY <2>1 DEF TypeOK
<1>3. /\ head' \in Seq(Ctxs) /\ Len(head') = Len(head) + 1 /\ head'[1] = mine[t]
      /\ \A i \in 1..Len(head) : head'[i + 1] = head[i]
  BY <1>2, HeadType DEF Return
<1>4. \A i \in 1..Len(head') : i # 1 => i - 1 \in 1..Len(head) /\ head'[i] = head[i - 1]
  BY <1>2, <1>3, SMTT(30)
<1>5. \A u \in Threads : mine'[u] = IF u = t THEN None ELSE mine[u]
  BY <1>2, Zenon DEF Return
<1>6. HolderInside'
  BY <1>1, <1>5, SMTT(30) DEF HolderInside, Return, Goto, TypeOK
<1>7. CreatedAll'
  <2>1. \A i \in 1..Len(head') : head'[i] \in created
    BY <1>1, <1>2, <1>3, <1>4, Zenon DEF CreatedAll
  <2> QED
    BY <1>1, <1>5, <2>1 DEF CreatedAll, Return
<1>8. ContextExclusive'
  <2>1. \A u, v \in Threads : mine'[u] # None /\ mine'[u] = mine'[v] => u = v
    BY <1>1, <1>5, Zenon DEF ContextExclusive
  <2>2. \A u \in Threads, i \in 1..Len(head') : head'[i] # mine'[u]
    <3> SUFFICES ASSUME NEW u \in Threads, NEW i \in 1..Len(head')
                 PROVE  head'[i] # mine'[u]
      OBVIOUS
    <3>1. head'[i] \in Ctxs
      BY <1>3
    <3>2. CASE u = t
      BY <1>5, <3>1, <3>2, Zenon
    <3>3. CASE u # t /\ i = 1
      BY <1>1, <1>2, <1>3, <1>5, <3>3 DEF ContextExclusive
    <3>4. CASE u # t /\ i # 1
      BY <1>1, <1>4, <1>5, <3>4 DEF ContextExclusive
    <3> QED
      BY <3>2, <3>3, <3>4, Zenon
  <2>3. \A i, j \in 1..Len(head') : head'[i] = head'[j] => i = j
    <3> SUFFICES ASSUME NEW i \in 1..Len(head'), NEW j \in 1..Len(head'),
                        head'[i] = head'[j], i # j
                 PROVE  FALSE
      OBVIOUS
    <3>0. \A n \in 1..Len(head) : head[n] # mine[t]
      BY <1>1, Zenon DEF ContextExclusive
    <3>1. CASE i = 1 \/ j = 1
      BY <1>3, <1>4, <3>0, <3>1, ZenonT(60)
    <3>2. CASE i # 1 /\ j # 1
      BY <1>1, <1>2, <1>3, <1>4, <3>2, SMTT(30) DEF ContextExclusive
    <3> QED
      BY <3>1, <3>2, Zenon
  <2> QED
    BY <2>1, <2>2, <2>3, Zenon DEF ContextExclusive
<1>9. CountInv' /\ HeadIsLentToCrowd'
  <2>1. Cardinality(Holders') = Cardinality(Holders) - 1 /\ Cardinality(Holders) \in Nat
    BY <1>2, HoldersLose, ZenonT(30) DEF Return
  <2>2. size' = size + 1 /\ ~lost' /\ Len(head') = Len(head) + 1
    BY <1>3, Zenon DEF Return, history
  <2> QED
    BY ONLY <1>1, <1>2, <2>1, <2>2, ConstantsType DEF CountInv, HeadIsLentToCrowd
<1> QED
  BY <1>6, <1>7, <1>8, <1>9, Zenon DEF PoolInv

\* Every action keeps PoolInv.
LEMMA PoolStep ==
    ASSUME TypeOK, PoolInv, [Next]_vars
    PROVE  PoolInv'
<1>0. HolderInside
  BY Zenon DEF PoolInv
<1>1. CASE UNCHANGED vars
  BY <1>0, <1>1, PoolSame, SMTT(30) DEF vars, HolderInside
<1>2. ASSUME NEW t \in Threads, \/ Begin(t) \/ Connect(t) \/ Lock(t) \/ Wake(t) \/ TimeOut(t)
      PROVE  PoolInv'
  <2>1. HolderInside'
    BY <1>0, <1>2 DEF HolderInside, Begin, Connect, Lock, Wake, TimeOut, Goto, TypeOK
  <2> QED
    BY <1>2, <2>1, PoolSame, SMTT(30) DEF Begin, Connect, Lock, Wake, TimeOut, pool, history
<1>3. ASSUME UNCHANGED <<pc, mine, head, size, created, lost>>
      PROVE  PoolInv'
  BY <1>0, <1>3, PoolSame, Zenon DEF HolderInside
<1>4. ASSUME NEW kind \in {"NOTIFY", "ASYNC_REQ"}, Send(kind)
      PROVE  PoolInv'
  BY <1>3, <1>4, Zenon DEF Send, pool, history
<1>5. ASSUME NEW l \in Loops, LockCtx(l) \/ Fill(l)
      PROVE  PoolInv'
  BY <1>3, <1>5, ZenonT(30) DEF LockCtx, Fill, caller, pool, history
<1>6. ASSUME NEW l \in Loops, NEW k \in Calls,
             OnConnect(l, k) \/ OnClose(l, k) \/ OnRecvAsyncRep(l, k) \/ OnRecvSyncRep(l, k)
      PROVE  PoolInv'
  BY <1>3, <1>6, ZenonT(30) DEF OnConnect, OnClose, OnRecvAsyncRep, OnRecvSyncRep, caller, pool, history
<1>7. ASSUME NEW k \in Calls, OnRecv(k)
      PROVE  PoolInv'
  BY <1>3, <1>7, Zenon DEF OnRecv, caller, pool, history
<1> QED
  BY <1>1, <1>2, <1>4, <1>5, <1>6, <1>7, PoolBorrow, PoolReturn, NextActions, Zenon

-----------------------------------------------------------------------------
(***************************************************************************)
(* What the steps do to a connection, and with it the invariants about the *)
(* loops, the mutexes, the contexts and the numbers of the calls.          *)
(***************************************************************************)

\* What the actions do to a connection.
LEMMA ConnectionFields ==
    /\ Closed.state = "closed" /\ Closed.ctx = None
    /\ \A kind, c, l : /\ Open(kind, c, l).state = "connecting" /\ Open(kind, c, l).kind = kind
                       /\ Open(kind, c, l).ctx = c /\ Open(kind, c, l).loop = l
    /\ \A r : WithState(r, "closed") = Closed
    /\ \A r \in Connection, s \in {"connecting", "sent", "answered"} :
          /\ WithState(r, s).state = s /\ WithState(r, s).kind = r.kind
          /\ WithState(r, s).ctx = r.ctx /\ WithState(r, s).loop = r.loop
BY ZenonT(60) DEF Closed, Open, WithState, Connection

\* An open connection goes on or is closed; it stays that of its call.
Moved(k) ==
    /\ conn[k].state # "closed"
    /\ \E r \in Connection :
          /\ conn' = [conn EXCEPT ![k] = r]
          /\ r = Closed \/ /\ r.state # "closed" /\ r.kind = conn[k].kind
                           /\ r.ctx = conn[k].ctx /\ r.loop = conn[k].loop

\* The actions that only move a connection, at whose answer no loop stands.
Quiet(k) ==
    /\ Moved(k)
    /\ \A l \in Loops : at[l] # k
    /\ UNCHANGED <<caller, pool, ctx, loops, history>>

\* What happens to a connection before its answer is taken is quiet, and so is the
\* answer to an asynchronous call.
LEMMA QuietActions ==
    ASSUME TypeOK, LoopInv, NEW k \in Calls,
           \/ \E l \in Loops : OnConnect(l, k) \/ OnClose(l, k) \/ OnRecvAsyncRep(l, k)
           \/ OnRecv(k)
    PROVE  Quiet(k)
<1>1. conn[k] \in Connection
  BY Zenon DEF TypeOK
<1>2. conn[k].state # "closed"
  BY Zenon DEF OnConnect, OnClose, OnRecvAsyncRep, OnRecv
<1>3. \A l \in Loops : at[l] # k
  BY ConstantsType DEF LoopInv, OnConnect, OnClose, OnRecvAsyncRep, OnRecv
<1>4. UNCHANGED <<caller, pool, ctx, loops, history>>
  BY Zenon DEF OnConnect, OnClose, OnRecvAsyncRep, OnRecv
<1>5. \E s \in {"sent", "answered", "closed"} : conn' = [conn EXCEPT ![k] = WithState(conn[k], s)]
  BY Zenon DEF OnConnect, OnClose, OnRecvAsyncRep, OnRecv, InState
<1>6. PICK s \in {"sent", "answered", "closed"} : conn' = [conn EXCEPT ![k] = WithState(conn[k], s)]
  BY <1>5, Zenon
<1>7. WithState(conn[k], s) \in Connection
  BY <1>1, ConnectionType, Zenon
<1>8. CASE s = "closed"
  BY <1>2, <1>3, <1>4, <1>6, <1>7, <1>8, ConnectionFields, ZenonT(30) DEF Quiet, Moved
<1>9. CASE s # "closed"
  <2>1. /\ WithState(conn[k], s).state = s /\ WithState(conn[k], s).kind = conn[k].kind
        /\ WithState(conn[k], s).ctx = conn[k].ctx /\ WithState(conn[k], s).loop = conn[k].loop
    BY <1>1, <1>9, ConnectionFields
  <2> QED
    BY <1>2, <1>3, <1>4, <1>6, <1>7, <1>9, <2>1, Zenon DEF Quiet, Moved
<1> QED
  BY <1>8, <1>9, Zenon

\* The actions again, the quiet ones as one.
LEMMA NextGroups ==
    ASSUME TypeOK, LoopInv, Next
    PROVE  /\ ~lost
           /\ \/ \E t \in Threads : \/ Begin(t) \/ Borrow(t) \/ Connect(t) \/ Lock(t)
                                    \/ Wake(t) \/ TimeOut(t) \/ Return(t)
              \/ \E kind \in {"NOTIFY", "ASYNC_REQ"} : Send(kind)
              \/ \E l \in Loops : LockCtx(l) \/ Fill(l)
              \/ \E l \in Loops, k \in Calls : OnRecvSyncRep(l, k)
              \/ \E k \in Calls : Quiet(k)
BY NextActions, QuietActions, Zenon

\* Fill closes the connection of the answer, and no other.
LEMMA FillConn ==
    ASSUME TypeOK, LoopInv, NEW l \in Loops, Fill(l)
    PROVE  /\ at[l] \in Calls /\ conn[at[l]].ctx \in Ctxs
           /\ conn' = [conn EXCEPT ![at[l]] = Closed]
           /\ \A m \in Loops : m # l /\ at[m] # None => at[m] # at[l]
           /\ conn[at[l]].state = "answered" /\ conn[at[l]].kind = "SYNC_REQ"
<1>1. at[l] # None
  BY Zenon DEF Fill
<1>2. at[l] \in Calls /\ conn[at[l]].ctx \in Ctxs
  BY <1>1, AtCtx, Zenon
<1>3. conn' = [conn EXCEPT ![at[l]] = Closed]
  BY ConnectionFields, ZenonT(30) DEF Fill, InState
<1>4. \A m \in Loops : m # l /\ at[m] # None => at[m] # at[l]
  BY <1>1 DEF LoopInv
<1> QED
  BY <1>1, <1>2, <1>3, <1>4, Zenon DEF LoopInv

\* As long as a loop stands at an answer, nothing happens to its connection.
LEMMA AtKept ==
    ASSUME TypeOK, LoopInv, IdInv, Next, NEW l \in Loops, at[l] # None, ~Fill(l)
    PROVE  at'[l] = at[l] /\ conn'[at[l]] = conn[at[l]]
<1> USE ConstantsType
<1>1. at[l] \in Calls /\ conn[at[l]].state = "answered" /\ at[l] <= calls /\ calls \in Nat
  <2>1. at[l] \in Calls /\ calls \in Nat /\ conn[at[l]].state = "answered"
    BY AtCtx DEF LoopInv, TypeOK
  <2>2. conn[at[l]] # Closed
    BY <2>1, ConnectionFields, ZenonT(30)
  <2>3. ~(at[l] > calls)
    BY <2>1, <2>2, ZenonT(30) DEF IdInv
  <2> QED
    BY <2>1, <2>3 DEF Calls
<1>2. ASSUME NEW t \in Threads, \/ Begin(t) \/ Borrow(t) \/ Lock(t) \/ Wake(t) \/ TimeOut(t)
                                \/ Return(t)
      PROVE  at'[l] = at[l] /\ conn'[at[l]] = conn[at[l]]
  BY <1>2, Zenon DEF Begin, Borrow, Lock, Wake, TimeOut, Return, loops
<1>3. ASSUME NEW t \in Threads, Connect(t)
      PROVE  at'[l] = at[l] /\ conn'[at[l]] = conn[at[l]]
  <2>1. at[l] # id[t]
    BY <1>1, <1>3, ConnectionFields DEF IdInv, Connect
  <2> QED
    BY <1>1, <1>3, <2>1, Zenon DEF Connect, loops, TypeOK
<1>4. ASSUME NEW kind \in {"NOTIFY", "ASYNC_REQ"}, Send(kind)
      PROVE  at'[l] = at[l] /\ conn'[at[l]] = conn[at[l]]
  <2>1. at[l] # calls + 1 /\ at' = at
    BY <1>1, <1>4 DEF Send, loops
  <2>2. CASE UNCHANGED conn
    BY <2>1, <2>2, Zenon
  <2>3. CASE \E m \in Loops : conn' = [conn EXCEPT ![calls + 1] = Open(kind, None, m)]
    BY <1>1, <2>1, <2>3, Zenon DEF TypeOK
  <2> QED
    BY <1>4, <2>2, <2>3, Zenon DEF Send
<1>5. ASSUME NEW m \in Loops, LockCtx(m) \/ Fill(m)
      PROVE  at'[l] = at[l] /\ conn'[at[l]] = conn[at[l]]
  <2>1. CASE LockCtx(m)
    BY <2>1, Zenon DEF LockCtx
  <2>2. CASE Fill(m)
    <3>1. m # l /\ at[l] # at[m] /\ conn' = [conn EXCEPT ![at[m]] = Closed]
      BY <2>2, FillConn, Zenon
    <3>2. at' = [at EXCEPT ![m] = None]
      BY <2>2, Zenon DEF Fill
    <3> QED
      BY <1>1, <3>1, <3>2, Zenon DEF TypeOK
  <2> QED
    BY <1>5, <2>1, <2>2, Zenon
<1>6. ASSUME NEW m \in Loops, NEW k \in Calls, OnRecvSyncRep(m, k)
      PROVE  at'[l] = at[l] /\ conn'[at[l]] = conn[at[l]]
  BY <1>6, Zenon DEF OnRecvSyncRep, Serves, TypeOK
<1>7. ASSUME NEW k \in Calls, Quiet(k)
      PROVE  at'[l] = at[l] /\ conn'[at[l]] = conn[at[l]]
  BY <1>1, <1>7, Zenon DEF Quiet, Moved, loops, TypeOK
<1> QED
  BY <1>2, <1>3, <1>4, <1>5, <1>6, <1>7, NextGroups, Zenon

\* Every action keeps LoopInv.
LEMMA LoopStep ==
    ASSUME TypeOK, TypeOK', HolderInside, IdInv, LoopInv, [Next]_vars
    PROVE  LoopInv'
<1> USE ConstantsType
<1>0. CASE UNCHANGED vars
  BY <1>0, Zenon DEF vars, LoopInv
<1>1. ASSUME Next, NEW l \in Loops, at'[l] # None
      PROVE  /\ conn'[at'[l]].state = "answered" /\ conn'[at'[l]].kind = "SYNC_REQ"
             /\ conn'[at'[l]].loop = l
  <2>1. CASE at[l] # None /\ ~Fill(l)
    <3>1. at'[l] = at[l] /\ conn'[at[l]] = conn[at[l]]
      BY <1>1, <2>1, AtKept, Zenon
    <3>2. /\ conn[at[l]].state = "answered" /\ conn[at[l]].kind = "SYNC_REQ"
          /\ conn[at[l]].loop = l
      BY <2>1, SMTT(30) DEF LoopInv
    <3> QED
      BY <3>1, <3>2, Zenon
  <2>2. CASE Fill(l)
    BY <1>1, <2>2, SMTT(30) DEF Fill, TypeOK
  <2>3. CASE at[l] = None
    <3>1. \E k \in Calls : OnRecvSyncRep(l, k)
      <4>1. at' # at
        BY <1>1, <2>3, ZenonT(60)
      <4>2. ASSUME NEW m \in Loops, Fill(m)
            PROVE  FALSE
        BY <1>1, <2>3, <4>2, SMTT(30) DEF Fill, TypeOK
      <4>3. ASSUME NEW m \in Loops, NEW k \in Calls, OnRecvSyncRep(m, k)
            PROVE  m = l
        BY <1>1, <2>3, <4>3, Zenon DEF OnRecvSyncRep, TypeOK
      <4>4. \E m \in Loops, k \in Calls : OnRecvSyncRep(m, k)
        BY <1>1, <4>1, <4>2, NextGroups, ZenonT(30)
           DEF Begin, Borrow, Connect, Lock, Wake, TimeOut, Return, Send, LockCtx, Quiet, loops
      <4> QED
        BY <4>3, <4>4, Zenon
    <3> QED
      BY <3>1 DEF OnRecvSyncRep, Serves, TypeOK
  <2> QED
    BY <2>1, <2>2, <2>3, Zenon
<1>2. ASSUME NEW j \in Calls, NEW r \in Connection, conn' = [conn EXCEPT ![j] = r], WellFormed(r)
      PROVE  \A k \in Calls : WellFormed(conn'[k])
  BY <1>2 DEF TypeOK, LoopInv
<1>3. ASSUME conn' = conn
      PROVE  \A k \in Calls : WellFormed(conn'[k])
  BY <1>3, Zenon DEF LoopInv
<1>4. ASSUME NEW t \in Threads, Connect(t), conn' # conn
      PROVE  \A k \in Calls : WellFormed(conn'[k])
  <2>1. PICK l \in Loops : conn' = [conn EXCEPT ![id[t]] = Open("SYNC_REQ", mine[t], l)]
    BY <1>4, Zenon DEF Connect
  <2>2. id[t] \in Calls
    BY <1>4 DEF Connect, IdInv, TypeOK, Calls
  <2>3. mine[t] \in Ctxs
    <3>1. mine[t] # None
      BY <1>4, Zenon DEF Connect, HolderInside
    <3> QED
      BY <3>1, Zenon DEF TypeOK
  <2>4. Open("SYNC_REQ", mine[t], l) \in Connection
    BY <2>3, ConnectionType, Zenon
  <2>5. WellFormed(Open("SYNC_REQ", mine[t], l))
    BY <2>3, ConnectionFields DEF WellFormed
  <2> QED
    BY <1>2, <2>1, <2>2, <2>4, <2>5, Zenon
<1>5. ASSUME NEW kind \in {"NOTIFY", "ASYNC_REQ"}, Send(kind), conn' # conn
      PROVE  \A k \in Calls : WellFormed(conn'[k])
  <2>1. PICK l \in Loops : conn' = [conn EXCEPT ![calls + 1] = Open(kind, None, l)]
    BY <1>5, Zenon DEF Send
  <2>2. calls + 1 \in Calls
    BY <1>5 DEF Send, TypeOK, Calls
  <2>3. Open(kind, None, l) \in Connection
    BY ConnectionType, Zenon
  <2>4. WellFormed(Open(kind, None, l))
    BY ConnectionFields DEF WellFormed
  <2> QED
    BY <1>2, <2>1, <2>2, <2>3, <2>4, Zenon
<1>6. ASSUME NEW l \in Loops, Fill(l)
      PROVE  \A k \in Calls : WellFormed(conn'[k])
  <2>1. at[l] \in Calls /\ conn' = [conn EXCEPT ![at[l]] = Closed]
    BY <1>6, FillConn, Zenon
  <2>2. Closed \in Connection /\ WellFormed(Closed)
    BY ConnectionType, ConnectionFields, Zenon DEF WellFormed
  <2> QED
    BY <1>2, <2>1, <2>2, Zenon
<1>7. ASSUME NEW j \in Calls, Quiet(j)
      PROVE  \A k \in Calls : WellFormed(conn'[k])
  <2>1. PICK r \in Connection :
           /\ conn' = [conn EXCEPT ![j] = r]
           /\ r = Closed \/ /\ r.state # "closed" /\ r.kind = conn[j].kind
                            /\ r.ctx = conn[j].ctx /\ r.loop = conn[j].loop
    BY <1>7, Zenon DEF Quiet, Moved
  <2>2. WellFormed(r)
    <3>1. WellFormed(conn[j]) /\ conn[j].state # "closed"
      BY <1>7, Zenon DEF LoopInv, Quiet, Moved
    <3>2. CASE r = Closed
      BY <3>2, ConnectionFields, Zenon DEF WellFormed
    <3>3. CASE r # Closed
      BY <2>1, <3>1, <3>3, Zenon DEF WellFormed
    <3> QED
      BY <3>2, <3>3, Zenon
  <2> QED
    BY <1>2, <2>1, <2>2, Zenon
<1>8. ASSUME Next
      PROVE  \A k \in Calls : WellFormed(conn'[k])
  BY <1>3, <1>4, <1>5, <1>6, <1>7, <1>8, NextGroups, Zenon
     DEF Begin, Borrow, Lock, Wake, TimeOut, Return, LockCtx, OnRecvSyncRep
<1> QED
  BY <1>0, <1>1, <1>8, Zenon DEF LoopInv

\* Every action keeps MutexInv.
LEMMA MutexStep ==
    ASSUME TypeOK, HolderInside, LoopInv, IdInv, MutexInv, [Next]_vars
    PROVE  MutexInv'
<1> USE ConstantsType
<1>1. CASE UNCHANGED vars
  BY <1>1, Zenon DEF vars, MutexInv
<1>2. ASSUME Next
      PROVE  MutexInv'
  <2>0. Threads \cap Loops = {} /\ mutex \in [Ctxs -> Threads \cup Loops \cup {None}]
    BY IpcHvAssumption, Zenon DEF TypeOK
  <2>1. \A l \in Loops : at[l] # None /\ ~Fill(l) => at'[l] = at[l] /\ conn'[at[l]] = conn[at[l]]
    BY <1>2, AtKept, ZenonT(30)
  <2>2. ASSUME mutex' = mutex, timedOut' = timedOut, \A l \in Loops : ~Fill(l)
        PROVE  MutexInv'
    BY <2>1, <2>2 DEF MutexInv
  <2>3. ASSUME NEW t \in Threads, Lock(t) \/ TimeOut(t)
        PROVE  MutexInv'
    <3>1. mine[t] \in Ctxs
      <4>1. mine[t] # None
        BY <2>3, Zenon DEF Lock, TimeOut, HolderInside
      <4> QED
        BY <4>1, Zenon DEF TypeOK
    <3>2. at' = at /\ conn' = conn
      BY <2>3, ZenonT(30) DEF Lock, TimeOut, loops
    <3>3. CASE Lock(t)
      BY <2>0, <3>1, <3>2, <3>3, ZenonT(30) DEF Lock, MutexInv, history
    <3>4. CASE TimeOut(t)
      BY <2>0, <3>1, <3>2, <3>4, SMTT(30) DEF TimeOut, MutexInv
    <3> QED
      BY <2>3, <3>3, <3>4, Zenon
  <2>4. ASSUME NEW l \in Loops, LockCtx(l)
        PROVE  MutexInv'
    <3>1. conn[at[l]].ctx \in Ctxs /\ at' = at /\ conn' = conn /\ timedOut' = timedOut
      BY <2>4, AtCtx, Zenon DEF LockCtx, history
    <3> QED
      BY <2>0, <2>4, <3>1 DEF LockCtx, MutexInv
  <2>5. ASSUME NEW l \in Loops, Fill(l)
        PROVE  MutexInv'
    <3>1. /\ at[l] \in Calls /\ conn[at[l]].ctx \in Ctxs
          /\ conn' = [conn EXCEPT ![at[l]] = Closed]
          /\ \A m \in Loops : m # l /\ at[m] # None => at[m] # at[l]
      BY <2>5, FillConn, Zenon
    <3>2. /\ mutex' = [mutex EXCEPT ![conn[at[l]].ctx] = None] /\ timedOut' = timedOut
          /\ at' = [at EXCEPT ![l] = None]
      BY <2>5, Zenon DEF Fill, history
    <3>3. \A c \in Ctxs, m \in Loops : mutex'[c] = m => m # l /\ mutex[c] = m
      BY <2>0, <3>1, <3>2, Zenon DEF MutexInv
    <3>4. \A m \in Loops : m # l /\ at[m] # None => at'[m] = at[m] /\ conn'[at[m]] = conn[at[m]]
      BY <3>1, <3>2, Zenon DEF TypeOK
    <3>5. \A c \in Ctxs, m \in Loops : mutex'[c] = m => at'[m] # None /\ conn'[at'[m]].ctx = c
      BY <3>3, <3>4 DEF MutexInv
    <3>6. \A c \in Ctxs : mutex'[c] \in Threads => timedOut'
      BY <2>0, <3>1, <3>2, Zenon DEF MutexInv
    <3> QED
      BY <3>5, <3>6, Zenon DEF MutexInv
  <2> QED
    BY <1>2, <2>2, <2>3, <2>4, <2>5, NextGroups, Zenon
       DEF Begin, Borrow, Connect, Wake, Return, Send, OnRecvSyncRep, Quiet, history, ctx
<1> QED
  BY <1>1, <1>2, Zenon

\* The context of a call points to its caller's buffer, whoever writes it.
LEMMA DataStep ==
    ASSUME TypeOK, PoolInv, DataInv, [Next]_vars
    PROVE  DataInv'
<1> USE ConstantsType
<1>0. ContextExclusive /\ HolderInside /\ CreatedAll
  BY Zenon DEF PoolInv
<1>1. CASE UNCHANGED <<mine, data>>
  BY <1>1, Zenon DEF DataInv
<1>2. ASSUME NEW t \in Threads, NEW c \in Ctxs, Lend(t, c), \A u \in Threads : mine[u] # c
      PROVE  DataInv'
  BY <1>2 DEF DataInv, Lend, TypeOK
<1>3. ASSUME NEW t \in Threads, Borrow(t)
      PROVE  DataInv'
  <2>1. CASE head # <<>> /\ Lend(t, Head(head)) /\ Head(head) \in Ctxs
    <3>1. Head(head) = head[1] /\ 1 \in 1..Len(head)
      BY <2>1 DEF TypeOK
    <3> QED
      BY <1>0, <1>2, <2>1, <3>1, SMTT(30) DEF ContextExclusive
  <2>2. ASSUME NEW c \in Ctxs, c \notin created, Lend(t, c)
        PROVE  DataInv'
    BY <1>0, <1>2, <2>2, Zenon DEF CreatedAll
  <2> QED
    BY <1>1, <1>3, <2>1, <2>2, BorrowCases, Zenon
<1>4. ASSUME NEW t \in Threads, Return(t)
      PROVE  DataInv'
  <2>1. mine[t] # None
    BY <1>0, <1>4, Zenon DEF Return, HolderInside
  <2>2. \A u \in Threads : u # t => mine[u] # mine[t] /\ mine'[u] = mine[u]
    BY <1>0, <1>4, <2>1, Zenon DEF Return, ContextExclusive, TypeOK
  <2>3. mine'[t] = None
    BY <1>4, Zenon DEF Return, TypeOK
  <2>4. \A u \in Threads : u # t /\ mine[u] # None => data'[mine[u]] = data[mine[u]]
    BY <1>4, <2>2 DEF Return, TypeOK
  <2> QED
    BY <2>2, <2>3, <2>4, Zenon DEF DataInv
<1> QED
  BY <1>1, <1>3, <1>4, NextActions, ZenonT(60)
     DEF vars, Begin, Connect, Lock, Wake, TimeOut, Send, LockCtx, Fill, OnConnect, OnClose,
         OnRecvAsyncRep, OnRecvSyncRep, OnRecv, caller, ctx

\* Every action keeps IdInv.
LEMMA IdStep ==
    ASSUME TypeOK, LoopInv, IdInv, [Next]_vars
    PROVE  IdInv'
<1> USE ConstantsType
<1>0. /\ pc \in [Threads -> {"idle", "borrow", "connect", "lock", "wait", "return"}]
      /\ id \in [Threads -> 0..MaxCalls] /\ calls \in 0..MaxCalls
      /\ conn \in [Calls -> Connection] /\ Calls = 1..MaxCalls
  BY Zenon DEF TypeOK, Calls
<1>1. ASSUME UNCHANGED <<id, calls, conn>>,
             \A t \in Threads : pc'[t] = "idle" <=> pc[t] = "idle",
             \A t \in Threads : pc'[t] \in {"borrow", "connect"} => pc[t] \in {"borrow", "connect"}
      PROVE  IdInv'
  BY <1>1, Zenon DEF IdInv
<1>2. ASSUME UNCHANGED <<id, calls, pc>>, NEW j \in Calls, conn[j] # Closed,
             \A k \in Calls : k # j => conn'[k] = conn[k]
      PROVE  IdInv'
  <2>1. \A t \in Threads : pc[t] \in {"borrow", "connect"} => id[t] \in Calls /\ id[t] # j
    BY <1>0, <1>2 DEF IdInv
  <2>2. j <= calls
    BY <1>0, <1>2, SMTT(30) DEF IdInv
  <2> QED
    BY <1>0, <1>2, <2>1, <2>2, Zenon DEF IdInv
<1>3. ASSUME NEW t \in Threads, Begin(t)
      PROVE  IdInv'
  <2>1. /\ calls' = calls + 1 /\ calls + 1 \in Calls /\ conn' = conn
        /\ id' = [id EXCEPT ![t] = calls + 1] /\ pc' = [pc EXCEPT ![t] = "borrow"]
    BY <1>0, <1>3 DEF Begin, Goto
  <2>2. conn[calls + 1] = Closed
    BY <1>0, <2>1 DEF IdInv
  <2> QED
    BY <1>0, <2>1, <2>2 DEF IdInv
<1>4. ASSUME NEW t \in Threads, Borrow(t)
      PROVE  IdInv'
  <2>1. id' = [id EXCEPT ![t] = IF pc'[t] = "idle" THEN 0 ELSE id[t]] /\ UNCHANGED <<calls, conn>>
        /\ pc[t] = "borrow"
    BY <1>4, Zenon DEF Borrow
  <2>2. pc' = pc \/ pc' = [pc EXCEPT ![t] = "connect"] \/ pc' = [pc EXCEPT ![t] = "idle"]
    BY <1>4, BorrowCases, Zenon DEF Lend, Goto
  <2>3. CASE pc' = [pc EXCEPT ![t] = "idle"]
    BY <1>0, <2>1, <2>3 DEF IdInv
  <2>4. CASE pc' = pc \/ pc' = [pc EXCEPT ![t] = "connect"]
    <3>1. id' = id
      BY <1>0, <2>1, <2>4, Zenon
    <3> QED
      BY <1>0, <1>1, <2>1, <2>4, <3>1, Zenon
  <2> QED
    BY <2>2, <2>3, <2>4, Zenon
<1>5. ASSUME NEW t \in Threads, Connect(t)
      PROVE  IdInv'
  <2>1. /\ pc[t] = "connect" /\ UNCHANGED <<id, calls>>
        /\ pc' = [pc EXCEPT ![t] = "lock"] \/ pc' = [pc EXCEPT ![t] = "return"]
        /\ \A k \in Calls : k # id[t] => conn'[k] = conn[k]
    BY <1>0, <1>5, Zenon DEF Connect, Goto
  <2>2. \A u \in Threads : u # t /\ pc[u] \in {"borrow", "connect"} => id[u] \in Calls /\ id[u] # id[t]
    BY <1>0, <2>1 DEF IdInv
  <2>3. \A u \in Threads : pc'[u] \in {"borrow", "connect"} => u # t /\ pc[u] \in {"borrow", "connect"}
    BY <1>0, <2>1, Zenon
  <2>4. \A u \in Threads : pc'[u] = "idle" <=> pc[u] = "idle"
    BY <1>0, <2>1, Zenon
  <2>5. id[t] <= calls
    BY Zenon DEF IdInv
  <2> QED
    BY <1>0, <2>1, <2>2, <2>3, <2>4, <2>5, SMTT(30) DEF IdInv
<1>6. ASSUME NEW t \in Threads, Lock(t) \/ Wake(t) \/ TimeOut(t)
      PROVE  IdInv'
  <2>1. /\ UNCHANGED <<id, calls, conn>> /\ pc[t] \in {"lock", "wait"}
        /\ pc' = [pc EXCEPT ![t] = "wait"] \/ pc' = [pc EXCEPT ![t] = "return"]
    BY <1>6, Zenon DEF Lock, Wake, TimeOut, Goto
  <2> QED
    BY <1>0, <1>1, <2>1, Zenon
<1>7. ASSUME NEW t \in Threads, Return(t)
      PROVE  IdInv'
  <2>1. /\ id' = [id EXCEPT ![t] = 0] /\ pc' = [pc EXCEPT ![t] = "idle"]
        /\ UNCHANGED <<calls, conn>>
    BY <1>7, Zenon DEF Return, Goto
  <2> QED
    BY <1>0, <2>1 DEF IdInv
<1>8. ASSUME NEW kind \in {"NOTIFY", "ASYNC_REQ"}, Send(kind)
      PROVE  IdInv'
  <2>1. /\ UNCHANGED <<id, pc>> /\ calls' = calls + 1
        /\ \A k \in Calls : k # calls + 1 => conn'[k] = conn[k]
    BY <1>0, <1>8, Zenon DEF Send
  <2>2. \A t \in Threads : pc[t] \in {"borrow", "connect"} => id[t] \in Calls /\ id[t] # calls + 1
    BY <1>0 DEF IdInv
  <2> QED
    BY <1>0, <2>1, <2>2 DEF IdInv
<1>9. ASSUME NEW l \in Loops, Fill(l)
      PROVE  IdInv'
  <2>1. at[l] \in Calls /\ conn' = [conn EXCEPT ![at[l]] = Closed] /\ conn[at[l]] # Closed
    BY <1>9, FillConn, ConnectionFields, Zenon
  <2>2. \A k \in Calls : k # at[l] => conn'[k] = conn[k]
    BY <1>0, <2>1, Zenon
  <2> QED
    BY <1>2, <1>9, <2>1, <2>2, Zenon DEF Fill
<1>10. ASSUME NEW k \in Calls, Quiet(k)
       PROVE  IdInv'
  <2>1. conn[k] # Closed /\ \A j \in Calls : j # k => conn'[j] = conn[j]
    BY <1>0, <1>10, ConnectionFields, Zenon DEF Quiet, Moved
  <2> QED
    BY <1>2, <1>10, <2>1, ZenonT(30) DEF Quiet, caller
<1>11. ASSUME UNCHANGED <<id, calls, conn, pc>>
       PROVE  IdInv'
  BY <1>1, <1>11, Zenon
<1> QED
  BY <1>3, <1>4, <1>5, <1>6, <1>7, <1>8, <1>9, <1>10, <1>11, NextGroups, ZenonT(30)
     DEF vars, LockCtx, OnRecvSyncRep, caller

-----------------------------------------------------------------------------
(***************************************************************************)
(* The owners of connections and buffers, and the theorems.                *)
(***************************************************************************)

\* No step takes back that a call has left its connection behind.
LEMMA AbandonedStays ==
    ASSUME TypeOK, LoopInv, [Next]_vars
    PROVE  abandoned \subseteq abandoned'
BY NextGroups, Zenon
   DEF vars, Begin, Borrow, Connect, Lock, Wake, TimeOut, Abandon, Return, Send, LockCtx, Fill,
       OnRecvSyncRep, Quiet, history

\* A call that waits for its open connection goes on waiting for it, unless it
\* leaves it behind.
LEMMA WaiterStays ==
    ASSUME TypeOK, LoopInv, [Next]_vars, NEW t \in Threads, id[t] \notin abandoned', Waits(t),
           conn[id[t]].state # "closed"
    PROVE  (pc'[t] = "lock" \/ pc'[t] = "wait") /\ id'[t] = id[t] /\ mine'[t] = mine[t]
<1>0. /\ pc \in [Threads -> {"idle", "borrow", "connect", "lock", "wait", "return"}]
      /\ id \in [Threads -> 0..MaxCalls] /\ mine \in [Threads -> Ctxs \cup {None}]
      /\ pc[t] = "lock" \/ pc[t] = "wait"
  BY Zenon DEF TypeOK, Waits
<1>1. ASSUME UNCHANGED <<pc, id, mine>>
      PROVE  (pc'[t] = "lock" \/ pc'[t] = "wait") /\ id'[t] = id[t] /\ mine'[t] = mine[t]
  BY <1>0, <1>1, Zenon
<1>2. ASSUME NEW u \in Threads, u # t,
             \/ Begin(u) \/ Borrow(u) \/ Connect(u) \/ Lock(u) \/ Wake(u) \/ TimeOut(u) \/ Return(u)
      PROVE  (pc'[t] = "lock" \/ pc'[t] = "wait") /\ id'[t] = id[t] /\ mine'[t] = mine[t]
  <2>1. pc'[t] = pc[t]
    BY <1>0, <1>2, ZenonT(30) DEF Begin, Borrow, Connect, Lock, Wake, TimeOut, Return, Goto, Lend
  <2>2. id'[t] = id[t]
    BY <1>0, <1>2, ZenonT(30) DEF Begin, Borrow, Connect, Lock, Wake, TimeOut, Return
  <2>3. mine'[t] = mine[t]
    BY <1>0, <1>2, ZenonT(30) DEF Begin, Borrow, Connect, Lock, Wake, TimeOut, Return, Lend
  <2> QED
    BY <1>0, <2>1, <2>2, <2>3, Zenon
<1>3. ASSUME \/ Begin(t) \/ Borrow(t) \/ Connect(t) \/ Lock(t) \/ Wake(t) \/ TimeOut(t) \/ Return(t)
      PROVE  (pc'[t] = "lock" \/ pc'[t] = "wait") /\ id'[t] = id[t] /\ mine'[t] = mine[t]
  <2>1. ~Wake(t) /\ ~TimeOut(t)
    BY ZenonT(30) DEF Wake, TimeOut, Abandon
  <2>2. Lock(t)
    BY <1>0, <1>3, <2>1, Zenon DEF Begin, Borrow, Connect, Return
  <2> QED
    BY <1>0, <2>2, ZenonT(30) DEF Lock, Goto
<1> QED
  BY <1>1, <1>2, <1>3, NextGroups, Zenon
     DEF vars, Send, LockCtx, Fill, OnRecvSyncRep, Quiet, caller

\* An open connection of a synchronous call was open before, or is opened for it.
LEMMA OpenOrigin ==
    ASSUME TypeOK, LoopInv, IdInv, [Next]_vars, NEW k \in Calls,
           conn'[k].state # "closed", conn'[k].kind = "SYNC_REQ"
    PROVE  \/ conn[k].state # "closed" /\ conn[k].kind = "SYNC_REQ" /\ conn'[k].ctx = conn[k].ctx
           \/ \E t \in Threads : /\ id[t] = k /\ id'[t] = k /\ mine'[t] = conn'[k].ctx
                                 /\ pc'[t] = "lock"
<1>0. conn \in [Calls -> Connection] /\ pc \in [Threads -> {"idle", "borrow", "connect", "lock", "wait", "return"}]
  BY Zenon DEF TypeOK
<1>1. CASE conn'[k] = conn[k]
  BY <1>1, Zenon
<1>2. ASSUME NEW t \in Threads, Connect(t), conn'[k] # conn[k]
      PROVE  /\ id[t] = k /\ id'[t] = k /\ mine'[t] = conn'[k].ctx /\ pc'[t] = "lock"
  <2>1. PICK l \in Loops : conn' = [conn EXCEPT ![id[t]] = Open("SYNC_REQ", mine[t], l)]
    BY <1>2, Zenon DEF Connect
  <2>2. id[t] = k /\ conn'[k] = Open("SYNC_REQ", mine[t], l)
    BY <1>0, <1>2, <2>1, ZenonT(30)
  <2>3. pc' = [pc EXCEPT ![t] = "lock"] /\ mine' = mine /\ id' = id
    BY <1>2, ZenonT(30) DEF Connect, Goto
  <2> QED
    BY <1>0, <2>2, <2>3, ConnectionFields
<1>3. ASSUME NEW kind \in {"NOTIFY", "ASYNC_REQ"}, Send(kind), conn'[k] # conn[k]
      PROVE  FALSE
  <2>1. PICK l \in Loops : conn' = [conn EXCEPT ![calls + 1] = Open(kind, None, l)]
    BY <1>3, Zenon DEF Send
  <2>2. conn'[k] = Open(kind, None, l)
    BY <1>0, <1>3, <2>1, Zenon
  <2> QED
    BY <2>2, ConnectionFields
<1>4. ASSUME NEW l \in Loops, Fill(l), conn'[k] # conn[k]
      PROVE  FALSE
  <2>1. conn' = [conn EXCEPT ![at[l]] = Closed]
    BY <1>4, FillConn, Zenon
  <2>2. conn'[k] = Closed
    BY <1>0, <1>4, <2>1, ZenonT(60)
  <2> QED
    BY <2>2, ConnectionFields, Zenon
<1>5. ASSUME NEW j \in Calls, Quiet(j), conn'[k] # conn[k]
      PROVE  conn[k].state # "closed" /\ conn[k].kind = "SYNC_REQ" /\ conn'[k].ctx = conn[k].ctx
  <2>1. PICK r \in Connection :
           /\ conn' = [conn EXCEPT ![j] = r]
           /\ r = Closed \/ /\ r.state # "closed" /\ r.kind = conn[j].kind
                            /\ r.ctx = conn[j].ctx /\ r.loop = conn[j].loop
    BY <1>5, ZenonT(30) DEF Quiet, Moved
  <2>2. j = k /\ conn'[k] = r
    BY <1>0, <1>5, <2>1, Zenon
  <2>3. r # Closed
    BY <2>2, ConnectionFields, Zenon
  <2> QED
    BY <1>5, <2>1, <2>2, <2>3 DEF Quiet, Moved
<1> QED
  BY <1>1, <1>2, <1>3, <1>4, <1>5, NextGroups, ZenonT(30)
     DEF vars, Begin, Borrow, Lock, Wake, TimeOut, Return, LockCtx, OnRecvSyncRep

\* A loop that has a mutex had it and what it found, or takes it now.
LEMMA LoopTakes ==
    ASSUME TypeOK, LoopInv, MutexInv, HolderInside, [Next]_vars,
           NEW l \in Loops, NEW c \in Ctxs, mutex'[c] = l
    PROVE  \/ mutex[c] = l /\ target'[l] = target[l] /\ ~Fill(l)
           \/ LockCtx(l) /\ c = conn[at[l]].ctx
<1> USE ConstantsType
<1>0. /\ mutex \in [Ctxs -> Threads \cup Loops \cup {None}] /\ Threads \cap Loops = {}
      /\ target \in [Loops -> Threads \cup {None}]
  BY IpcHvAssumption, Zenon DEF TypeOK
<1>1. ASSUME UNCHANGED <<mutex, target>>, ~Fill(l)
      PROVE  mutex[c] = l /\ target'[l] = target[l] /\ ~Fill(l)
  BY <1>1, Zenon
<1>2. ASSUME NEW t \in Threads, Lock(t) \/ TimeOut(t)
      PROVE  mutex[c] = l /\ target'[l] = target[l]
  BY <1>0, <1>2, ZenonT(30) DEF Lock, TimeOut, loops
<1>3. ASSUME NEW m \in Loops, LockCtx(m)
      PROVE  \/ mutex[c] = l /\ target'[l] = target[l]
             \/ LockCtx(l) /\ c = conn[at[l]].ctx
  <2>1. /\ mutex' = [mutex EXCEPT ![conn[at[m]].ctx] = m]
        /\ target' = [target EXCEPT ![m] = data[conn[at[m]].ctx]]
    BY <1>3, Zenon DEF LockCtx
  <2>2. CASE m = l
    <3>1. c = conn[at[l]].ctx
      BY <1>0, <2>1, <2>2, Zenon DEF MutexInv
    <3> QED
      BY <1>3, <2>2, <3>1, Zenon
  <2>3. CASE m # l
    BY <1>0, <2>1, <2>3, Zenon
  <2> QED
    BY <2>2, <2>3, Zenon
<1>4. ASSUME NEW m \in Loops, Fill(m)
      PROVE  m # l /\ mutex[c] = l /\ target'[l] = target[l]
  <2>1. /\ mutex' = [mutex EXCEPT ![conn[at[m]].ctx] = None]
        /\ target' = [target EXCEPT ![m] = None]
    BY <1>4, ZenonT(30) DEF Fill
  <2>2. mutex[c] = l /\ c # conn[at[m]].ctx
    BY <1>0, <2>1, Zenon
  <2>3. m # l
    BY <2>2, Zenon DEF MutexInv
  <2> QED
    BY <1>0, <2>1, <2>2, <2>3, Zenon
<1>5. CASE Fill(l)
  BY <1>4, <1>5, Zenon
<1>6. CASE ~Fill(l)
  BY <1>1, <1>2, <1>3, <1>4, <1>6, NextGroups, ZenonT(30)
     DEF vars, Begin, Borrow, Connect, Wake, Return, Send, OnRecvSyncRep, Quiet, loops, ctx
<1> QED
  BY <1>5, <1>6, Zenon

\* Every action keeps OwnerInv.
LEMMA OwnerStep ==
    ASSUME TypeOK, HolderInside, LoopInv, IdInv, MutexInv, DataInv, OwnerInv,
           [Next]_vars
    PROVE  OwnerInv'
<1> USE ConstantsType
<1>0. \A k \in Calls : k \notin abandoned' => k \notin abandoned
  BY AbandonedStays, Zenon
<1>1. ASSUME NEW k \in Calls, k \notin abandoned', conn'[k].state # "closed", conn'[k].kind = "SYNC_REQ"
      PROVE  \E t \in Threads : /\ id'[t] = k /\ mine'[t] = conn'[k].ctx
                                /\ pc'[t] = "lock" \/ pc'[t] = "wait"
  <2>1. CASE conn[k].state # "closed" /\ conn[k].kind = "SYNC_REQ" /\ conn'[k].ctx = conn[k].ctx
    <3>1. PICK t \in Threads : id[t] = k /\ mine[t] = conn[k].ctx /\ Waits(t)
      BY <1>0, <1>1, <2>1, ZenonT(30) DEF OwnerInv
    <3>2. (pc'[t] = "lock" \/ pc'[t] = "wait") /\ id'[t] = id[t] /\ mine'[t] = mine[t]
      BY <1>1, <2>1, <3>1, WaiterStays, Zenon
    <3> QED
      BY <2>1, <3>1, <3>2, Zenon
  <2> QED
    BY <1>1, <2>1, OpenOrigin, ZenonT(30)
<1>2. ASSUME NEW l \in Loops, at'[l] # None, at'[l] \notin abandoned',
             mutex'[conn'[at'[l]].ctx] = l
      PROVE  /\ target'[l] \in Threads /\ id'[target'[l]] = at'[l]
             /\ pc'[target'[l]] = "lock" \/ pc'[target'[l]] = "wait"
  <2>0. CASE UNCHANGED vars
    BY <1>2, <2>0, ZenonT(30) DEF vars, OwnerInv, Waits
  <2> SUFFICES ASSUME Next PROVE /\ target'[l] \in Threads /\ id'[target'[l]] = at'[l]
                                 /\ pc'[target'[l]] = "lock" \/ pc'[target'[l]] = "wait"
    BY <2>0, ZenonT(30)
  <2>1. conn'[at'[l]].ctx \in Ctxs
    <3>1. TypeOK' /\ LoopInv'
      BY TypeStep, LoopStep, Zenon
    <3>2. at'[l] \in Calls
      BY <1>2, <3>1 DEF TypeOK
    <3>3. /\ conn'[at'[l]].state = "answered" /\ conn'[at'[l]].kind = "SYNC_REQ"
          /\ WellFormed(conn'[at'[l]])
      BY <1>2, <3>1, <3>2, ZenonT(30) DEF LoopInv
    <3> QED
      BY <3>3, Zenon DEF WellFormed
  <2>2. /\ at[l] # None /\ ~Fill(l)
        /\ \/ /\ mutex[conn'[at'[l]].ctx] = l /\ target'[l] = target[l]
           \/ LockCtx(l) /\ conn'[at'[l]].ctx = conn[at[l]].ctx
    <3>1. CASE mutex[conn'[at'[l]].ctx] = l /\ target'[l] = target[l] /\ ~Fill(l)
      BY <2>1, <3>1, ZenonT(30) DEF MutexInv
    <3>2. CASE LockCtx(l) /\ conn'[at'[l]].ctx = conn[at[l]].ctx
      <4>1. at[l] # None /\ conn[at[l]].ctx \in Ctxs /\ mutex[conn[at[l]].ctx] = None
        BY <3>2, AtCtx, ZenonT(30) DEF LockCtx
      <4>2. ~Fill(l)
        BY <4>1, ZenonT(30) DEF Fill
      <4> QED
        BY <3>2, <4>1, <4>2, Zenon
    <3> QED
      BY <1>2, <2>1, <3>1, <3>2, LoopTakes, ZenonT(30)
  <2>3. at'[l] = at[l] /\ conn'[at[l]] = conn[at[l]]
    BY <2>2, AtKept, ZenonT(30)
  <2>4. at[l] \in Calls /\ conn[at[l]].state = "answered" /\ conn[at[l]].kind = "SYNC_REQ"
    BY <2>2, AtCtx, ZenonT(30) DEF LoopInv
  <2>a. at[l] \notin abandoned' /\ at[l] \notin abandoned
    BY <1>0, <1>2, <2>3, <2>4, Zenon
  <2>5. CASE mutex[conn[at[l]].ctx] = l /\ target'[l] = target[l]
    <3>1. target[l] \in Threads /\ id[target[l]] = at[l] /\ Waits(target[l])
      BY <2>2, <2>5, <2>a, ZenonT(30) DEF OwnerInv
    <3> QED
      BY <2>3, <2>4, <2>5, <2>a, <3>1, WaiterStays, ZenonT(30)
  <2>6. CASE LockCtx(l)
    <3>1. PICK t \in Threads : id[t] = at[l] /\ mine[t] = conn[at[l]].ctx /\ Waits(t)
      BY <2>4, <2>a, ZenonT(30) DEF OwnerInv
    <3>2. mine[t] # None
      BY <3>1, Zenon DEF HolderInside, Waits
    <3>3. target'[l] = t
      BY <2>6, <3>1, <3>2, SMTT(30) DEF DataInv, LockCtx, TypeOK
    <3> QED
      BY <2>3, <2>4, <2>a, <3>1, <3>3, WaiterStays, Zenon
  <2> QED
    BY <2>2, <2>3, <2>5, <2>6, ZenonT(30)
<1>3. \A k \in Calls : k \notin abandoned' /\ conn'[k].state # "closed" /\ conn'[k].kind = "SYNC_REQ" =>
         \E t \in Threads : id'[t] = k /\ mine'[t] = conn'[k].ctx /\ pc'[t] \in {"lock", "wait"}
  BY <1>1, ZenonT(30)
<1>4. \A l \in Loops : at'[l] # None /\ at'[l] \notin abandoned' /\ mutex'[conn'[at'[l]].ctx] = l =>
         /\ target'[l] \in Threads /\ id'[target'[l]] = at'[l]
         /\ pc'[target'[l]] \in {"lock", "wait"}
  BY <1>2, Zenon
<1> QED
  BY <1>3, <1>4, Zenon DEF OwnerInv, Waits

\* The owner of the answer at which a loop writes is the one call with its context.
LEMMA FillTarget ==
    ASSUME TypeOK, PoolInv, LoopInv, IdInv, OwnerInv, NEW l \in Loops, Fill(l),
           at[l] \notin abandoned
    PROVE  /\ target[l] \in Threads /\ id[target[l]] = at[l] /\ Waits(target[l])
           /\ mine[target[l]] = conn[at[l]].ctx
           /\ \A u \in Threads : u # target[l] => mine[u] # conn[at[l]].ctx
<1>1. at[l] \in Calls /\ conn[at[l]].ctx \in Ctxs
      /\ conn[at[l]].state = "answered" /\ conn[at[l]].kind = "SYNC_REQ"
  BY FillConn, Zenon
<1>2. target[l] \in Threads /\ id[target[l]] = at[l] /\ Waits(target[l])
  BY ZenonT(30) DEF OwnerInv, Fill
<1>3. PICK t \in Threads : id[t] = at[l] /\ mine[t] = conn[at[l]].ctx /\ Waits(t)
  BY <1>1, ZenonT(30) DEF OwnerInv
<1>4. at[l] # 0
  BY <1>1, ConstantsType DEF Calls
<1>5. t = target[l]
  BY <1>2, <1>3, <1>4, ZenonT(30) DEF IdInv
<1>6. \A u \in Threads : u # t => mine[u] # mine[t]
  BY <1>1, <1>3, ConstantsType, Zenon DEF PoolInv, ContextExclusive
<1> QED
  BY <1>2, <1>3, <1>5, <1>6, ZenonT(30)

\* Every action keeps BufferInv, as long as OwnerInv holds.
LEMMA BufferStep ==
    ASSUME TypeOK, PoolInv, LoopInv, IdInv, OwnerInv, BufferInv, [Next]_vars, abandoned = {}
    PROVE  BufferInv'
<1> USE ConstantsType
<1>0. /\ pc \in [Threads -> {"idle", "borrow", "connect", "lock", "wait", "return"}]
      /\ id \in [Threads -> 0..MaxCalls] /\ mine \in [Threads -> Ctxs \cup {None}]
      /\ ret \in [Threads -> {0, -1, -8}] /\ buf \in [Threads -> 0..MaxCalls]
      /\ result \in [Ctxs -> {0, -1}]
  BY Zenon DEF TypeOK
<1>1. ContextExclusive /\ HolderInside /\ CreatedAll
  BY Zenon DEF PoolInv
<1>2. ASSUME UNCHANGED <<pc, id, mine, ret, buf, result>>
      PROVE  BufferInv'
  BY <1>2, Zenon DEF BufferInv, Waits
<1>3. ASSUME NEW t \in Threads, Begin(t)
      PROVE  BufferInv'
  <2>1. /\ pc[t] = "idle" /\ pc' = [pc EXCEPT ![t] = "borrow"] /\ buf' = [buf EXCEPT ![t] = 0]
        /\ id' = [id EXCEPT ![t] = calls + 1] /\ UNCHANGED <<mine, ret, result>>
    BY <1>3, Zenon DEF Begin, Goto, ctx
  <2> QED
    BY <1>0, <2>1 DEF BufferInv, Waits
<1>4. ASSUME NEW t \in Threads, Borrow(t)
      PROVE  BufferInv'
  <2>1. pc[t] = "borrow" /\ UNCHANGED <<ret, buf>>
        /\ id' = [id EXCEPT ![t] = IF pc'[t] = "idle" THEN 0 ELSE id[t]]
    BY <1>4, ZenonT(30) DEF Borrow
  <2>2. ASSUME NEW c \in Ctxs, Lend(t, c), \A u \in Threads : mine[u] # c
        PROVE  BufferInv'
    <3>1. /\ pc' = [pc EXCEPT ![t] = "connect"] /\ mine' = [mine EXCEPT ![t] = c]
          /\ result' = [result EXCEPT ![c] = -1]
      BY <2>2, Zenon DEF Lend, Goto
    <3>2. id' = id
      BY <1>0, <2>1, <3>1, Zenon
    <3>3. result'[mine'[t]] = -1
      BY <1>0, <3>1, Zenon
    <3>4. \A u \in Threads : u # t => pc'[u] = pc[u] /\ mine'[u] = mine[u]
      BY <1>0, <3>1, Zenon
    <3>5. \A u \in Threads : mine[u] # None => result'[mine[u]] = result[mine[u]]
      BY <1>0, <2>2, <3>1, Zenon
    <3>6. \A u \in Threads : Waits(u) \/ pc[u] = "connect" => mine[u] # None
      BY <1>1, Zenon DEF HolderInside, Waits
    <3>7. pc'[t] = "connect"
      BY <1>0, <3>1, Zenon
    <3> QED
      BY <2>1, <3>2, <3>3, <3>4, <3>5, <3>6, <3>7, SMTT(30) DEF BufferInv, Waits
  <2>3. CASE head # <<>> /\ Lend(t, Head(head)) /\ Head(head) \in Ctxs
    <3>1. Head(head) = head[1] /\ 1 \in 1..Len(head)
      BY <2>3 DEF TypeOK
    <3> QED
      BY <1>1, <2>2, <2>3, <3>1, SMTT(30) DEF ContextExclusive
  <2>4. ASSUME NEW c \in Ctxs, c \notin created, Lend(t, c)
        PROVE  BufferInv'
    BY <1>1, <2>2, <2>4, Zenon DEF CreatedAll
  <2>5. CASE Goto(t, "idle") /\ UNCHANGED <<mine, data, result, pool, lost>>
    BY <1>0, <2>1, <2>5 DEF BufferInv, Waits, Goto
  <2>6. CASE UNCHANGED <<pc, mine, data, result, head, created>>
    <3>1. id' = id
      BY <1>0, <2>1, <2>6, Zenon
    <3> QED
      BY <1>2, <2>1, <2>6, <3>1, Zenon
  <2> QED
    BY <1>4, <2>3, <2>4, <2>5, <2>6, BorrowCases, ZenonT(30)
<1>5. ASSUME NEW t \in Threads, Connect(t) \/ Lock(t)
      PROVE  BufferInv'
  <2>1. UNCHANGED <<id, mine, ret, buf, result>>
    BY <1>5, Zenon DEF Connect, Lock, ctx
  <2>2. CASE Connect(t)
    <3>1. pc[t] = "connect" /\ (pc' = [pc EXCEPT ![t] = "lock"] \/ pc' = [pc EXCEPT ![t] = "return"])
      BY <2>2, Zenon DEF Connect, Goto
    <3> QED
      BY <1>0, <2>1, <3>1, ZenonT(30) DEF BufferInv, Waits
  <2>3. CASE Lock(t)
    <3>1. pc[t] = "lock" /\ pc' = [pc EXCEPT ![t] = "wait"]
      BY <2>3, Zenon DEF Lock, Goto
    <3> QED
      BY <1>0, <2>1, <3>1 DEF BufferInv, Waits
  <2> QED
    BY <1>5, <2>2, <2>3, Zenon
<1>6. ASSUME NEW t \in Threads, Wake(t) \/ TimeOut(t)
      PROVE  BufferInv'
  <2>1. /\ UNCHANGED <<id, mine, buf, result>> /\ pc[t] = "wait"
        /\ pc' = [pc EXCEPT ![t] = "return"]
        /\ \/ ret' = [ret EXCEPT ![t] = result[mine[t]]]
           \/ ret' = [ret EXCEPT ![t] = -8]
    BY <1>6, ZenonT(30) DEF Wake, TimeOut, Goto, ctx
  <2> QED
    BY <1>0, <2>1 DEF BufferInv, Waits
<1>7. ASSUME NEW t \in Threads, Return(t)
      PROVE  BufferInv'
  <2>1. /\ pc' = [pc EXCEPT ![t] = "idle"] /\ mine' = [mine EXCEPT ![t] = None]
        /\ ret' = [ret EXCEPT ![t] = -1] /\ buf' = [buf EXCEPT ![t] = 0]
        /\ id' = [id EXCEPT ![t] = 0]
        /\ result' = [result EXCEPT ![mine[t]] = -1] /\ pc[t] = "return"
    BY <1>7, Zenon DEF Return, Goto
  <2>2. \A u \in Threads : u # t => /\ pc'[u] = pc[u] /\ mine'[u] = mine[u] /\ ret'[u] = ret[u]
                                    /\ buf'[u] = buf[u] /\ id'[u] = id[u]
    BY <1>0, <2>1, Zenon
  <2>3. pc'[t] = "idle" /\ ret'[t] = -1 /\ buf'[t] = 0
    BY <1>0, <2>1, Zenon
  <2>4. \A u \in Threads : u # t /\ mine[u] # None => result'[mine[u]] = result[mine[u]]
    BY <1>0, <1>1, <2>1 DEF ContextExclusive
  <2>5. \A u \in Threads : Waits(u) \/ pc[u] = "connect" => mine[u] # None
    BY <1>1, ZenonT(60) DEF HolderInside, Waits
  <2> QED
    BY <2>2, <2>3, <2>4, <2>5 DEF BufferInv, Waits
<1>8. ASSUME NEW l \in Loops, Fill(l)
      PROVE  BufferInv'
  <2>1. /\ target[l] \in Threads /\ id[target[l]] = at[l] /\ Waits(target[l])
        /\ mine[target[l]] = conn[at[l]].ctx
        /\ \A u \in Threads : u # target[l] => mine[u] # conn[at[l]].ctx
    BY <1>8, FillTarget, Zenon
  <2>2. /\ buf' = [t \in Threads |-> IF t = target[l] THEN at[l] ELSE buf[t]]
        /\ result' = [result EXCEPT ![conn[at[l]].ctx] = 0]
        /\ UNCHANGED <<pc, id, mine, ret>>
    BY <1>8, ZenonT(30) DEF Fill
  <2>3. \A u \in Threads : u # target[l] => buf'[u] = buf[u]
    BY <2>2, ZenonT(30)
  <2>4. buf'[target[l]] = id[target[l]]
    BY <2>1, <2>2, Zenon
  <2>5. \A u \in Threads : u # target[l] /\ mine[u] # None => result'[mine[u]] = result[mine[u]]
    BY <1>0, <2>1, <2>2, Zenon
  <2>6. \A u \in Threads : Waits(u) \/ pc[u] = "connect" => mine[u] # None
    BY <1>1, Zenon DEF HolderInside, Waits
  <2>7. ret[target[l]] = -1
    BY <2>1, Zenon DEF BufferInv, Waits
  <2> QED
    BY <2>1, <2>2, <2>3, <2>4, <2>5, <2>6, <2>7, SMTT(30) DEF BufferInv, Waits
<1> QED
  BY <1>2, <1>3, <1>4, <1>5, <1>6, <1>7, <1>8, NextGroups, ZenonT(30)
     DEF vars, Send, LockCtx, OnRecvSyncRep, Quiet, caller, ctx

\* Every action keeps LateInv: only a loop fills a buffer, and the one it has found
\* is that of the call, or the call is late.
LEMMA LateStep ==
    ASSUME TypeOK, PoolInv, LoopInv, IdInv, OwnerInv, LateInv, [Next]_vars
    PROVE  LateInv'
<1> USE ConstantsType
<1>0. /\ pc \in [Threads -> {"idle", "borrow", "connect", "lock", "wait", "return"}]
      /\ id \in [Threads -> 0..MaxCalls] /\ buf \in [Threads -> 0..MaxCalls]
  BY Zenon DEF TypeOK
<1>1. \A k : k \in abandoned => k \in abandoned'
  BY AbandonedStays, Zenon
<1>2. /\ \A t \in Threads : buf[t] = 0 \/ buf[t] = id[t] \/ buf[t] \in abandoned
      /\ \A t \in Threads : pc[t] = "idle" \/ pc[t] = "borrow" => buf[t] = 0 \/ buf[t] \in abandoned
  BY Zenon DEF LateInv, ForeignAnswerIsLate
<1>3. SUFFICES /\ \A t \in Threads : buf'[t] = 0 \/ buf'[t] = id'[t] \/ buf'[t] \in abandoned'
               /\ \A t \in Threads : pc'[t] = "idle" \/ pc'[t] = "borrow" =>
                     buf'[t] = 0 \/ buf'[t] \in abandoned'
  BY Zenon DEF LateInv, ForeignAnswerIsLate
<1> DEFINE Goal == /\ \A t \in Threads : buf'[t] = 0 \/ buf'[t] = id'[t] \/ buf'[t] \in abandoned'
                   /\ \A t \in Threads : pc'[t] = "idle" \/ pc'[t] = "borrow" =>
                         buf'[t] = 0 \/ buf'[t] \in abandoned'
<1>4. ASSUME UNCHANGED <<pc, id, buf>>
      PROVE  Goal
  BY <1>1, <1>2, <1>4, Zenon
<1>5. ASSUME NEW t \in Threads, Begin(t) \/ Return(t)
      PROVE  Goal
  <2>1. \A u \in Threads : u # t => pc'[u] = pc[u] /\ buf'[u] = buf[u] /\ id'[u] = id[u]
    BY <1>0, <1>5, ZenonT(30) DEF Begin, Return, Goto
  <2>2. buf'[t] = 0
    BY <1>0, <1>5, Zenon DEF Begin, Return
  <2> QED
    BY <1>1, <1>2, <2>1, <2>2, Zenon
<1>6. ASSUME NEW t \in Threads, Borrow(t)
      PROVE  Goal
  <2>1. pc[t] = "borrow" /\ buf' = buf
    BY <1>6, ZenonT(30) DEF Borrow
  <2>2. \A u \in Threads : u # t => pc'[u] = pc[u] /\ id'[u] = id[u]
    BY <1>0, <1>6, ZenonT(30) DEF Borrow, Lend, Goto
  <2> QED
    BY <1>1, <1>2, <2>1, <2>2, Zenon
<1>7. ASSUME NEW t \in Threads, Connect(t) \/ Lock(t) \/ Wake(t) \/ TimeOut(t)
      PROVE  Goal
  <2>1. UNCHANGED <<id, buf>>
    BY <1>7, Zenon DEF Connect, Lock, Wake, TimeOut
  <2>2. PICK s : pc' = [pc EXCEPT ![t] = s] /\ s # "idle" /\ s # "borrow"
    BY <1>7 DEF Connect, Lock, Wake, TimeOut, Goto
  <2> QED
    BY <1>0, <1>1, <1>2, <2>1, <2>2, Zenon
<1>8. ASSUME NEW l \in Loops, Fill(l)
      PROVE  Goal
  <2>1. /\ buf' = [t \in Threads |-> IF t = target[l] THEN at[l] ELSE buf[t]]
        /\ UNCHANGED <<pc, id>>
    BY <1>8, ZenonT(30) DEF Fill
  <2>2. \A u \in Threads : u # target[l] => buf'[u] = buf[u]
    BY <2>1, ZenonT(30)
  <2>3. target[l] \in Threads => buf'[target[l]] = at[l]
    BY <2>1, Zenon
  <2>4. CASE at[l] \in abandoned
    BY <1>1, <1>2, <2>1, <2>2, <2>3, <2>4, ZenonT(30)
  <2>5. CASE at[l] \notin abandoned
    <3>1. target[l] \in Threads /\ id[target[l]] = at[l] /\ Waits(target[l])
      BY <1>8, <2>5, FillTarget, Zenon
    <3>2. pc[target[l]] # "idle" /\ pc[target[l]] # "borrow"
      BY <3>1 DEF Waits
    <3> QED
      BY <1>1, <1>2, <2>1, <2>2, <2>3, <3>1, <3>2, ZenonT(30)
  <2> QED
    BY <2>4, <2>5, Zenon
<1> QED
  BY <1>4, <1>5, <1>6, <1>7, <1>8, NextGroups, ZenonT(30)
     DEF vars, Send, LockCtx, OnRecvSyncRep, Quiet, caller

-----------------------------------------------------------------------------
(***************************************************************************)
(* The theorems.                                                           *)
(***************************************************************************)
\* The first states satisfy the inductive invariant.
LEMMA InitInv == Init => IInv
<1> SUFFICES ASSUME Init PROVE IInv
  OBVIOUS
<1> USE ConstantsType
<1>1. head \in Seq(Ctxs) /\ Len(head) = InitCount
  BY InitType, Zenon
<1>2. TypeOK
  <2>1. created \subseteq Ctxs
    BY Zenon DEF Init
  <2>2. lost = FALSE /\ timedOut = FALSE /\ abandoned = {}
    BY Zenon DEF Init
  <2>3. conn \in [Calls -> Connection]
    BY ConnectionType, Zenon DEF Init
  <2>5. /\ pc \in [Threads -> {"idle", "borrow", "connect", "lock", "wait", "return"}]
        /\ id \in [Threads -> 0..MaxCalls] /\ mine \in [Threads -> Ctxs \cup {None}]
        /\ ret \in [Threads -> {0, -1, -8}] /\ buf \in [Threads -> 0..MaxCalls]
        /\ calls \in 0..MaxCalls /\ size \in Nat
    BY DEF Init
  <2>6. /\ data \in [Ctxs -> Threads \cup {None}] /\ result \in [Ctxs -> {0, -1}]
        /\ mutex \in [Ctxs -> Threads \cup Loops \cup {None}]
        /\ at \in [Loops -> Calls \cup {None}] /\ target \in [Loops -> Threads \cup {None}]
    BY Zenon DEF Init
  <2> QED
    BY <1>1, <2>1, <2>2, <2>3, <2>5, <2>6, ZenonT(30) DEF TypeOK
<1>3. Holders = {}
  BY Zenon DEF Init, Holders
<1>4. CountInv
  BY <1>1, <1>3, FS_EmptySet DEF Init, CountInv
<1>5. CreatedAll
  BY <1>1, Zenon DEF Init, CreatedAll
<1>6. HolderInside
  BY Zenon DEF Init, HolderInside
<1>7. ContextExclusive
  <2>1. \A t \in Threads, i \in 1..Len(head) : head[i] # mine[t]
    BY <1>1 DEF Init
  <2>2. \A i, j \in 1..Len(head) : head[i] = head[j] => i = j
    BY <1>1, Zenon DEF Init
  <2> QED
    BY <2>1, <2>2, Zenon DEF Init, ContextExclusive
<1>8. HeadIsLentToCrowd
  BY Zenon DEF Init, HeadIsLentToCrowd
<1>9. MutexInv
  BY ZenonT(30) DEF Init, MutexInv
<1>10. IdInv
  BY DEF Init, IdInv
<1>11. LoopInv
  BY ConnectionFields, ZenonT(30) DEF Init, LoopInv, WellFormed
<1>12. DataInv
  BY Zenon DEF Init, DataInv
<1>13. OwnerInv
  BY ConnectionFields, ZenonT(30) DEF Init, OwnerInv
<1>14. BufferInv
  BY Zenon DEF Init, BufferInv, Waits
<1>15. LateInv
  BY Zenon DEF Init, LateInv, ForeignAnswerIsLate
<1> QED
  BY <1>2, <1>4, <1>5, <1>6, <1>7, <1>8, <1>9, <1>10, <1>11, <1>12, <1>13, <1>14, <1>15, SMTT(30)
     DEF IInv, PoolInv, AnswerInv

\* Every step keeps the inductive invariant.
LEMMA NextInv == IInv /\ [Next]_vars => IInv'
<1> SUFFICES ASSUME IInv, [Next]_vars PROVE IInv'
  OBVIOUS
<1>1. /\ TypeOK /\ PoolInv /\ HolderInside /\ MutexInv /\ IdInv /\ LoopInv /\ DataInv
      /\ OwnerInv /\ LateInv /\ (abandoned = {} => BufferInv)
  BY Zenon DEF IInv, AnswerInv, PoolInv
<1>2. TypeOK'
  BY <1>1, TypeStep, Zenon
<1>3. PoolInv'
  BY <1>1, PoolStep, Zenon
<1>4. MutexInv' /\ IdInv' /\ LoopInv' /\ DataInv'
  BY <1>1, <1>2, MutexStep, IdStep, LoopStep, DataStep, Zenon
<1>5. OwnerInv' /\ LateInv'
  BY <1>1, OwnerStep, LateStep, Zenon
<1>6. ASSUME abandoned' = {}
      PROVE  BufferInv'
  <2>1. abandoned = {}
    BY <1>1, <1>6, AbandonedStays, Zenon
  <2> QED
    BY <1>1, <2>1, BufferStep, Zenon
<1> QED
  BY <1>2, <1>3, <1>4, <1>5, <1>6, Zenon DEF IInv, AnswerInv

\* The invariants that the calls are checked for, from the inductive one.
LEMMA InvImplies ==
    IInv => /\ ContextExclusive /\ HeadIsLentToCrowd /\ OwnAnswer /\ ForeignAnswerIsLate
            /\ ShutOnlyAfterTimeout
<1> SUFFICES ASSUME IInv
             PROVE  /\ ContextExclusive /\ HeadIsLentToCrowd /\ OwnAnswer /\ ForeignAnswerIsLate
                    /\ ShutOnlyAfterTimeout
  OBVIOUS
<1>1. ContextExclusive /\ HeadIsLentToCrowd /\ TypeOK /\ HolderInside /\ LoopInv /\ MutexInv
  BY Zenon DEF IInv, PoolInv, AnswerInv
<1>2. OwnAnswer /\ ForeignAnswerIsLate
  BY Zenon DEF IInv, AnswerInv, BufferInv, LateInv, OwnAnswer
<1>3. ASSUME NEW t \in Threads, Shut(t)
      PROVE  timedOut
  <2>1. mine[t] # None /\ mutex[mine[t]] \in Threads
    BY <1>1, <1>3, Zenon DEF HolderInside, Shut
  <2>2. mine[t] \in Ctxs
    BY <1>1, <2>1, Zenon DEF TypeOK
  <2> QED
    BY <1>1, <2>1, <2>2, Zenon DEF MutexInv
<1>4. ASSUME NEW l \in Loops, ShutLoop(l)
      PROVE  timedOut
  <2>1. conn[at[l]].ctx \in Ctxs
    BY <1>1, <1>4, AtCtx, Zenon DEF ShutLoop
  <2> QED
    BY <1>1, <1>4, <2>1, Zenon DEF MutexInv, ShutLoop
<1> QED
  BY <1>1, <1>2, <1>3, <1>4, Zenon DEF ShutOnlyAfterTimeout

\* The types of all variables are kept, for any number of threads, loops and
\* contexts.
THEOREM Typed == SafetySpec => []TypeOK
<1>1. IInv => TypeOK
  BY Zenon DEF IInv
<1> QED
  BY <1>1, InitInv, NextInv, PTL DEF SafetySpec

\* A context of the pool is with one call or once in the list: syncctxpool_borrow
\* and syncctxpool_return never let two calls share one.
THEOREM ContextsAreExclusive == SafetySpec => []ContextExclusive
BY InitInv, NextInv, InvImplies, PTL DEF SafetySpec

\* syncctxpool_borrow takes the head of its empty list for a context only while
\* more than InitCount contexts are lent: its counter is never further off.
THEOREM HeadIsLentOnlyToCrowd == SafetySpec => []HeadIsLentToCrowd
BY InitInv, NextInv, InvImplies, PTL DEF SafetySpec

\* ipc_hv_send_sync that returns 0 has its own answer, until a call has left an
\* open connection behind.
THEOREM AnswersAreOwn == SafetySpec => []OwnAnswer
BY InitInv, NextInv, InvImplies, PTL DEF SafetySpec

\* on_recv_async writes an answer into a buffer of which it is not the answer, be it
\* that of another call or of a call that is over, only if the call it belongs to had
\* left its connection behind.
THEOREM ForeignAnswersAreLate == SafetySpec => []ForeignAnswerIsLate
BY InitInv, NextInv, InvImplies, PTL DEF SafetySpec

\* Only the timeout of ipc_hv_send_sync leaves a mutex locked that shuts out a
\* later call or a loop.
THEOREM OnlyTimeoutShuts == SafetySpec => []ShutOnlyAfterTimeout
BY InitInv, NextInv, InvImplies, PTL DEF SafetySpec
=============================================================================
