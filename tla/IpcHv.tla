-------------------------------- MODULE IpcHv --------------------------------
(***************************************************************************)
(* The calls of ipc_hv: every call has a connection of its own, served by  *)
(* one of the worker loops.  A synchronous call lends a context of the C   *)
(* pool (syncctxpool) to the connection and sleeps on it; an asynchronous  *)
(* one leaves a callback.                                                  *)
(*                                                                         *)
(* A call is named by its number, and so is its connection and its answer. *)
(* The buffer of a thread is where its synchronous calls want the answer,  *)
(* which is never empty.                                                   *)
(***************************************************************************)
EXTENDS Integers, Sequences, FiniteSets

CONSTANTS
    Threads,    \* threads that call
    Loops,      \* worker_loops
    Ctxs,       \* the contexts there is memory for
    InitCount,  \* IPC_HV_SYNC_CTX_INIT_COUNT, or what there was memory for
    MaxCalls,   \* bound: calls per behaviour
    None        \* no context, thread, loop or call

Calls == 1..MaxCalls

ASSUME IpcHvAssumption ==
    /\ None \notin Threads \cup Loops \cup Ctxs \cup Calls
    /\ Threads \cap Loops = {}
    /\ IsFiniteSet(Threads) /\ IsFiniteSet(Ctxs)
    /\ InitCount \in 0..Cardinality(Ctxs)
    /\ MaxCalls \in Nat

VARIABLES
    pc, id, mine, ret, buf,   \* of each thread: where it is, its call, its context,
                              \* what the call returns, the answer in its buffer
    calls,                    \* calls begun
    head, size, created,      \* the pool: its list, its counter, its contexts
    data, result, mutex,      \* of each context
    conn,                     \* of each call: its connection
    at, target,               \* of each loop: the answer it is at, and the buffer
                              \* it found for it
    lost,                     \* the head of the empty list was lent
    timedOut, abandoned       \* a call has timed out; the calls that left their
                              \* wait before their connection was closed (history)

caller == <<pc, id, mine, ret, buf, calls>>
pool == <<head, size, created>>
ctx == <<data, result, mutex>>
loops == <<at, target>>
history == <<lost, timedOut, abandoned>>
vars == <<pc, id, mine, ret, buf, calls, head, size, created, data, result, mutex,
          conn, at, target, lost, timedOut, abandoned>>

\* A closed connection is freed.
Closed == [state |-> "closed", kind |-> "SYNC_REQ", ctx |-> None, loop |-> None]
Open(kind, c, l) == [state |-> "connecting", kind |-> kind, ctx |-> c, loop |-> l]
WithState(r, s) == IF s = "closed" THEN Closed ELSE [r EXCEPT !.state = s]
InState(k, s) == [conn EXCEPT ![k] = WithState(conn[k], s)]

\* syncctxpool_create has made InitCount contexts.
Init ==
    /\ pc = [t \in Threads |-> "idle"] /\ id = [t \in Threads |-> 0]
    /\ mine = [t \in Threads |-> None]
    /\ ret = [t \in Threads |-> -1] /\ buf = [t \in Threads |-> 0]
    /\ calls = 0
    /\ head \in {s \in [1..InitCount -> Ctxs] :
                    \A i, j \in 1..InitCount : s[i] = s[j] => i = j}
    /\ size = InitCount
    /\ created = {head[i] : i \in 1..InitCount}
    /\ data = [c \in Ctxs |-> None] /\ result = [c \in Ctxs |-> -1]
    /\ mutex = [c \in Ctxs |-> None]
    /\ conn = [k \in Calls |-> Closed]
    /\ at = [l \in Loops |-> None] /\ target = [l \in Loops |-> None]
    /\ lost = FALSE /\ timedOut = FALSE /\ abandoned = {}

-----------------------------------------------------------------------------
(***************************************************************************)
(* The calling threads.                                                    *)
(***************************************************************************)
Goto(t, l) == pc' = [pc EXCEPT ![t] = l]

\* ipc_hv_send_notify and ipc_hv_send_async: a connection, and no waiting.
Send(kind) ==
    /\ calls < MaxCalls
    /\ calls' = calls + 1
    /\ \/ \E l \in Loops : conn' = [conn EXCEPT ![calls + 1] = Open(kind, None, l)]
       \/ UNCHANGED conn                   \* no memory, no socket, refused
    /\ UNCHANGED <<pc, id, mine, ret, buf, pool, ctx, loops, history>>

Begin(t) ==
    /\ pc[t] = "idle" /\ calls < MaxCalls
    /\ calls' = calls + 1
    /\ id' = [id EXCEPT ![t] = calls + 1]
    /\ buf' = [buf EXCEPT ![t] = 0]
    /\ Goto(t, "borrow")
    /\ UNCHANGED <<mine, ret, pool, ctx, conn, loops, history>>

\* ipc_hv_send_sync writes the fields without the context's mutex.
Lend(t, c) ==
    /\ mine' = [mine EXCEPT ![t] = c]
    /\ data' = [data EXCEPT ![c] = t] /\ result' = [result EXCEPT ![c] = -1]
    /\ Goto(t, "connect")

M_Borrow_keep(t) ==
    /\ pc[t] = "borrow"
    /\ size > 0 /\ head # <<>>
    /\ Lend(t, Head(head))
    /\ size' = size - 1
    /\ UNCHANGED <<id, head, created, lost, ret, buf, calls, mutex, conn, loops,
                   timedOut, abandoned>>

\* syncctxpool_borrow counts a context it creates as free.  With a counter that
\* is not 0 and an empty list it lends the head of the list itself, over which
\* the caller then writes; what the program does from there on is undefined.
Borrow(t) ==
    /\ pc[t] = "borrow"
    /\ \/ /\ size > 0 /\ head # <<>>
          /\ Lend(t, Head(head))
          /\ head' = Tail(head) /\ size' = size - 1
          /\ UNCHANGED <<created, lost>>
       \/ /\ size > 0 /\ head = <<>>
          /\ lost' = TRUE /\ size' = size - 1
          /\ UNCHANGED <<pc, mine, data, result, head, created>>
       \/ /\ size = 0
          /\ \E c \in Ctxs \ created : Lend(t, c) /\ created' = created \cup {c}
          /\ size' = size + 1
          /\ UNCHANGED <<head, lost>>
       \/ /\ size = 0                     \* no memory
          /\ Goto(t, "idle")
          /\ UNCHANGED <<mine, data, result, pool, lost>>
    /\ id' = [id EXCEPT ![t] = IF pc'[t] = "idle" THEN 0 ELSE @]
    /\ UNCHANGED <<ret, buf, calls, mutex, conn, loops, timedOut,
                   abandoned>>

M_Connect(t) ==
    /\ pc[t] = "connect"
    /\ \E l \in Loops :
          conn' = [conn EXCEPT ![id[t]] = Open("SYNC_REQ", mine[t], l)]
    /\ Goto(t, "lock") \/ Goto(t, "return")
    /\ UNCHANGED <<id, mine, ret, buf, calls, pool, ctx, loops, history>>

\* _ipc_hv_send_async.
Connect(t) ==
    /\ pc[t] = "connect"
    /\ \/ /\ \E l \in Loops :
                conn' = [conn EXCEPT ![id[t]] = Open("SYNC_REQ", mine[t], l)]
          /\ Goto(t, "lock")
       \/ Goto(t, "return") /\ UNCHANGED conn
    /\ UNCHANGED <<id, mine, ret, buf, calls, pool, ctx, loops, history>>

\* The mutex checks for errors: to its owner it fails, which is not looked at.
\* The wait lets it go.  It does not ask first whether the answer is there.
Lock(t) ==
    /\ pc[t] = "lock"
    /\ mutex[mine[t]] \in {None, t}
    /\ mutex' = [mutex EXCEPT ![mine[t]] = None]
    /\ Goto(t, "wait")
    /\ UNCHANGED <<id, mine, ret, buf, calls, pool, data, result, conn, loops, history>>

\* The call leaves its wait; its connection stays open.
Abandon(t) ==
    abandoned' = abandoned \cup {k \in {id[t]} : conn[k].state # "closed"}

M_Wake(t) ==
    /\ pc[t] = "wait" /\ mutex[mine[t]] = None
    /\ ret' = [ret EXCEPT ![t] = 0]
    /\ Goto(t, "return")
    /\ Abandon(t)
    /\ UNCHANGED <<id, mine, buf, calls, pool, ctx, conn, loops, lost, timedOut>>

M_Wake_locked(t) ==
    /\ pc[t] = "wait" /\ mutex[mine[t]] = None
    /\ ret' = [ret EXCEPT ![t] = result[mine[t]]]
    /\ mutex' = [mutex EXCEPT ![mine[t]] = t]
    /\ Goto(t, "return")
    /\ Abandon(t)
    /\ UNCHANGED <<id, mine, buf, calls, pool, data, result, conn, loops,
                   lost, timedOut>>

\* Woken, by the signal or by nothing.
Wake(t) ==
    /\ pc[t] = "wait" /\ mutex[mine[t]] = None
    /\ ret' = [ret EXCEPT ![t] = result[mine[t]]]
    /\ Goto(t, "return")
    /\ Abandon(t)
    /\ UNCHANGED <<id, mine, buf, calls, pool, ctx, conn, loops, lost, timedOut>>

\* The wait may end by its time though the answer is there.  The break leaves before
\* the unlock.
TimeOut(t) ==
    /\ pc[t] = "wait" /\ mutex[mine[t]] = None
    /\ ret' = [ret EXCEPT ![t] = -8]
    /\ mutex' = [mutex EXCEPT ![mine[t]] = t]
    /\ Goto(t, "return")
    /\ timedOut' = TRUE
    /\ Abandon(t)
    /\ UNCHANGED <<id, mine, buf, calls, pool, data, result, conn, loops,
                   lost>>

M_Return(t) ==
    /\ pc[t] = "return"
    /\ data' = [data EXCEPT ![mine[t]] = None]
    /\ result' = [result EXCEPT ![mine[t]] = -1]
    /\ head' = <<mine[t]>> \o head /\ size' = size + 2
    /\ mine' = [mine EXCEPT ![t] = None] /\ id' = [id EXCEPT ![t] = 0]
    /\ ret' = [ret EXCEPT ![t] = -1] /\ buf' = [buf EXCEPT ![t] = 0]
    /\ Goto(t, "idle")
    /\ UNCHANGED <<calls, created, mutex, conn, loops, history>>

\* syncctxpool_return, and the end of the call: what it returns is read no more.
Return(t) ==
    /\ pc[t] = "return"
    /\ data' = [data EXCEPT ![mine[t]] = None]
    /\ result' = [result EXCEPT ![mine[t]] = -1]
    /\ head' = <<mine[t]>> \o head /\ size' = size + 1
    /\ mine' = [mine EXCEPT ![t] = None] /\ id' = [id EXCEPT ![t] = 0]
    /\ ret' = [ret EXCEPT ![t] = -1] /\ buf' = [buf EXCEPT ![t] = 0]
    /\ Goto(t, "idle")
    /\ UNCHANGED <<calls, created, mutex, conn, loops, history>>

-----------------------------------------------------------------------------
(***************************************************************************)
(* The worker loops, and the process that is called.                       *)
(***************************************************************************)
Serves(l, k) == conn[k].loop = l /\ at[l] = None

\* on_connect writes; on_write closes a notification and reads for an answer.
OnConnect(l, k) ==
    /\ Serves(l, k) /\ conn[k].state = "connecting"
    /\ conn' = InState(k, IF conn[k].kind = "NOTIFY" THEN "closed" ELSE "sent")
    /\ UNCHANGED <<caller, pool, ctx, loops, history>>

\* on_close_clear: no connection, no answer in time, or closed by the other side.
\* It tells nobody.
OnClose(l, k) ==
    /\ Serves(l, k) /\ conn[k].state \in {"connecting", "sent"}
    /\ conn' = InState(k, "closed")
    /\ UNCHANGED <<caller, pool, ctx, loops, history>>

\* on_recv of the other process.
OnRecv(k) ==
    /\ conn[k].state = "sent"
    /\ conn' = InState(k, "answered")
    /\ UNCHANGED <<caller, pool, ctx, loops, history>>

\* on_recv_async: the callback of an asynchronous call.
OnRecvAsyncRep(l, k) ==
    /\ Serves(l, k) /\ conn[k].state = "answered" /\ conn[k].kind = "ASYNC_REQ"
    /\ conn' = InState(k, "closed")
    /\ UNCHANGED <<caller, pool, ctx, loops, history>>

\* on_recv_async: the loop stands before the context's mutex ...
OnRecvSyncRep(l, k) ==
    /\ Serves(l, k) /\ conn[k].state = "answered" /\ conn[k].kind = "SYNC_REQ"
    /\ at' = [at EXCEPT ![l] = k]
    /\ UNCHANGED <<caller, pool, ctx, conn, target, history>>

\* ... has it, and looks whether there is a buffer ...
LockCtx(l) ==
    /\ at[l] # None /\ mutex[conn[at[l]].ctx] = None
    /\ mutex' = [mutex EXCEPT ![conn[at[l]].ctx] = l]
    /\ target' = [target EXCEPT ![l] = data[conn[at[l]].ctx]]
    /\ UNCHANGED <<caller, pool, data, result, conn, at, history>>

\* ... writes the answer into it, signals, unlocks and closes.
Fill(l) ==
    /\ at[l] # None /\ mutex[conn[at[l]].ctx] = l
    /\ LET c == conn[at[l]].ctx IN
       /\ buf' = [t \in Threads |-> IF t = target[l] THEN at[l] ELSE buf[t]]
       /\ result' = [result EXCEPT ![c] = 0]
       /\ mutex' = [mutex EXCEPT ![c] = None]
    /\ conn' = InState(at[l], "closed")
    /\ at' = [at EXCEPT ![l] = None] /\ target' = [target EXCEPT ![l] = None]
    /\ UNCHANGED <<pc, id, mine, ret, calls, pool, data, history>>

Step(t) == Borrow(t) \/ Connect(t) \/ Lock(t) \/ Wake(t) \/ TimeOut(t) \/ Return(t)

Loop(l) ==
    \/ \E k \in Calls : OnConnect(l, k) \/ OnRecvAsyncRep(l, k) \/ OnRecvSyncRep(l, k)
    \/ LockCtx(l) \/ Fill(l)

Next ==
    /\ ~lost
    /\ \/ \E t \in Threads : Begin(t) \/ Step(t)
       \/ \E kind \in {"NOTIFY", "ASYNC_REQ"} : Send(kind)
       \/ \E l \in Loops : Loop(l) \/ \E k \in Calls : OnClose(l, k)
       \/ \E k \in Calls : OnRecv(k)

\* The threads and the loops run; a wait comes to its end, by its timeout if by
\* nothing else.  The other process need not answer.
Fairness ==
    /\ \A t \in Threads : WF_vars(~lost /\ Step(t))
    /\ \A l \in Loops : WF_vars(~lost /\ Loop(l))

SafetySpec == Init /\ [][Next]_vars

Spec == SafetySpec /\ Fairness

-----------------------------------------------------------------------------
(***************************************************************************)
(* Properties.                                                             *)
(***************************************************************************)
Connection == [state : {"connecting", "sent", "answered", "closed"},
               kind : {"NOTIFY", "ASYNC_REQ", "SYNC_REQ"},
               ctx : Ctxs \cup {None}, loop : Loops \cup {None}]

\* Every variable has its type.
TypeOK ==
    /\ pc \in [Threads -> {"idle", "borrow", "connect", "lock", "wait", "return"}]
    /\ id \in [Threads -> 0..MaxCalls] /\ mine \in [Threads -> Ctxs \cup {None}]
    /\ ret \in [Threads -> {0, -1, -8}] /\ buf \in [Threads -> 0..MaxCalls]
    /\ calls \in 0..MaxCalls
    /\ head \in Seq(Ctxs) /\ size \in Nat /\ created \subseteq Ctxs
    /\ data \in [Ctxs -> Threads \cup {None}] /\ result \in [Ctxs -> {0, -1}]
    /\ mutex \in [Ctxs -> Threads \cup Loops \cup {None}]
    /\ conn \in [Calls -> Connection]
    /\ at \in [Loops -> Calls \cup {None}] /\ target \in [Loops -> Threads \cup {None}]
    /\ lost \in BOOLEAN /\ timedOut \in BOOLEAN /\ abandoned \subseteq 0..MaxCalls

\* A context is lent to one call, or is once in the pool's list.
ContextExclusive ==
    /\ \A t, u \in Threads : mine[t] # None /\ mine[t] = mine[u] => t = u
    /\ \A t \in Threads, i \in 1..Len(head) : head[i] # mine[t]
    /\ \A i, j \in 1..Len(head) : head[i] = head[j] => i = j

\* "free count" (syncctxpool.h:26): the counter of the pool is the number of
\* contexts in its list.
SizeIsFreeCount == size = Len(head)

\* The counter is too high by the contexts that were created on demand, so the
\* head of the list is lent as a context only to a call that finds InitCount + 1
\* others holding one.
HeadIsLentToCrowd ==
    lost => Cardinality({t \in Threads : mine[t] # None}) > InitCount

\* A synchronous call that returns 0 has its own answer in its buffer, as long as
\* no call has left a connection behind that may still answer.
OwnAnswer == abandoned = {} => \A t \in Threads : ret[t] = 0 => buf[t] = id[t]

\* A buffer never gets the answer of a call that did not want it there, unless that
\* call had left its connection behind: on_recv_async writes into the buffer of
\* another call, or of a thread whose call is over, only when it is late.
ForeignAnswerIsLate ==
    \A t \in Threads : buf[t] \in {0, id[t]} \cup abandoned

\* The mutex before which a call, or a loop, stands was left locked by a call.
Shut(t) == pc[t] = "lock" /\ mutex[mine[t]] \in Threads \ {t}
ShutLoop(l) == at[l] # None /\ mutex[conn[at[l]].ctx] \in Threads

\* A mutex that keeps a call or a loop out for ever was left locked by a call that
\* timed out; no other way of a call's end leaves one locked.
ShutOnlyAfterTimeout ==
    (\E t \in Threads : Shut(t)) \/ (\E l \in Loops : ShutLoop(l)) => timedOut

\* A synchronous call returns, though its answer be lost, late, or signalled
\* before it waits; unless a call that timed out has kept the mutex.
CallReturns == \A t \in Threads : pc[t] # "idle" ~> pc[t] = "idle" \/ Shut(t) \/ lost

\* A loop that has an answer is done with it, unless the mutex was kept.
LoopComesBack ==
    \A l \in Loops : at[l] # None ~> at[l] = None \/ ShutLoop(l) \/ lost
=============================================================================
