------------------------------ MODULE DaemonCall ------------------------------
(***************************************************************************)
(* Synchronous requests of one client process to the registry daemon       *)
(* (send_msg_to_daemon_sync): the pool of contexts the callers wait on,    *)
(* the map of pending requests, and the callbacks of the main loop that    *)
(* complete them.  Any number of threads call at once.                     *)
(*                                                                         *)
(* A request is known by its msg_seqid, and so is the answer to it; what   *)
(* the answer says does not matter here.  The pool is objects_ with the    *)
(* objects made so far; which idle object is at the front does not matter. *)
(***************************************************************************)
EXTENDS Naturals

CONSTANTS
    Threads,    \* threads that call the daemon
    Loop,       \* those that do it from a callback of the main loop
    Ctxs,       \* the contexts the pool may make (_max_num of them)
    Peers,      \* processes the client is connected to as well
    MaxSeq,     \* bound: requests per behaviour
    None        \* no context

ASSUME DaemonCallAssumption ==
    Loop \subseteq Threads /\ None \notin Ctxs /\ MaxSeq \in Nat

VARIABLES
    pc,                 \* where each thread is in its call
    seq,                \* its msg_seqid
    mine,               \* the context its guard holds
    ret,                \* what its last call returned, and the answer it copied
    m_msg_seqid,
    pending_requests,   \* set of <<msg_seqid, context>>
    objects_,           \* idle contexts
    created,            \* contexts made so far, _object_num of them
    ctx,                \* the contexts
    online,             \* client_status and m_daemon_io
    peers,              \* the peers whose connection is up
    toDaemon, toClient  \* requests and answers on their way

call == <<pc, seq, mine, ret>>
pool == <<objects_, created>>
net == <<online, peers, toDaemon, toClient>>
vars == <<pc, seq, mine, ret, m_msg_seqid, pending_requests, objects_, created,
          ctx, online, peers, toDaemon, toClient>>

\* SyncContext::Reset
Reset == [ready |-> FALSE, result |-> "NONE", answer |-> 0]

\* SyncContext::SetResult, after the data was filled in.
Done(r, a) == [ready |-> TRUE, result |-> r, answer |-> a]
SetResult(c, r, a) ==
    [ctx EXCEPT ![c] = Done(r, a)]

Returned(code, a) == [code |-> code, answer |-> a]

Init ==
    /\ pc = [t \in Threads |-> "idle"]
    /\ seq = [t \in Threads |-> 0]
    /\ mine = [t \in Threads |-> None]
    /\ ret = [t \in Threads |-> Returned("NONE", 0)]
    /\ m_msg_seqid = 1
    /\ pending_requests = {}
    /\ \E c \in Ctxs : objects_ = {c} /\ created = {c}
    /\ ctx = [c \in Ctxs |-> Reset]
    /\ online = TRUE /\ peers = Peers
    /\ toDaemon = {} /\ toClient = {}

-----------------------------------------------------------------------------
(***************************************************************************)
(* The caller.                                                             *)
(***************************************************************************)

Goto(t, l) == pc' = [pc EXCEPT ![t] = l]

\* The main loop is one thread: inside a callback it handles nothing else.
LoopIdle == \A t \in Loop : pc[t] = "idle"

\* A callback that calls runs on a message of the daemon.
Begin(t) ==
    /\ pc[t] = "idle" /\ m_msg_seqid <= MaxSeq
    /\ t \in Loop => online /\ LoopIdle
    /\ seq' = [seq EXCEPT ![t] = m_msg_seqid]
    /\ m_msg_seqid' = m_msg_seqid + 1
    /\ ret' = [ret EXCEPT ![t] = Returned("NONE", 0)]
    /\ Goto(t, "borrow")
    /\ UNCHANGED <<mine, pending_requests, pool, ctx, net>>

\* The guard resets the context it got.
Take(t, c) ==
    /\ mine' = [mine EXCEPT ![t] = c]
    /\ ctx' = [ctx EXCEPT ![c] = Reset]
    /\ Goto(t, "insert")

M_TryBorrow(t) ==
    /\ pc[t] = "borrow"
    /\ \/ \E c \in objects_ : Take(t, c) /\ UNCHANGED objects_
       \/ objects_ = {} /\ Goto(t, "create") /\ UNCHANGED <<mine, ctx, objects_>>
    /\ UNCHANGED <<seq, ret, m_msg_seqid, pending_requests, created, net>>

TryBorrow(t) ==
    /\ pc[t] = "borrow"
    /\ \/ \E c \in objects_ : Take(t, c) /\ objects_' = objects_ \ {c}
       \/ objects_ = {} /\ Goto(t, "create") /\ UNCHANGED <<mine, ctx, objects_>>
    /\ UNCHANGED <<seq, ret, m_msg_seqid, pending_requests, created, net>>

\* Borrow looks for an idle object only once before it makes one or waits.
Create(t) ==
    /\ pc[t] = "create"
    /\ \/ \E c \in Ctxs \ created : Take(t, c) /\ created' = created \cup {c}
       \/ created = Ctxs /\ Goto(t, "poolwait") /\ UNCHANGED <<mine, ctx, created>>
    /\ UNCHANGED <<seq, ret, m_msg_seqid, pending_requests, objects_, net>>

\* The wait has no predicate: woken, or woken for nothing, the thread takes an
\* object if one is there, and otherwise goes without one, as after a timeout.
PoolWait(t) ==
    /\ pc[t] = "poolwait"
    /\ \/ \E c \in objects_ : /\ Take(t, c) /\ objects_' = objects_ \ {c}
                              /\ UNCHANGED ret
       \/ /\ ret' = [ret EXCEPT ![t] = Returned("FAIL", 0)]
          /\ Goto(t, "idle")
          /\ UNCHANGED <<mine, ctx, objects_>>
    /\ UNCHANGED <<seq, m_msg_seqid, pending_requests, created, net>>

\* unordered_map::insert: nothing happens when the key is there already.
Insert(t) ==
    /\ pc[t] = "insert"
    /\ pending_requests' =
         IF \E c \in Ctxs : <<seq[t], c>> \in pending_requests
         THEN pending_requests ELSE pending_requests \cup {<<seq[t], mine[t]>>}
    /\ Goto(t, "send")
    /\ UNCHANGED <<seq, mine, ret, m_msg_seqid, pool, ctx, net>>

Fail(t, code) ==
    /\ ret' = [ret EXCEPT ![t] = Returned(code, 0)]
    /\ Goto(t, "erase")

M_Send(t) ==
    /\ pc[t] = "send"
    /\ \/ online /\ Goto(t, "write") /\ UNCHANGED ret
       \/ /\ ~online
          /\ ret' = [ret EXCEPT ![t] = Returned("FAIL", 0)]
          /\ Goto(t, "release")
    /\ UNCHANGED <<seq, mine, m_msg_seqid, pending_requests, pool, ctx, net>>

\* _send_msg_to_daemon_internal looks at the status, encodes, then writes.
Send(t) ==
    /\ pc[t] = "send"
    /\ \/ online /\ Goto(t, "write") /\ UNCHANGED ret
       \/ ~online /\ Fail(t, "FAIL")
    /\ UNCHANGED <<seq, mine, m_msg_seqid, pending_requests, pool, ctx, net>>

Write(t) ==
    /\ pc[t] = "write"
    /\ \/ /\ online
          /\ toDaemon' = toDaemon \cup {seq[t]}
          /\ Goto(t, "wait")
          /\ UNCHANGED ret
       \/ ~online /\ Fail(t, "FAIL") /\ UNCHANGED toDaemon
    /\ UNCHANGED <<seq, mine, m_msg_seqid, pending_requests, pool, ctx, online,
                   peers, toClient>>

Wait(t) ==
    /\ pc[t] = "wait"
    /\ ctx[mine[t]].ready
    /\ \/ ctx[mine[t]].result = "SUCCESS" /\ Goto(t, "copy") /\ UNCHANGED ret
       \/ ctx[mine[t]].result # "SUCCESS" /\ Fail(t, "FAIL")
    /\ UNCHANGED <<seq, mine, m_msg_seqid, pending_requests, pool, ctx, net>>

M_TimeOut(t) == FALSE

TimeOut(t) ==
    /\ pc[t] = "wait"
    /\ ~ctx[mine[t]].ready
    /\ Fail(t, "TIMEOUT")
    /\ UNCHANGED <<seq, mine, m_msg_seqid, pending_requests, pool, ctx, net>>

Copy(t) ==
    /\ pc[t] = "copy"
    /\ ret' = [ret EXCEPT ![t] = Returned("SUCCESS", ctx[mine[t]].answer)]
    /\ Goto(t, "erase")
    /\ UNCHANGED <<seq, mine, m_msg_seqid, pending_requests, pool, ctx, net>>

M_Erase(t) ==
    /\ pc[t] = "erase"
    /\ Goto(t, "release")
    /\ UNCHANGED <<seq, mine, ret, m_msg_seqid, pending_requests, pool, ctx, net>>

Erase(t) ==
    /\ pc[t] = "erase"
    /\ pending_requests' = {e \in pending_requests : e[1] # seq[t]}
    /\ Goto(t, "release")
    /\ UNCHANGED <<seq, mine, ret, m_msg_seqid, pool, ctx, net>>

\* ~SyncContextGuard
Release(t) ==
    /\ pc[t] = "release"
    /\ ctx' = [ctx EXCEPT ![mine[t]] = Reset]
    /\ objects_' = objects_ \cup {mine[t]}
    /\ mine' = [mine EXCEPT ![t] = None]
    /\ Goto(t, "idle")
    /\ UNCHANGED <<seq, ret, m_msg_seqid, pending_requests, created, net>>

-----------------------------------------------------------------------------
(***************************************************************************)
(* The daemon and the callbacks of the client's loops.                     *)
(***************************************************************************)

DaemonAnswer(s) ==
    /\ s \in toDaemon
    /\ toDaemon' = toDaemon \ {s}
    /\ toClient' = toClient \cup {s}
    /\ UNCHANGED <<call, m_msg_seqid, pending_requests, pool, ctx, online, peers>>

M_on_recv_daemon(s) ==
    /\ s \in toClient /\ LoopIdle
    /\ toClient' = toClient \ {s}
    /\ ctx' = [c \in Ctxs |-> IF <<s, c>> \in pending_requests
                              THEN [ctx[c] EXCEPT !.answer = s, !.result = "SUCCESS"]
                              ELSE ctx[c]]
    /\ UNCHANGED <<call, m_msg_seqid, pending_requests, pool, online, peers, toDaemon>>

\* The answer is copied and the context completed under the lock of the map.
on_recv_daemon(s) ==
    /\ s \in toClient /\ LoopIdle
    /\ toClient' = toClient \ {s}
    /\ \/ \E c \in Ctxs : <<s, c>> \in pending_requests
                       /\ ctx' = SetResult(c, "SUCCESS", s)
       \/ (\A c \in Ctxs : <<s, c>> \notin pending_requests) /\ UNCHANGED ctx
    /\ UNCHANGED <<call, m_msg_seqid, pending_requests, pool, online, peers, toDaemon>>

\* on_close of the daemon's io.  Nothing reconnects it.
CloseDaemon ==
    /\ online /\ LoopIdle
    /\ online' = FALSE
    /\ toDaemon' = {} /\ toClient' = {}
    /\ ctx' = [c \in Ctxs |->
                  IF \E e \in pending_requests : e[2] = c
                  THEN Done("DISCONNECTED", ctx[c].answer)
                  ELSE ctx[c]]
    /\ pending_requests' = {}
    /\ UNCHANGED <<call, m_msg_seqid, pool, peers>>

\* on_close of a peer's io clears the daemon's map instead of the peer's.
ClosePeer(p) ==
    /\ p \in peers
    /\ peers' = peers \ {p}
    /\ pending_requests' = {}
    /\ UNCHANGED <<call, m_msg_seqid, pool, ctx, online, toDaemon, toClient>>

Step(t) ==
    \/ TryBorrow(t) \/ Create(t) \/ PoolWait(t) \/ Insert(t) \/ Send(t)
    \/ Write(t) \/ Wait(t) \/ TimeOut(t) \/ Copy(t) \/ Erase(t) \/ Release(t)

Next ==
    \/ \E t \in Threads : Begin(t) \/ Step(t)
    \/ \E s \in toDaemon : DaemonAnswer(s)
    \/ \E s \in toClient : on_recv_daemon(s)
    \/ CloseDaemon
    \/ \E p \in Peers : ClosePeer(p)

\* The threads run, and every wait has a timeout
\* (LOCAL_REGISTRY_COMMUNICATION_TIMEOUT_MS, DEFAULT_OBJECT_POOL_TIMEOUT).
Spec == Init /\ [][Next]_vars /\ \A t \in Threads : WF_vars(Step(t))

-----------------------------------------------------------------------------
(***************************************************************************)
(* Properties.                                                             *)
(***************************************************************************)
Labels == {"idle", "borrow", "create", "poolwait", "insert", "send", "write",
           "wait", "copy", "erase", "release"}
Outcome == [code : {"NONE", "SUCCESS", "FAIL", "TIMEOUT"}, answer : Nat]
SyncContext == [ready : BOOLEAN, result : {"NONE", "SUCCESS", "DISCONNECTED"},
                answer : Nat]

\* Every variable has its type.
TypeOK ==
    /\ pc \in [Threads -> Labels]
    /\ seq \in [Threads -> Nat]
    /\ mine \in [Threads -> Ctxs \cup {None}]
    /\ ret \in [Threads -> Outcome]
    /\ m_msg_seqid \in Nat \ {0}
    /\ pending_requests \subseteq Nat \X Ctxs
    /\ objects_ \subseteq Ctxs /\ created \subseteq Ctxs
    /\ ctx \in [Ctxs -> SyncContext]
    /\ online \in BOOLEAN /\ peers \subseteq Peers
    /\ toDaemon \subseteq Nat /\ toClient \subseteq Nat

\* A call that succeeds returns the answer to its own request: neither a late
\* answer after a timeout nor a context used again gives it another one.
AnswerIsMine ==
    \A t \in Threads : ret[t].code = "SUCCESS" => ret[t].answer = seq[t]

\* A context is in the hands of one caller, or idle in the pool.
ContextExclusive ==
    \A t \in Threads : mine[t] # None =>
       /\ mine[t] \notin objects_
       /\ \A u \in Threads : mine[u] = mine[t] => u = t

\* "This ensures each request has a unique identifier in the map"
\* (ipc_hv_soa_rpc.cpp:127): the context of a request that waits for its answer
\* is in the map under its own msg_seqid.
EachRequestInMap ==
    \A t \in Threads :
       pc[t] = "wait" /\ ~ctx[mine[t]].ready =>
          <<seq[t], mine[t]>> \in pending_requests

\* While no connection to another process has closed, no answer and no
\* disconnect passes a caller by: when nothing of its request is on the way any
\* more, the wait is over.  (on_close of a peer's io empties the daemon's map.)
NoLostAnswer ==
    peers = Peers =>
       \A t \in Threads :
          pc[t] = "wait" /\ seq[t] \notin toDaemon \cup toClient => ctx[mine[t]].ready

\* A call leaves nothing behind, whichever way it ends (an answer, a timeout, a send
\* that fails, a disconnect, a callback that waits for its own loop): an entry of the
\* map is of a call that still holds that context, and a context that is not idle is
\* in the hands of a call, so none is lost to the pool.
CallLeavesNothing ==
    /\ \A e \in pending_requests :
          \E t \in Threads : pc[t] # "idle" /\ e = <<seq[t], mine[t]>>
    /\ \A c \in created \ objects_ : \E t \in Threads : mine[t] = c

\* Every call returns, whatever the daemon does.
CallReturns == \A t \in Threads : pc[t] # "idle" ~> pc[t] = "idle"
=============================================================================
