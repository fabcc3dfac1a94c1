------------------------------ MODULE ProcessCall ------------------------------
(***************************************************************************)
(* Synchronous method calls of one process to a provider process           *)
(* (ipc_hv_soa_method_sync, send_msg_to_process_sync): the connection to   *)
(* the provider, made again when it is down; the contexts the callers wait *)
(* on; and the worker loop that completes them in                          *)
(* ipc_hv_soa_inn_sync_complete.                                           *)
(*                                                                         *)
(* Requests go out on client_send_io; answers come in on client_recv_io,   *)
(* the provider's own connection, in the order in which the provider       *)
(* completes them.  id numbers the calls; the program has only seqid.      *)
(***************************************************************************)
EXTENDS Naturals

CONSTANTS
    Threads,    \* threads that call the provider
    Ctxs,       \* the contexts the pool may make
    Timeouts,   \* whether the calls have a timeout (timeout_ms # 0)
    MaxCalls,   \* bound: calls per behaviour
    MaxCloses,  \* bound: connections the other side closes
    None        \* no context

ASSUME ProcessCallAssumption ==
    /\ None \notin Ctxs
    /\ Timeouts \in BOOLEAN
    /\ MaxCalls \in Nat /\ MaxCloses \in Nat

VARIABLES
    pc, seq, id, mine, ret,   \* of each thread, as in DaemonCall
    calls,              \* calls begun
    msg_seqid, client_status, client_send_io, client_recv_io,
    connected,          \* connect_ctx is completed
    pending_requests,   \* set of <<msg_seqid, context>>
    objects_, created,  \* the pool
    ctx,                \* the contexts
    completing,         \* what ipc_hv_soa_inn_sync_complete is at
    requests,           \* on the way to the provider
    accepted,           \* read by the provider, not answered
    responses,          \* on the way back
    closes,
    timedOut            \* a call has timed out (history)

call == <<pc, seq, id, mine, ret>>
conn == <<msg_seqid, client_status, client_send_io, client_recv_io, connected>>
pool == <<objects_, created>>
net == <<requests, accepted, responses, closes, timedOut>>
vars == <<pc, seq, id, mine, ret, calls, msg_seqid, client_status, client_send_io,
          client_recv_io, connected, pending_requests, objects_, created, ctx,
          completing, requests, accepted, responses, closes, timedOut>>

Reset == [ready |-> FALSE, result |-> "NONE", answer |-> 0]
Filled(c, a) == [c EXCEPT !.answer = a]
Done(c, result) == [c EXCEPT !.ready = TRUE, !.result = result]
Returned(code, a) == [code |-> code, answer |-> a]
Idle == [at |-> "idle", ctx |-> None, id |-> 0]

\* The provider was found and connected by get_service.
Init ==
    /\ pc = [t \in Threads |-> "idle"]
    /\ seq = [t \in Threads |-> 0] /\ id = [t \in Threads |-> 0]
    /\ mine = [t \in Threads |-> None]
    /\ ret = [t \in Threads |-> Returned("NONE", 0)]
    /\ calls = 0
    /\ msg_seqid = 1 /\ client_status = "ONLINE"
    /\ client_send_io = "open" /\ client_recv_io = TRUE
    /\ connected = TRUE
    /\ pending_requests = {}
    /\ \E c \in Ctxs : objects_ = {c} /\ created = {c}
    /\ ctx = [c \in Ctxs |-> Reset]
    /\ completing = Idle
    /\ requests = {} /\ accepted = {} /\ responses = {}
    /\ closes = 0 /\ timedOut = FALSE

-----------------------------------------------------------------------------
(***************************************************************************)
(* The caller.                                                             *)
(***************************************************************************)

Goto(t, l) == pc' = [pc EXCEPT ![t] = l]

Return(t, code) ==
    /\ ret' = [ret EXCEPT ![t] = Returned(code, 0)]
    /\ Goto(t, "idle")

Fail(t, code) ==
    /\ ret' = [ret EXCEPT ![t] = Returned(code, 0)]
    /\ Goto(t, "erase")

\* ipc_hv_soa_method_sync draws the msg_seqid before the connection is looked at.
Begin(t) ==
    /\ pc[t] = "idle" /\ calls < MaxCalls
    /\ calls' = calls + 1
    /\ id' = [id EXCEPT ![t] = calls + 1]
    /\ seq' = [seq EXCEPT ![t] = msg_seqid]
    /\ msg_seqid' = msg_seqid + 1
    /\ ret' = [ret EXCEPT ![t] = Returned("NONE", 0)]
    /\ Goto(t, "check")
    /\ UNCHANGED <<mine, client_status, client_send_io, client_recv_io, connected,
                   pending_requests, pool, ctx, completing, net>>

Usable ==
    /\ client_status = "ONLINE"
    /\ client_send_io \in {"connecting", "opening", "open"}   \* hio_is_opened

Check(t) ==
    /\ pc[t] = "check"
    /\ Goto(t, IF Usable THEN "borrow" ELSE "connect")
    /\ UNCHANGED <<seq, id, mine, ret, calls, conn, pending_requests, pool, ctx,
                   completing, net>>

\* connect_with_process_client closes the io it finds, and gives up.
Connect(t) ==
    /\ pc[t] = "connect"
    /\ \/ /\ client_send_io = "null"
          /\ Goto(t, "create")
          /\ UNCHANGED <<client_send_io, ret>>
       \/ /\ client_send_io # "null"
          /\ client_send_io' = "closing"
          /\ Return(t, "FAIL")
    /\ UNCHANGED <<seq, id, mine, calls, msg_seqid, client_status, client_recv_io,
                   connected, pending_requests, pool, ctx, completing, net>>

\* A new io; the one another thread made since is forgotten.
CreateIo(t) ==
    /\ pc[t] = "create"
    /\ msg_seqid' = 1
    /\ connected' = FALSE
    /\ \/ client_send_io' = "connecting" /\ Goto(t, "connwait") /\ UNCHANGED ret
       \/ client_send_io' = "closing" /\ Return(t, "FAIL")     \* refused
    /\ UNCHANGED <<seq, id, mine, calls, client_status, client_recv_io,
                   pending_requests, pool, ctx, completing, net>>

\* connect_ctx may be gone when on_close ran: then the wait ends by its timeout.
ConnWait(t) ==
    /\ pc[t] = "connwait"
    /\ \/ connected /\ client_status' = "ONLINE" /\ Goto(t, "borrow") /\ UNCHANGED ret
       \/ ~connected /\ Return(t, "TIMEOUT") /\ UNCHANGED client_status
    /\ UNCHANGED <<seq, id, mine, calls, msg_seqid, client_send_io, client_recv_io,
                   connected, pending_requests, pool, ctx, completing, net>>

\* SyncContextPool::Borrow (see DaemonCall for its steps) and the guard's Reset.
Take(t, c) ==
    /\ mine' = [mine EXCEPT ![t] = c]
    /\ ctx' = [ctx EXCEPT ![c] = Reset]
    /\ Goto(t, "insert")

M_Borrow(t) ==
    /\ pc[t] = "borrow"
    /\ \/ \E c \in objects_ : Take(t, c) /\ UNCHANGED <<created, objects_, ret>>
       \/ \E c \in Ctxs \ created : /\ Take(t, c) /\ created' = created \cup {c}
                                    /\ UNCHANGED <<objects_, ret>>
       \/ created = Ctxs /\ Return(t, "FAIL") /\ UNCHANGED <<mine, ctx, pool>>
    /\ UNCHANGED <<seq, id, calls, conn, pending_requests, completing, net>>

Borrow(t) ==
    /\ pc[t] = "borrow"
    /\ \/ \E c \in objects_ : /\ Take(t, c) /\ objects_' = objects_ \ {c}
                              /\ UNCHANGED <<created, ret>>
       \/ \E c \in Ctxs \ created : /\ Take(t, c) /\ created' = created \cup {c}
                                    /\ UNCHANGED <<objects_, ret>>
       \/ created = Ctxs /\ Return(t, "FAIL") /\ UNCHANGED <<mine, ctx, pool>>
    /\ UNCHANGED <<seq, id, calls, conn, pending_requests, completing, net>>

Insert(t) ==
    /\ pc[t] = "insert"
    /\ pending_requests' =
         IF \E c \in Ctxs : <<seq[t], c>> \in pending_requests
         THEN pending_requests ELSE pending_requests \cup {<<seq[t], mine[t]>>}
    /\ Goto(t, "write")
    /\ UNCHANGED <<seq, id, mine, ret, calls, conn, pool, ctx, completing, net>>

\* A write before the connection is up closes the io.
Write(t) ==
    /\ pc[t] = "write"
    /\ \/ /\ client_send_io \in {"opening", "open"}
          /\ requests' = requests \cup {[seq |-> seq[t], id |-> id[t]]}
          /\ Goto(t, "wait")
          /\ UNCHANGED <<ret, client_send_io>>
       \/ /\ client_send_io \in {"null", "connecting", "closing"}
          /\ client_send_io' = IF client_send_io = "null" THEN "null" ELSE "closing"
          /\ Fail(t, "FAIL")
          /\ UNCHANGED requests
    /\ UNCHANGED <<seq, id, mine, calls, msg_seqid, client_status, client_recv_io,
                   connected, pending_requests, pool, ctx, completing, accepted,
                   responses, closes, timedOut>>

Wait(t) ==
    /\ pc[t] = "wait"
    /\ ctx[mine[t]].ready
    /\ \/ ctx[mine[t]].result = "SUCCESS" /\ Goto(t, "copy") /\ UNCHANGED ret
       \/ ctx[mine[t]].result # "SUCCESS" /\ Fail(t, "FAIL")
    /\ UNCHANGED <<seq, id, mine, calls, conn, pending_requests, pool, ctx,
                   completing, net>>

TimeOut(t) ==
    /\ Timeouts
    /\ pc[t] = "wait"
    /\ ~ctx[mine[t]].ready
    /\ Fail(t, "TIMEOUT")
    /\ timedOut' = TRUE
    /\ UNCHANGED <<seq, id, mine, calls, conn, pending_requests, pool, ctx,
                   completing, requests, accepted, responses, closes>>

Copy(t) ==
    /\ pc[t] = "copy"
    /\ ret' = [ret EXCEPT ![t] = Returned("SUCCESS", ctx[mine[t]].answer)]
    /\ Goto(t, "erase")
    /\ UNCHANGED <<seq, id, mine, calls, conn, pending_requests, pool, ctx,
                   completing, net>>

M_Erase(t) ==
    /\ pc[t] = "erase"
    /\ Goto(t, "release")
    /\ UNCHANGED <<seq, id, mine, ret, calls, conn, pending_requests, pool, ctx,
                   completing, net>>

Erase(t) ==
    /\ pc[t] = "erase"
    /\ pending_requests' = {e \in pending_requests : e[1] # seq[t]}
    /\ Goto(t, "release")
    /\ UNCHANGED <<seq, id, mine, ret, calls, conn, pool, ctx, completing, net>>

Release(t) ==
    /\ pc[t] = "release"
    /\ ctx' = [ctx EXCEPT ![mine[t]] = Reset]
    /\ objects_' = objects_ \cup {mine[t]}
    /\ mine' = [mine EXCEPT ![t] = None]
    /\ Goto(t, "idle")
    /\ UNCHANGED <<seq, id, ret, calls, conn, pending_requests, created, completing,
                   net>>

-----------------------------------------------------------------------------
(***************************************************************************)
(* The loops of the process.                                               *)
(***************************************************************************)

\* ipc_hv_soa_inn_sync_complete takes the context out of the map, fills it in,
\* and completes it, under a different lock each time.
Lookup(r) ==
    /\ client_recv_io /\ r \in responses /\ completing.at = "idle"
    /\ responses' = responses \ {r}
    /\ \/ \E c \in Ctxs :
             /\ <<r.seq, c>> \in pending_requests
             /\ pending_requests' = pending_requests \ {<<r.seq, c>>}
             /\ completing' = [at |-> "fill", ctx |-> c, id |-> r.id]
       \/ /\ \A c \in Ctxs : <<r.seq, c>> \notin pending_requests
          /\ UNCHANGED <<pending_requests, completing>>
    /\ UNCHANGED <<call, calls, conn, pool, ctx, requests, accepted, closes, timedOut>>

M_Fill ==
    /\ completing.at = "fill"
    /\ completing' = [completing EXCEPT !.at = "set"]
    /\ UNCHANGED <<call, calls, conn, pending_requests, pool, ctx, net>>

Fill ==
    /\ completing.at = "fill"
    /\ ctx' = [ctx EXCEPT ![completing.ctx] = Filled(@, completing.id)]
    /\ completing' = [completing EXCEPT !.at = "set"]
    /\ UNCHANGED <<call, calls, conn, pending_requests, pool, net>>

M_SetResult ==
    /\ completing.at = "set"
    /\ ctx' = [ctx EXCEPT ![completing.ctx].result = "SUCCESS"]
    /\ completing' = Idle
    /\ UNCHANGED <<call, calls, conn, pending_requests, pool, net>>

SetResult ==
    /\ completing.at = "set"
    /\ ctx' = [ctx EXCEPT ![completing.ctx] = Done(@, "SUCCESS")]
    /\ completing' = Idle
    /\ UNCHANGED <<call, calls, conn, pending_requests, pool, net>>

\* on_connect: ONLINE first, then the map is cleared, then the waiter is woken.
OnConnect ==
    /\ client_send_io = "connecting"
    /\ client_send_io' = "opening"
    /\ client_status' = "ONLINE"
    /\ UNCHANGED <<call, calls, msg_seqid, client_recv_io, connected,
                   pending_requests, pool, ctx, completing, net>>

OnConnectClear ==
    /\ client_send_io = "opening"
    /\ client_send_io' = "open"
    /\ pending_requests' = {}
    /\ connected' = TRUE
    /\ UNCHANGED <<call, calls, msg_seqid, client_status, client_recv_io, pool, ctx,
                   completing, net>>

\* on_close of client_send_io completes the contexts in the map and leaves them
\* there: what it clears is another map.
OnCloseSend ==
    /\ client_send_io = "closing"
    /\ client_send_io' = "null"
    /\ connected' = FALSE
    /\ client_status' = "OFFLINE"
    /\ ctx' = [c \in Ctxs |->
                  IF \E e \in pending_requests : e[2] = c
                  THEN Done(ctx[c], "DISCONNECTED") ELSE ctx[c]]
    /\ requests' = {}
    /\ UNCHANGED <<call, calls, msg_seqid, client_recv_io, pending_requests, pool,
                   completing, accepted, responses, closes, timedOut>>

OnCloseRecv ==
    /\ client_recv_io /\ closes < MaxCloses
    /\ closes' = closes + 1
    /\ client_recv_io' = FALSE
    /\ client_status' = "OFFLINE"
    /\ responses' = {}
    /\ UNCHANGED <<call, calls, msg_seqid, client_send_io, connected,
                   pending_requests, pool, ctx, completing, requests, accepted, timedOut>>

\* on_accept, find_and_save_process_client: the provider connected again.
OnAccept ==
    /\ ~client_recv_io
    /\ client_recv_io' = TRUE
    /\ client_status' = "ONLINE"
    /\ UNCHANGED <<call, calls, msg_seqid, client_send_io, connected,
                   pending_requests, pool, ctx, completing, net>>

-----------------------------------------------------------------------------
(***************************************************************************)
(* The provider and the connections.                                       *)
(***************************************************************************)

\* The provider closes the connection the requests come in on.
PeerClose ==
    /\ client_send_io = "open" /\ closes < MaxCloses
    /\ closes' = closes + 1
    /\ client_send_io' = "closing"
    /\ UNCHANGED <<call, calls, msg_seqid, client_status, client_recv_io, connected,
                   pending_requests, pool, ctx, completing, requests, accepted,
                   responses, timedOut>>

Accept(r) ==
    /\ r \in requests
    /\ requests' = requests \ {r} /\ accepted' = accepted \cup {r}
    /\ UNCHANGED <<call, calls, conn, pending_requests, pool, ctx, completing,
                   responses, closes, timedOut>>

\* ipc_hv_soa_method_complete, at a time of the provider's choosing.
Answer(r) ==
    /\ client_recv_io /\ r \in accepted
    /\ accepted' = accepted \ {r} /\ responses' = responses \cup {r}
    /\ UNCHANGED <<call, calls, conn, pending_requests, pool, ctx, completing,
                   requests, closes, timedOut>>

Step(t) ==
    \/ Check(t) \/ Connect(t) \/ CreateIo(t) \/ ConnWait(t) \/ Borrow(t) \/ Insert(t)
    \/ Write(t) \/ Wait(t) \/ TimeOut(t) \/ Copy(t) \/ Erase(t) \/ Release(t)

Loop ==
    \/ \E r \in responses : Lookup(r)
    \/ Fill \/ SetResult \/ OnConnect \/ OnConnectClear \/ OnCloseSend

Provider ==
    \/ \E r \in requests : Accept(r)
    \/ \E r \in accepted : Answer(r)

Next ==
    \/ \E t \in Threads : Begin(t) \/ Step(t)
    \/ Loop \/ Provider
    \/ OnCloseRecv \/ OnAccept \/ PeerClose

Spec == Init /\ [][Next]_vars

-----------------------------------------------------------------------------
(***************************************************************************)
(* Properties.                                                             *)
(***************************************************************************)
Labels == {"idle", "check", "connect", "create", "connwait", "borrow", "insert",
           "write", "wait", "copy", "erase", "release"}
Outcome == [code : {"NONE", "SUCCESS", "FAIL", "TIMEOUT"}, answer : Nat]
SyncContext == [ready : BOOLEAN, result : {"NONE", "SUCCESS", "DISCONNECTED"},
                answer : Nat]
Request == [seq : Nat, id : Nat]

\* Every variable has its type.
TypeOK ==
    /\ pc \in [Threads -> Labels]
    /\ seq \in [Threads -> Nat] /\ id \in [Threads -> Nat]
    /\ mine \in [Threads -> Ctxs \cup {None}]
    /\ ret \in [Threads -> Outcome]
    /\ calls \in Nat /\ msg_seqid \in Nat /\ closes \in Nat /\ timedOut \in BOOLEAN
    /\ client_status \in {"ONLINE", "OFFLINE"}
    /\ client_send_io \in {"null", "connecting", "opening", "open", "closing"}
    /\ client_recv_io \in BOOLEAN /\ connected \in BOOLEAN
    /\ pending_requests \subseteq Nat \X Ctxs
    /\ objects_ \subseteq Ctxs /\ created \subseteq Ctxs
    /\ ctx \in [Ctxs -> SyncContext]
    /\ completing \in [at : {"idle", "fill", "set"}, ctx : Ctxs \cup {None}, id : Nat]
    /\ requests \subseteq Request /\ accepted \subseteq Request
    /\ responses \subseteq Request

\* A context is in the hands of one caller, or idle in the pool.
ContextExclusive ==
    \A t \in Threads : mine[t] # None =>
       /\ mine[t] \notin objects_
       /\ \A u \in Threads : mine[u] = mine[t] => u = t

\* A context leaves the map before it goes back to the pool: whatever is in the
\* map is held by a caller that stored it under its own msg_seqid.
PendingOwned ==
    \A e \in pending_requests :
       \E t \in Threads : mine[t] = e[2] /\ seq[t] = e[1]

\* A call that succeeds returns the answer to its own request.  The code says it
\* of the completion: "Set result to wake up the waiting thread", the context of
\* which it found "by msg_seqid" (ipc_hv_soa_rpc.cpp:829, :790).
AnswerIsMine ==
    \A t \in Threads : ret[t].code = "SUCCESS" => ret[t].answer = id[t]

\* So it is on a connection that has stayed up, as long as no call timed out,
\* in whatever order the provider answers.
SteadyAnswerIsMine == closes = 0 /\ ~timedOut => AnswerIsMine

\* "Store context in pending_requests map for later completion"
\* (ipc_hv_soa_rpc.cpp:517): the context of a request that waits, and that nobody
\* is completing, is in the map under its msg_seqid.
ContextStored ==
    \A t \in Threads :
       pc[t] = "wait" /\ ~ctx[mine[t]].ready /\ completing.ctx # mine[t] =>
          <<seq[t], mine[t]>> \in pending_requests

\* "Search for the waiting context in pending_requests by msg_seqid"
\* (ipc_hv_soa_rpc.cpp:790): a msg_seqid names one waiting request.
SeqidNamesOneRequest ==
    \A t, u \in Threads :
       pc[t] = "wait" /\ pc[u] = "wait" /\ seq[t] = seq[u] => t = u

\* On a connection that has stayed up, when nothing of a request is on the way
\* any more, its wait is over; other callers' timeouts do not matter.
NoLostAnswer ==
    closes = 0 =>
       \A t \in Threads :
          /\ pc[t] = "wait"
          /\ \A r \in requests \cup accepted \cup responses : r.id # id[t]
          /\ completing.id # id[t]
          => ctx[mine[t]].ready
=============================================================================
