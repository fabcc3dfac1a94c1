-------------------------- MODULE ProcessCallProofs --------------------------
(***************************************************************************)
(* Calls between processes, for any number of threads, contexts, calls and *)
(* closes.                                                                 *)
(*                                                                         *)
(* The contexts: a context in the map belongs to a caller between Insert   *)
(* and Erase (PendingListed), so none is in the map when it is given back. *)
(* On a connection that stays up a msg_seqid is the number of the call     *)
(* (SteadyInv), so it names one caller; then an answer finds the context   *)
(* of its request, and it stays to be found until it is there (OnTheWay).  *)
(* Without timeouts the caller is still waiting when it is completed       *)
(* (AnswerInv).                                                            *)
(***************************************************************************)
EXTENDS ProcessCall, TLAPS

Holding == {"insert", "write", "wait", "copy", "erase", "release"}
Listed == {"write", "wait", "copy", "erase"}
Before == {"check", "borrow", "insert", "write"}
Net == requests \cup accepted \cup responses

\* A thread holds a context exactly between Borrow and Release.
HoldsWhileCalling == \A t \in Threads : pc[t] \in Holding <=> mine[t] # None

PoolOwned ==
    /\ objects_ \subseteq created
    /\ \A t \in Threads : mine[t] # None => mine[t] \in created

PendingListed ==
    \A s \in Nat, c \in Ctxs : <<s, c>> \in pending_requests =>
       \E t \in Threads : pc[t] \in Listed /\ mine[t] = c /\ seq[t] = s

PoolInv == HoldsWhileCalling /\ PoolOwned /\ ContextExclusive /\ PendingListed

\* What a connection that has stayed up guarantees: it is never made again, and a
\* msg_seqid is the number of the call.
ConnectionUp ==
    /\ client_send_io = "open" /\ client_status = "ONLINE" /\ client_recv_io
    /\ \A t \in Threads : pc[t] \notin {"connect", "create", "connwait"}

Numbered ==
    /\ msg_seqid = calls + 1
    /\ \A t \in Threads : /\ seq[t] = id[t] /\ id[t] <= calls
                          /\ pc[t] # "idle" => id[t] > 0
    /\ \A t, u \in Threads : id[t] = id[u] /\ id[t] > 0 => t = u

\* Nothing is under way for a call that has not written its request.
NotEarly ==
    /\ \A r \in Net : r.seq = r.id /\ r.id > 0 /\ r.id <= calls
    /\ completing.id <= calls
    /\ completing.at # "idle" => completing.id > 0
    /\ completing.at = "idle" => completing.id = 0
    /\ \A t \in Threads : pc[t] \in Before =>
          (\A r \in Net : r.id # id[t]) /\ completing.id # id[t]

\* The context of a request that waits is completed, or being completed, or is in
\* the map with the request or its answer under way.
OnTheWay(t) ==
    \/ ctx[mine[t]].ready
    \/ <<seq[t], mine[t]>> \in pending_requests /\ \E r \in Net : r.id = id[t]
    \/ completing.at # "idle" /\ completing.id = id[t] /\ completing.ctx = mine[t]

InMap ==
    \A t \in Threads : /\ pc[t] = "write" => <<seq[t], mine[t]>> \in pending_requests
                       /\ pc[t] = "wait" => OnTheWay(t)

SteadyInv == ConnectionUp /\ Numbered /\ NotEarly /\ InMap

\* And without timeouts: whoever is completed still waits, for this answer.
CompletesWaiter ==
    completing.at # "idle" =>
       \E t \in Threads : /\ pc[t] = "wait" /\ mine[t] = completing.ctx
                          /\ id[t] = completing.id
                          /\ completing.at = "set" => ctx[mine[t]].answer = id[t]

Unanswered(c) == ~ctx[c].ready /\ (completing.at # "idle" => c # completing.ctx)

ReadyIsMine ==
    /\ completing.at # "idle" => ~ctx[completing.ctx].ready
    /\ \A s \in Nat, c \in Ctxs : <<s, c>> \in pending_requests => Unanswered(c)
    /\ \A t \in Threads : mine[t] # None =>
          /\ ctx[mine[t]].ready => ctx[mine[t]].answer = id[t]
          /\ pc[t] \in {"copy", "erase", "release"} => ctx[mine[t]].ready
          /\ pc[t] \in {"insert", "write"} => ~ctx[mine[t]].ready

AnswerInv == CompletesWaiter /\ ReadyIsMine /\ AnswerIsMine

-----------------------------------------------------------------------------
\* The initial states satisfy the types and the invariants.
LEMMA InitCall ==
  Init => TypeOK /\ PoolInv /\ SteadyInv /\ AnswerInv
<1> SUFFICES ASSUME Init  PROVE TypeOK /\ PoolInv /\ SteadyInv /\ AnswerInv
  OBVIOUS
<1> USE ProcessCallAssumption DEF Init, Reset, Returned, Idle
<1>1. TypeOK
  BY Zenon DEF TypeOK, Labels, Outcome, SyncContext
<1>2. PoolInv
  BY Zenon DEF PoolInv, HoldsWhileCalling, Holding, PoolOwned, ContextExclusive, PendingListed
<1>3. SteadyInv
  BY DEF SteadyInv, ConnectionUp, Numbered, NotEarly, InMap, Net, Before
<1>4. AnswerInv
  BY Zenon DEF AnswerInv, CompletesWaiter, ReadyIsMine, Unanswered, AnswerIsMine
<1> QED  BY <1>1, <1>2, <1>3, <1>4, Zenon

\* Values of the kinds the steps store.
LEMMA TypeParts ==
  /\ Reset \in SyncContext
  /\ \A code \in {"NONE", "SUCCESS", "FAIL", "TIMEOUT"}, a \in Nat :
        Returned(code, a) \in Outcome
  /\ \A c \in SyncContext : c.answer \in Nat
  /\ Idle \in [at : {"idle", "fill", "set"}, ctx : Ctxs \cup {None}, id : Nat]
  BY Zenon DEF Reset, Returned, Outcome, SyncContext, Idle

\* A context is filled in, and completed.
LEMMA ContextParts ==
  ASSUME NEW c \in SyncContext
  PROVE  /\ \A a \in Nat : /\ Filled(c, a) \in SyncContext
                           /\ Filled(c, a).answer = a
                           /\ Filled(c, a).ready = c.ready
         /\ \A r \in {"NONE", "SUCCESS", "DISCONNECTED"} :
               /\ Done(c, r) \in SyncContext
               /\ Done(c, r).ready = TRUE
               /\ Done(c, r).answer = c.answer
  BY Zenon DEF Filled, Done, SyncContext

\* A thread moves to another label.
LEMMA GotoLabel ==
  ASSUME TypeOK, NEW t \in Threads, NEW l \in Labels, Goto(t, l)
  PROVE  /\ pc' \in [Threads -> Labels]
         /\ pc'[t] = l
         /\ \A u \in Threads \ {t} : pc'[u] = pc[u]
  BY Zenon DEF TypeOK, Goto

\* What a thread returns, the others do not see.
LEMMA RetOther ==
  ASSUME TypeOK, NEW t \in Threads, NEW code \in {"NONE", "SUCCESS", "FAIL", "TIMEOUT"},
         NEW a \in Nat, ret' = [ret EXCEPT ![t] = Returned(code, a)]
  PROVE  /\ ret' \in [Threads -> Outcome]
         /\ ret'[t].code = code /\ ret'[t].answer = a
         /\ \A u \in Threads \ {t} : ret'[u] = ret[u]
<1>1. /\ ret'[t] = Returned(code, a) /\ \A u \in Threads \ {t} : ret'[u] = ret[u]
      /\ ret' \in [Threads -> Outcome]
  BY TypeParts, Zenon DEF TypeOK
<1> QED  BY <1>1, Zenon DEF Returned

\* Every step keeps the types.
LEMMA TypeStep == TypeOK /\ HoldsWhileCalling /\ [Next]_vars => TypeOK'
<1> SUFFICES ASSUME TypeOK, HoldsWhileCalling, [Next]_vars
             PROVE  TypeOK'
  OBVIOUS
<1>l. Labels = {"idle", "check", "connect", "create", "connwait", "borrow", "insert",
                "write", "wait", "copy", "erase", "release"}
  BY Zenon DEF Labels
<1>h. \A t \in Threads : pc[t] \in Holding => mine[t] \in Ctxs
  BY Zenon DEF HoldsWhileCalling, TypeOK
<1>g. ASSUME NEW t \in Threads, NEW l \in Labels, Goto(t, l)  PROVE pc' \in [Threads -> Labels]
  BY <1>g, GotoLabel, Zenon
<1>r. ASSUME NEW t \in Threads, NEW code \in {"FAIL", "TIMEOUT"},
             Return(t, code) \/ Fail(t, code)
      PROVE  pc' \in [Threads -> Labels] /\ ret' \in [Threads -> Outcome]
  <2>1. ret' = [ret EXCEPT ![t] = Returned(code, 0)] /\ (Goto(t, "idle") \/ Goto(t, "erase"))
    BY <1>r, Zenon DEF Return, Fail
  <2> QED  BY <2>1, <1>g, <1>l, RetOther, Zenon
<1> USE TypeParts DEF TypeOK
<1>1. ASSUME NEW t \in Threads, Begin(t)  PROVE TypeOK'
  <2>1. pc' \in [Threads -> Labels] /\ ret' \in [Threads -> Outcome]
    BY <1>1, <1>g, <1>l, Zenon DEF Begin
  <2> QED  BY <1>1, <2>1 DEF Begin, pool, net
<1>2. ASSUME NEW t \in Threads, Check(t)  PROVE TypeOK'
  <2>1. pc' \in [Threads -> Labels]
    BY <1>2, <1>g, <1>l, Zenon DEF Check
  <2> QED  BY <1>2, <2>1 DEF Check, conn, pool, net
<1>3. ASSUME NEW t \in Threads, Connect(t)  PROVE TypeOK'
  <2>1. pc' \in [Threads -> Labels] /\ ret' \in [Threads -> Outcome]
    BY <1>3, <1>g, <1>l, <1>r, Zenon DEF Connect
  <2> QED  BY <1>3, <2>1 DEF Connect, pool, net
<1>4. ASSUME NEW t \in Threads, CreateIo(t)  PROVE TypeOK'
  <2>1. pc' \in [Threads -> Labels] /\ ret' \in [Threads -> Outcome]
    BY <1>4, <1>g, <1>l, <1>r, Zenon DEF CreateIo
  <2> QED  BY <1>4, <2>1, Zenon DEF CreateIo, pool, net
<1>5. ASSUME NEW t \in Threads, ConnWait(t)  PROVE TypeOK'
  <2>1. pc' \in [Threads -> Labels] /\ ret' \in [Threads -> Outcome]
    BY <1>5, <1>g, <1>l, <1>r, Zenon DEF ConnWait
  <2> QED  BY <1>5, <2>1 DEF ConnWait, pool, net
<1>6. ASSUME NEW t \in Threads, Borrow(t)  PROVE TypeOK'
  <2>1. ASSUME NEW c \in Ctxs, Take(t, c)
        PROVE  /\ pc' \in [Threads -> Labels]
               /\ mine' \in [Threads -> Ctxs \cup {None}]
               /\ ctx' \in [Ctxs -> SyncContext]
    BY <2>1, <1>g, <1>l, Zenon DEF Take
  <2>2. pc' \in [Threads -> Labels] /\ ret' \in [Threads -> Outcome]
    BY <1>6, <2>1, <1>r, Zenon DEF Borrow
  <2>3. mine' \in [Threads -> Ctxs \cup {None}] /\ ctx' \in [Ctxs -> SyncContext]
    BY <1>6, <2>1, Zenon DEF Borrow, pool
  <2>4. objects_' \subseteq Ctxs /\ created' \subseteq Ctxs
    BY <1>6, Zenon DEF Borrow, pool
  <2> QED  BY <1>6, <2>2, <2>3, <2>4 DEF Borrow, conn, net
<1>7. ASSUME NEW t \in Threads, Insert(t)  PROVE TypeOK'
  <2>1. pc' \in [Threads -> Labels]
    BY <1>7, <1>g, <1>l, Zenon DEF Insert
  <2>2. seq[t] \in Nat /\ mine[t] \in Ctxs
    BY <1>7, <1>h, Zenon DEF Insert, Holding
  <2>3. pending_requests' \subseteq Nat \X Ctxs
    <3>1. \/ pending_requests' = pending_requests
          \/ pending_requests' = pending_requests \cup {<<seq[t], mine[t]>>}
      BY <1>7, Zenon DEF Insert
    <3> QED  BY <2>2, <3>1
  <2> QED  BY <1>7, <2>1, <2>3, ZenonT(60) DEF Insert, conn, pool, net
<1>8. ASSUME NEW t \in Threads, Write(t)  PROVE TypeOK'
  <2>1. pc' \in [Threads -> Labels] /\ ret' \in [Threads -> Outcome]
    BY <1>8, <1>g, <1>l, <1>r, Zenon DEF Write
  <2>2. requests' \subseteq Request
    BY <1>8 DEF Write, Request
  <2> QED  BY <1>8, <2>1, <2>2 DEF Write, pool
<1>9. ASSUME NEW t \in Threads, Wait(t)  PROVE TypeOK'
  <2>1. pc' \in [Threads -> Labels] /\ ret' \in [Threads -> Outcome]
    BY <1>9, <1>g, <1>l, <1>r, Zenon DEF Wait
  <2> QED  BY <1>9, <2>1 DEF Wait, conn, pool, net
<1>10. ASSUME NEW t \in Threads, TimeOut(t)  PROVE TypeOK'
  <2>1. pc' \in [Threads -> Labels] /\ ret' \in [Threads -> Outcome]
    BY <1>10, <1>r, Zenon DEF TimeOut
  <2> QED  BY <1>10, <2>1 DEF TimeOut, conn, pool
<1>11. ASSUME NEW t \in Threads, Copy(t)  PROVE TypeOK'
  <2>1. ctx[mine[t]].answer \in Nat
    BY <1>11, <1>h, Zenon DEF Copy, Holding
  <2>2. pc' \in [Threads -> Labels] /\ ret' \in [Threads -> Outcome]
    BY <1>11, <2>1, <1>g, <1>l, RetOther, Zenon DEF Copy
  <2> QED  BY <1>11, <2>2 DEF Copy, conn, pool, net
<1>12. ASSUME NEW t \in Threads, Erase(t)  PROVE TypeOK'
  <2>1. pc' \in [Threads -> Labels] /\ pending_requests' \subseteq pending_requests
    BY <1>12, <1>g, <1>l, Zenon DEF Erase
  <2> QED  BY <1>12, <2>1 DEF Erase, conn, pool, net
<1>13. ASSUME NEW t \in Threads, Release(t)  PROVE TypeOK'
  <2>1. pc' \in [Threads -> Labels]
    BY <1>13, <1>g, <1>l, Zenon DEF Release
  <2>2. mine[t] \in Ctxs
    BY <1>13, <1>h, Zenon DEF Release, Holding
  <2> QED  BY <1>13, <2>1, <2>2, ZenonT(60) DEF Release, conn, net
<1>14. ASSUME NEW r \in responses, Lookup(r)  PROVE TypeOK'
  <2>1. r.id \in Nat
    BY Zenon DEF Request
  <2>2. completing' \in [at : {"idle", "fill", "set"}, ctx : Ctxs \cup {None}, id : Nat]
    <3>1. CASE UNCHANGED completing
      BY <3>1, Zenon
    <3>2. ASSUME NEW c \in Ctxs, completing' = [at |-> "fill", ctx |-> c, id |-> r.id]
          PROVE  completing' \in [at : {"idle", "fill", "set"}, ctx : Ctxs \cup {None}, id : Nat]
      BY <2>1, <3>2, Zenon
    <3> QED  BY <1>14, <3>1, <3>2, Zenon DEF Lookup
  <2>3. pending_requests' \subseteq pending_requests /\ responses' \subseteq responses
    BY <1>14, Zenon DEF Lookup
  <2> QED  BY <1>14, <2>2, <2>3 DEF Lookup, call, conn, pool
<1>15. ASSUME Fill  PROVE TypeOK'
  <2>1. ctx' \in [Ctxs -> SyncContext]
    BY <1>15, ContextParts, Zenon DEF Fill
  <2>2. completing' \in [at : {"idle", "fill", "set"}, ctx : Ctxs \cup {None}, id : Nat]
    BY <1>15, Zenon DEF Fill
  <2> QED  BY <1>15, <2>1, <2>2, Zenon DEF Fill, call, conn, pool, net
<1>16. ASSUME SetResult  PROVE TypeOK'
  <2>1. ctx' \in [Ctxs -> SyncContext]
    BY <1>16, ContextParts, Zenon DEF SetResult
  <2> QED  BY <1>16, <2>1 DEF SetResult, call, conn, pool, net
<1>17. ASSUME OnConnect \/ OnConnectClear  PROVE TypeOK'
  BY <1>17, ZenonT(60) DEF OnConnect, OnConnectClear, call, pool, net
<1>18. ASSUME OnCloseSend  PROVE TypeOK'
  <2>1. ctx' \in [Ctxs -> SyncContext]
    BY <1>18, ContextParts, Zenon DEF OnCloseSend
  <2> QED  BY <1>18, <2>1, Zenon DEF OnCloseSend, call, pool
<1>19. ASSUME OnCloseRecv \/ OnAccept \/ PeerClose  PROVE TypeOK'
  <2>1. CASE OnCloseRecv
    <3>1. closes' \in Nat /\ responses' \subseteq Request
      BY <2>1 DEF OnCloseRecv
    <3> QED  BY <2>1, <3>1, ZenonT(60) DEF OnCloseRecv, call, pool
  <2>2. CASE OnAccept
    BY <2>2 DEF OnAccept, call, pool, net
  <2>3. CASE PeerClose
    BY <2>3 DEF PeerClose, call, pool
  <2> QED  BY <1>19, <2>1, <2>2, <2>3, Zenon
<1>20. ASSUME NEW r \in requests, Accept(r)  PROVE TypeOK'
  BY <1>20 DEF Accept, call, conn, pool
<1>21. ASSUME NEW r \in accepted, Answer(r)  PROVE TypeOK'
  BY <1>21 DEF Answer, call, conn, pool
<1>22. CASE UNCHANGED vars
  BY <1>22 DEF vars
<1> QED
  BY <1>1, <1>2, <1>3, <1>4, <1>5, <1>6, <1>7, <1>8, <1>9, <1>10, <1>11, <1>12, <1>13,
     <1>14, <1>15, <1>16, <1>17, <1>18, <1>19, <1>20, <1>21, <1>22, Zenon
  DEF Next, Step, Loop, Provider

-----------------------------------------------------------------------------
(***************************************************************************)
(* The contexts.                                                           *)
(***************************************************************************)

\* Who only takes entries out of the map disturbs nothing.
LEMMA PoolFrame ==
  ASSUME PoolInv, pending_requests' \subseteq pending_requests,
         UNCHANGED <<pc, seq, mine, objects_, created>>
  PROVE  PoolInv'
  BY DEF PoolInv, HoldsWhileCalling, PoolOwned, ContextExclusive, PendingListed

\* A thread goes on without a context; it may draw a number.
LEMMA PoolEmptyHanded ==
  ASSUME TypeOK, PoolInv, NEW t \in Threads, NEW l \in Labels \ Holding, Goto(t, l),
         pc[t] \notin Holding,
         \A u \in Threads \ {t} : seq'[u] = seq[u],
         UNCHANGED <<mine, pending_requests, objects_, created>>
  PROVE  PoolInv'
<1>1. pc'[t] = l /\ \A u \in Threads \ {t} : pc'[u] = pc[u]
  BY GotoLabel, Zenon
<1>2. Listed \subseteq Holding
  BY Zenon DEF Listed, Holding
<1> QED
  BY <1>1, <1>2
  DEF PoolInv, HoldsWhileCalling, PoolOwned, ContextExclusive, PendingListed

\* A thread goes on while its context may be in the map.
LEMMA PoolListed ==
  ASSUME TypeOK, PoolInv, NEW t \in Threads, NEW l \in Listed, Goto(t, l), pc[t] \in Listed,
         UNCHANGED <<seq, mine, pending_requests, objects_, created>>
  PROVE  PoolInv'
<1>0. Listed \subseteq Holding /\ Holding \subseteq Labels
  BY Zenon DEF Listed, Holding, Labels
<1>1. pc'[t] = l /\ \A u \in Threads \ {t} : pc'[u] = pc[u]
  BY <1>0, GotoLabel, Zenon
<1> QED
  BY <1>0, <1>1
  DEF PoolInv, HoldsWhileCalling, PoolOwned, ContextExclusive, PendingListed

\* A thread takes a context that nobody holds.
LEMMA PoolTake ==
  ASSUME TypeOK, PoolInv, NEW t \in Threads, NEW c \in Ctxs, Take(t, c),
         pc[t] = "borrow", \A u \in Threads : mine[u] # c,
         c \in created', objects_' \subseteq objects_ \ {c}, created \subseteq created',
         UNCHANGED <<seq, pending_requests>>
  PROVE  PoolInv'
<1> USE ProcessCallAssumption DEF PoolInv, TypeOK
<1>1. /\ pc'[t] = "insert" /\ \A u \in Threads \ {t} : pc'[u] = pc[u]
      /\ mine'[t] = c /\ \A u \in Threads \ {t} : mine'[u] = mine[u]
  BY Zenon DEF Take, Goto
<1>2. HoldsWhileCalling'
  BY <1>1 DEF HoldsWhileCalling, Holding
<1>3. PoolOwned' /\ ContextExclusive'
  BY <1>1 DEF PoolOwned, ContextExclusive
<1>4. PendingListed'
  BY <1>1 DEF PendingListed, Listed
<1> QED  BY <1>2, <1>3, <1>4, Zenon

\* Every step keeps contexts and map in order.
LEMMA PoolStep == TypeOK /\ PoolInv /\ [Next]_vars => PoolInv'
<1> SUFFICES ASSUME TypeOK, PoolInv, [Next]_vars  PROVE PoolInv'
  OBVIOUS
<1>e. {"idle", "check", "connect", "create", "connwait", "borrow"} = Labels \ Holding
  BY Zenon DEF Labels, Holding
<1>h. {"write", "wait", "copy", "erase"} = Listed
  BY Zenon DEF Listed
<1>1. ASSUME NEW t \in Threads, Begin(t)  PROVE PoolInv'
  BY <1>1, <1>e, PoolEmptyHanded, Zenon DEF Begin, pool, TypeOK
<1>2. ASSUME NEW t \in Threads, Check(t) \/ Connect(t) \/ CreateIo(t) \/ ConnWait(t)
      PROVE  PoolInv'
  <2>1. /\ pc[t] \in {"check", "connect", "create", "connwait"}
        /\ UNCHANGED <<seq, mine, pending_requests, objects_, created>>
    BY <1>2, Zenon DEF Check, Connect, CreateIo, ConnWait, pool
  <2>2. \E l \in {"idle", "connect", "create", "connwait", "borrow"} : Goto(t, l)
    BY <1>2, Zenon DEF Check, Connect, CreateIo, ConnWait, Return
  <2> QED  BY <2>1, <2>2, <1>e, PoolEmptyHanded, Zenon
<1>3. ASSUME NEW t \in Threads, Borrow(t)  PROVE PoolInv'
  <2>0. pc[t] = "borrow" /\ UNCHANGED <<seq, pending_requests>>
    BY <1>3, Zenon DEF Borrow
  <2>1. ASSUME NEW c \in objects_, Take(t, c), objects_' = objects_ \ {c}, UNCHANGED created
        PROVE  PoolInv'
    <3>1. c \in Ctxs /\ c \in created /\ \A u \in Threads : mine[u] # c
      BY ProcessCallAssumption DEF PoolInv, PoolOwned, ContextExclusive, TypeOK
    <3> QED  BY <2>0, <2>1, <3>1, PoolTake, Zenon
  <2>2. ASSUME NEW c \in Ctxs \ created, Take(t, c), created' = created \cup {c},
               UNCHANGED objects_
        PROVE  PoolInv'
    <3>1. c \notin objects_ /\ \A u \in Threads : mine[u] # c
      BY ProcessCallAssumption, Zenon DEF PoolInv, PoolOwned
    <3>2. c \in created' /\ objects_' \subseteq objects_ \ {c} /\ created \subseteq created'
      BY <2>2, <3>1, Zenon
    <3> QED  BY <2>0, <2>2, <3>1, <3>2, PoolTake, Zenon
  <2>3. ASSUME Return(t, "FAIL"), UNCHANGED <<mine, objects_, created>>  PROVE PoolInv'
    BY <2>0, <2>3, <1>e, PoolEmptyHanded, Zenon DEF Return
  <2> QED  BY <1>3, <2>1, <2>2, <2>3, Zenon DEF Borrow, pool
<1>4. ASSUME NEW t \in Threads, Insert(t)  PROVE PoolInv'
  <2>1. /\ pc[t] = "insert" /\ pc'[t] = "write" /\ \A u \in Threads \ {t} : pc'[u] = pc[u]
        /\ UNCHANGED <<seq, mine, objects_, created>>
    BY <1>4, Zenon DEF Insert, Goto, pool, TypeOK
  <2>2. pending_requests' \subseteq pending_requests \cup {<<seq[t], mine[t]>>}
    BY <1>4, Zenon DEF Insert
  <2>3. HoldsWhileCalling' /\ PoolOwned' /\ ContextExclusive'
    BY <2>1, Zenon DEF PoolInv, HoldsWhileCalling, Holding, PoolOwned, ContextExclusive
  <2>4. PendingListed'
    BY <2>1, <2>2 DEF PoolInv, PendingListed, Listed, TypeOK
  <2> QED  BY <2>3, <2>4, Zenon DEF PoolInv
<1>5. ASSUME NEW t \in Threads, Write(t) \/ Wait(t) \/ TimeOut(t) \/ Copy(t)  PROVE PoolInv'
  <2>1. /\ pc[t] \in {"write", "wait", "copy"}
        /\ UNCHANGED <<seq, mine, pending_requests, objects_, created>>
    BY <1>5, Zenon DEF Write, Wait, TimeOut, Copy, pool
  <2>2. \E l \in {"wait", "copy", "erase"} : Goto(t, l)
    BY <1>5, Zenon DEF Write, Wait, TimeOut, Copy, Fail
  <2> QED  BY <2>1, <2>2, <1>h, PoolListed, Zenon
<1>6. ASSUME NEW t \in Threads, Erase(t)  PROVE PoolInv'
  <2>1. /\ pc[t] = "erase" /\ pc'[t] = "release" /\ \A u \in Threads \ {t} : pc'[u] = pc[u]
        /\ UNCHANGED <<seq, mine, objects_, created>>
    BY <1>6, Zenon DEF Erase, Goto, pool, TypeOK
  <2>2. \A s \in Nat, c \in Ctxs : <<s, c>> \in pending_requests' =>
           <<s, c>> \in pending_requests /\ s # seq[t]
    BY <1>6, Zenon DEF Erase
  <2>3. HoldsWhileCalling' /\ PoolOwned' /\ ContextExclusive'
    BY <2>1, Zenon DEF PoolInv, HoldsWhileCalling, Holding, PoolOwned, ContextExclusive
  <2>4. PendingListed'
    BY <2>1, <2>2 DEF PoolInv, PendingListed
  <2> QED  BY <2>3, <2>4, Zenon DEF PoolInv
<1>7. ASSUME NEW t \in Threads, Release(t)  PROVE PoolInv'
  <2>1. /\ pc[t] = "release" /\ pc'[t] = "idle" /\ \A u \in Threads \ {t} : pc'[u] = pc[u]
        /\ mine'[t] = None /\ \A u \in Threads \ {t} : mine'[u] = mine[u]
        /\ objects_' = objects_ \cup {mine[t]}
        /\ UNCHANGED <<seq, pending_requests, created>>
    BY <1>7, Zenon DEF Release, Goto, TypeOK
  <2>2. mine[t] \in created /\ \A u \in Threads \ {t} : mine[u] # mine[t]
    BY <2>1, Zenon DEF PoolInv, HoldsWhileCalling, Holding, PoolOwned, ContextExclusive
  <2>3. HoldsWhileCalling'
    BY <2>1, Zenon DEF PoolInv, HoldsWhileCalling, Holding
  <2>4. PoolOwned' /\ ContextExclusive'
    BY <2>1, <2>2 DEF PoolInv, PoolOwned, ContextExclusive
  <2>5. PendingListed'
    BY <2>1 DEF PoolInv, PendingListed, Listed
  <2> QED  BY <2>3, <2>4, <2>5, Zenon DEF PoolInv
<1>8. ASSUME NEW r \in responses, Lookup(r)  PROVE PoolInv'
  <2>1. pending_requests' \subseteq pending_requests
    BY <1>8, Zenon DEF Lookup
  <2> QED  BY <1>8, <2>1, PoolFrame, Zenon DEF Lookup, call, pool
<1>9. ASSUME Fill \/ SetResult \/ OnConnect \/ OnCloseSend \/ OnCloseRecv \/ OnAccept
             \/ PeerClose
      PROVE  PoolInv'
  <2>1. UNCHANGED <<call, pending_requests, pool>>
    BY <1>9, Zenon DEF Fill, SetResult, OnConnect, OnCloseSend, OnCloseRecv, OnAccept, PeerClose
  <2> QED  BY <2>1, PoolFrame, Zenon DEF call, pool
<1>10. ASSUME OnConnectClear  PROVE PoolInv'
  BY <1>10, PoolFrame, Zenon DEF OnConnectClear, call, pool
<1>11. ASSUME NEW r \in requests \cup accepted, Accept(r) \/ Answer(r)  PROVE PoolInv'
  BY <1>11, PoolFrame, Zenon DEF Accept, Answer, call, pool
<1>12. CASE UNCHANGED vars
  BY <1>12, PoolFrame, Zenon DEF vars
<1> QED
  BY <1>1, <1>2, <1>3, <1>4, <1>5, <1>6, <1>7, <1>8, <1>9, <1>10, <1>11, <1>12, Zenon
  DEF Next, Step, Loop, Provider

\* TypeOK and PoolInv are an invariant.
LEMMA PoolAlways == Spec => [](TypeOK /\ PoolInv)
<1>1. Init => TypeOK /\ PoolInv
  BY InitCall, Zenon
<1>2. TypeOK /\ PoolInv /\ [Next]_vars => (TypeOK /\ PoolInv)'
  BY TypeStep, PoolStep, Zenon DEF PoolInv
<1> QED  BY <1>1, <1>2, PTL DEF Spec

\* The types hold in every reachable state.
THEOREM TypeCorrect == Spec => []TypeOK
  BY PoolAlways, PTL

\* No context is held by two calls, or by a call and the pool, whatever times out,
\* closes and reconnects.
THEOREM ContextExclusiveThm == Spec => []ContextExclusive
<1>1. PoolInv => ContextExclusive
  BY Zenon DEF PoolInv
<1> QED  BY <1>1, PoolAlways, PTL

\* A context leaves the map before it goes back to the pool.
THEOREM PendingOwnedThm == Spec => []PendingOwned
<1>1. TypeOK /\ PoolInv => PendingOwned
  <2> SUFFICES ASSUME TypeOK, PoolInv, NEW e \in pending_requests
               PROVE  \E t \in Threads : mine[t] = e[2] /\ seq[t] = e[1]
    BY Zenon DEF PendingOwned
  <2>1. e[1] \in Nat /\ e[2] \in Ctxs /\ e = <<e[1], e[2]>>
    BY DEF TypeOK
  <2> QED  BY <2>1 DEF PoolInv, PendingListed
<1> QED  BY <1>1, PoolAlways, PTL

-----------------------------------------------------------------------------
(***************************************************************************)
(* A connection that stays up.                                             *)
(***************************************************************************)

\* A thread goes on in its call, neither writing nor connecting, and leaves the
\* others what they wait on.
LEMMA SteadyMove ==
  ASSUME TypeOK, SteadyInv, NEW t \in Threads, Goto(t, pc'[t]),
         pc[t] # "idle",
         pc'[t] \in {"idle", "borrow", "insert", "copy", "erase", "release"},
         pc'[t] \in Before => pc[t] \in Before,
         \A u \in Threads \ {t} :
            /\ mine'[u] = mine[u]
            /\ ctx[mine[u]].ready => ctx'[mine[u]].ready
            /\ <<seq[u], mine[u]>> \in pending_requests =>
                  <<seq[u], mine[u]>> \in pending_requests',
         UNCHANGED <<seq, id, calls, conn, requests, accepted, responses, completing>>
  PROVE  SteadyInv'
<1> USE DEF SteadyInv, conn
<1>1. pc'[t] \in Labels /\ \A u \in Threads \ {t} : pc'[u] = pc[u]
  BY Zenon DEF TypeOK, Goto, Labels
<1>2. ConnectionUp' /\ Numbered'
  BY <1>1, Zenon DEF ConnectionUp, Numbered
<1>3. NotEarly'
  BY <1>1, Zenon DEF NotEarly, Net
<1>4. InMap'
  BY <1>1, ZenonT(60) DEF InMap, OnTheWay, Net
<1> QED  BY <1>2, <1>3, <1>4, Zenon

\* A loop or the provider goes on; no thread moves.
LEMMA SteadyLoop ==
  ASSUME TypeOK, SteadyInv, NotEarly', InMap', UNCHANGED <<call, calls, conn>>
  PROVE  SteadyInv'
  BY Zenon DEF SteadyInv, ConnectionUp, Numbered, call, conn

\* A msg_seqid of a call that is under way names that call, and the context that
\* the map has under it is that of the caller.
LEMMA SeqidNames ==
  ASSUME TypeOK, PoolInv, SteadyInv, NEW t \in Threads, pc[t] # "idle"
  PROVE  /\ \A u \in Threads : seq[u] = seq[t] => u = t
         /\ \A c \in Ctxs : <<seq[t], c>> \in pending_requests => c = mine[t]
<1>1. \A u \in Threads : seq[u] = seq[t] => u = t
  BY Zenon DEF SteadyInv, Numbered, TypeOK
<1>2. ASSUME NEW c \in Ctxs, <<seq[t], c>> \in pending_requests  PROVE c = mine[t]
  <2>1. PICK u \in Threads : mine[u] = c /\ seq[u] = seq[t]
    BY <1>2 DEF PoolInv, PendingListed, TypeOK
  <2> QED  BY <1>1, <2>1, Zenon
<1> QED  BY <1>1, <1>2, Zenon

\* A request is written; its context is in the map.
LEMMA SteadyWrite ==
  ASSUME TypeOK, PoolInv, SteadyInv, NEW t \in Threads, Write(t)
  PROVE  SteadyInv'
<1> USE DEF SteadyInv
<1>1. /\ pc[t] = "write" /\ client_send_io = "open"
      /\ requests' = requests \cup {[seq |-> seq[t], id |-> id[t]]}
      /\ Goto(t, "wait")
      /\ UNCHANGED <<seq, id, mine, calls, conn, pending_requests, ctx, completing,
                     accepted, responses>>
  BY Zenon DEF Write, ConnectionUp, conn
<1>2. pc'[t] = "wait" /\ \A u \in Threads \ {t} : pc'[u] = pc[u]
  BY <1>1, Zenon DEF TypeOK, Goto
<1>3. seq[t] = id[t] /\ id[t] > 0 /\ id[t] <= calls /\ id[t] \in Nat
  BY <1>1, Zenon DEF Numbered, TypeOK
<1>4. ConnectionUp' /\ Numbered'
  BY <1>1, <1>2, Zenon DEF ConnectionUp, Numbered, conn
<1>5. NotEarly'
  <2>1. Net' = Net \cup {[seq |-> seq[t], id |-> id[t]]}
    BY <1>1, Zenon DEF Net
  <2>2. \A r \in Net' : r.seq = r.id /\ r.id > 0 /\ r.id <= calls'
    BY <1>1, <1>3, <2>1 DEF NotEarly
  <2>3. ASSUME NEW u \in Threads, pc'[u] \in Before
        PROVE  (\A r \in Net' : r.id # id'[u]) /\ completing'.id # id'[u]
    <3>1. u # t /\ pc[u] \in Before /\ pc[u] # "idle"
      BY <2>3, <1>2, Zenon DEF Before
    <3>2. id[u] # id[t]
      BY <3>1, <1>1, <1>3, Zenon DEF Numbered
    <3> QED  BY <3>1, <3>2, <2>1, <1>1 DEF NotEarly
  <2> QED  BY <1>1, <2>2, <2>3, Zenon DEF NotEarly
<1>6. InMap'
  <2>1. Net' = Net \cup {[seq |-> seq[t], id |-> id[t]]}
    BY <1>1, Zenon DEF Net
  <2>2. <<seq[t], mine[t]>> \in pending_requests
    BY <1>1, Zenon DEF InMap
  <2>3. OnTheWay(t)'
    <3>1. /\ [seq |-> seq[t], id |-> id[t]] \in Net'
          /\ [seq |-> seq[t], id |-> id[t]].id = id[t]
      BY <2>1, Zenon
    <3>2. \E r \in Net' : r.id = id[t]
      BY <3>1, Zenon
    <3> QED  BY <1>1, <2>2, <3>2, Zenon DEF OnTheWay
  <2>4. ASSUME NEW u \in Threads \ {t}, pc[u] = "wait"  PROVE OnTheWay(u)'
    <3>1. OnTheWay(u)
      BY <2>4, Zenon DEF InMap
    <3> QED  BY <3>1, <1>1, <2>1, Zenon DEF OnTheWay
  <2> QED  BY <1>1, <1>2, <2>3, <2>4, Zenon DEF InMap
<1> QED  BY <1>4, <1>5, <1>6, Zenon

\* The loop takes the context of an answer out of the map.
LEMMA SteadyLookup ==
  ASSUME TypeOK, PoolInv, SteadyInv, NEW r \in responses, Lookup(r)
  PROVE  SteadyInv'
<1> USE DEF SteadyInv
<1>1. /\ completing.at = "idle" /\ responses' = responses \ {r}
      /\ UNCHANGED <<call, calls, conn, ctx, requests, accepted>>
  BY Zenon DEF Lookup
<1>2. Net' \subseteq Net /\ \A q \in Net : q \in Net' \/ q = r
  BY <1>1, Zenon DEF Net
<1>3. r \in Net /\ r.seq = r.id /\ r.id > 0 /\ r.id <= calls
  BY Zenon DEF Net, NotEarly
<1>0. \/ UNCHANGED completing
      \/ completing'.at = "fill" /\ completing'.id = r.id
  <2>1. ASSUME NEW c \in Ctxs, completing' = [at |-> "fill", ctx |-> c, id |-> r.id]
        PROVE  completing'.at = "fill" /\ completing'.id = r.id
    BY <2>1, Zenon
  <2> QED  BY <2>1, Zenon DEF Lookup
<1>4. completing'.id \in {completing.id, r.id}
  BY <1>0, Zenon
<1>5. NotEarly'
  <2>2. /\ completing'.id <= calls
        /\ completing'.at # "idle" => completing'.id > 0
        /\ completing'.at = "idle" => completing'.id = 0
    BY <1>0, <1>3, Zenon DEF NotEarly
  <2> QED  BY <1>1, <1>2, <1>3, <1>4, <2>2, Zenon DEF NotEarly, call
<1>6. ASSUME NEW t \in Threads, pc[t] = "wait"  PROVE OnTheWay(t)'
  <2>0. seq[t] = id[t] /\ mine[t] \in Ctxs
    BY <1>6 DEF Numbered, PoolInv, HoldsWhileCalling, Holding, TypeOK
  <2>1. CASE ctx[mine[t]].ready
    BY <2>1, <1>1, Zenon DEF OnTheWay, call
  <2>2. ASSUME <<seq[t], mine[t]>> \in pending_requests, r.id = id[t]
        PROVE  OnTheWay(t)'
    <3>1. PICK c \in Ctxs : /\ <<r.seq, c>> \in pending_requests
                            /\ completing' = [at |-> "fill", ctx |-> c, id |-> r.id]
      BY <2>0, <2>2, <1>3, Zenon DEF Lookup
    <3>2. c = mine[t]
      BY <3>1, <2>0, <2>2, <1>3, <1>6, SeqidNames, Zenon
    <3> QED  BY <3>1, <3>2, <2>2, <1>1, Zenon DEF OnTheWay, call
  <2>3. ASSUME <<seq[t], mine[t]>> \in pending_requests, r.id # id[t],
               NEW q \in Net, q.id = id[t]
        PROVE  OnTheWay(t)'
    <3>1. q \in Net'
      BY <2>3, <1>2, Zenon
    <3>2. <<seq[t], mine[t]>> \in pending_requests'
      BY <2>0, <2>3, <1>3, Zenon DEF Lookup
    <3> QED  BY <2>3, <3>1, <3>2, <1>1, Zenon DEF OnTheWay, call
  <2>4. OnTheWay(t)
    BY <1>6, Zenon DEF InMap
  <2> QED  BY <1>1, <2>1, <2>2, <2>3, <2>4, Zenon DEF OnTheWay
<1>7. ASSUME NEW t \in Threads, pc[t] = "write"
      PROVE  <<seq[t], mine[t]>> \in pending_requests'
  <2>1. r.seq # seq[t]
    BY <1>3, <1>7, Zenon DEF NotEarly, Numbered, Before
  <2>2. <<seq[t], mine[t]>> \in pending_requests
    BY <1>7, Zenon DEF InMap
  <2> QED  BY <2>1, <2>2, Zenon DEF Lookup
<1>8. InMap'
  BY <1>1, <1>6, <1>7, Zenon DEF InMap, call
<1> QED  BY <1>1, <1>5, <1>8, SteadyLoop, Zenon

\* Every step keeps what holds on a connection that has stayed up.
LEMMA SteadyStep ==
  ASSUME TypeOK, PoolInv, closes = 0 => SteadyInv, [Next]_vars
  PROVE  closes' = 0 => SteadyInv'
<1> SUFFICES ASSUME closes' = 0  PROVE SteadyInv'
  OBVIOUS
<1>0. closes = 0 /\ ~OnCloseRecv /\ ~PeerClose
  <2>1. closes' = closes \/ closes' = closes + 1
    BY DEF Next, Step, Loop, Provider, Begin, Check, Connect, CreateIo, ConnWait, Borrow,
           Insert, Write, Wait, TimeOut, Copy, Erase, Release, Lookup, Fill, SetResult,
           OnConnect, OnConnectClear, OnCloseSend, OnCloseRecv, OnAccept, PeerClose,
           Accept, Answer, net, vars
  <2>2. closes = 0
    BY <2>1 DEF TypeOK
  <2> QED  BY <2>2, SMTT(30) DEF OnCloseRecv, PeerClose
<1>s. SteadyInv
  BY <1>0, Zenon
<1>k. ASSUME NEW t \in Threads, pc[t] # "idle", NEW u \in Threads \ {t}
      PROVE  seq[u] # seq[t]
  BY <1>k, <1>s, SeqidNames, Zenon
<1>1. ASSUME NEW t \in Threads, Begin(t)  PROVE SteadyInv'
  <2>1. /\ pc'[t] = "check" /\ \A u \in Threads \ {t} : pc'[u] = pc[u]
        /\ seq'[t] = msg_seqid /\ \A u \in Threads \ {t} : seq'[u] = seq[u]
        /\ id'[t] = calls + 1 /\ \A u \in Threads \ {t} : id'[u] = id[u]
        /\ msg_seqid' = msg_seqid + 1 /\ calls' = calls + 1
        /\ UNCHANGED <<mine, client_status, client_send_io, client_recv_io, connected,
                       pending_requests, ctx, completing, requests, accepted, responses>>
    BY <1>1, Zenon DEF Begin, Goto, net, TypeOK
  <2>2. ConnectionUp'
    BY <2>1, <1>s, Zenon DEF SteadyInv, ConnectionUp
  <2>3. Numbered'
    BY <2>1, <1>s, SMTT(30) DEF SteadyInv, Numbered, TypeOK
  <2>4. NotEarly'
    <3>1. \A r \in Net : r.id \in Nat
      BY Zenon DEF TypeOK, Net, Request
    <3>2. completing.id \in Nat
      BY Zenon DEF TypeOK
    <3>3. Net' = Net
      BY <2>1, Zenon DEF Net
    <3> QED  BY <2>1, <1>s, <3>1, <3>2, <3>3 DEF SteadyInv, NotEarly, TypeOK
  <2>5. InMap'
    BY <2>1, <1>s, Zenon DEF SteadyInv, InMap, OnTheWay, Net
  <2> QED  BY <2>2, <2>3, <2>4, <2>5, Zenon DEF SteadyInv
<1>2. ASSUME NEW t \in Threads, Check(t)  PROVE SteadyInv'
  <2>1. /\ pc[t] = "check" /\ Goto(t, "borrow") /\ pc'[t] = "borrow"
        /\ UNCHANGED <<seq, id, mine, calls, conn, pending_requests, ctx, completing,
                       requests, accepted, responses>>
    BY <1>2, <1>s, Zenon DEF Check, Usable, SteadyInv, ConnectionUp, Goto, TypeOK, net
  <2> QED  BY <2>1, <1>s, SteadyMove, Zenon DEF Before
<1>3. ASSUME NEW t \in Threads, Connect(t) \/ CreateIo(t) \/ ConnWait(t)  PROVE FALSE
  BY <1>3, <1>s, Zenon DEF Connect, CreateIo, ConnWait, SteadyInv, ConnectionUp
<1>4. ASSUME NEW t \in Threads, Borrow(t)  PROVE SteadyInv'
  <2>0. /\ pc[t] = "borrow"
        /\ UNCHANGED <<seq, id, calls, conn, pending_requests, completing, requests,
                       accepted, responses>>
    BY <1>4, Zenon DEF Borrow, net
  <2>1. ASSUME NEW c \in Ctxs, Take(t, c), \A u \in Threads : mine[u] # c
        PROVE  SteadyInv'
    <3>1. Goto(t, "insert") /\ pc'[t] = "insert"
      BY <2>1, Zenon DEF Take, Goto, TypeOK
    <3>2. \A u \in Threads \ {t} : /\ mine'[u] = mine[u]
                                   /\ ctx'[mine[u]] = ctx[mine[u]]
      BY <2>1 DEF Take, TypeOK
    <3> QED  BY <2>0, <3>1, <3>2, <1>s, SteadyMove, Zenon DEF Before
  <2>2. \A c \in objects_ \cup (Ctxs \ created) : c \in Ctxs /\ \A u \in Threads : mine[u] # c
    BY ProcessCallAssumption DEF PoolInv, PoolOwned, ContextExclusive, TypeOK
  <2>3. ASSUME Return(t, "FAIL"), UNCHANGED <<mine, ctx>>  PROVE SteadyInv'
    <3>1. Goto(t, "idle") /\ pc'[t] = "idle"
      BY <2>3, Zenon DEF Return, Goto, TypeOK
    <3> QED  BY <2>0, <2>3, <3>1, <1>s, SteadyMove, Zenon DEF Before
  <2> QED  BY <1>4, <2>1, <2>2, <2>3, Zenon DEF Borrow
<1>5. ASSUME NEW t \in Threads, Insert(t)  PROVE SteadyInv'
  <2>1. /\ pc[t] = "insert" /\ pc'[t] = "write" /\ \A u \in Threads \ {t} : pc'[u] = pc[u]
        /\ UNCHANGED <<seq, id, mine, calls, conn, ctx, completing, requests, accepted,
                       responses>>
    BY <1>5, Zenon DEF Insert, Goto, TypeOK, net
  <2>2. \A c \in Ctxs : <<seq[t], c>> \notin pending_requests
    <3> SUFFICES ASSUME NEW c \in Ctxs, <<seq[t], c>> \in pending_requests  PROVE FALSE
      OBVIOUS
    <3>1. PICK u \in Threads : pc[u] \in Listed /\ seq[u] = seq[t]
      BY Zenon DEF PoolInv, PendingListed, TypeOK
    <3>2. u = t
      BY <3>1, <2>1, <1>s, SeqidNames, Zenon
    <3> QED  BY <3>1, <3>2, <2>1, Zenon DEF Listed
  <2>3. pending_requests' = pending_requests \cup {<<seq[t], mine[t]>>}
    BY <1>5, <2>2, Zenon DEF Insert
  <2>4. ConnectionUp' /\ Numbered'
    BY <2>1, <1>s, Zenon DEF SteadyInv, ConnectionUp, Numbered, conn
  <2>5. NotEarly'
    BY <2>1, <1>s, Zenon DEF SteadyInv, NotEarly, Net, Before
  <2>6. InMap'
    BY <2>1, <2>3, <1>s, Zenon DEF SteadyInv, InMap, OnTheWay, Net
  <2> QED  BY <2>4, <2>5, <2>6, Zenon DEF SteadyInv
<1>6. ASSUME NEW t \in Threads, Write(t)  PROVE SteadyInv'
  BY <1>6, <1>s, SteadyWrite, Zenon
<1>7. ASSUME NEW t \in Threads, Wait(t) \/ TimeOut(t) \/ Copy(t)  PROVE SteadyInv'
  <2>1. /\ pc[t] \in {"wait", "copy"}
        /\ UNCHANGED <<seq, id, mine, calls, conn, pending_requests, ctx, completing,
                       requests, accepted, responses>>
    BY <1>7, Zenon DEF Wait, TimeOut, Copy, net
  <2>2. \E l \in {"copy", "erase"} : Goto(t, l)
    BY <1>7, Zenon DEF Wait, TimeOut, Copy, Fail
  <2>3. pc'[t] \in {"copy", "erase"} /\ Goto(t, pc'[t])
    BY <2>2, Zenon DEF Goto, TypeOK
  <2> QED  BY <2>1, <2>3, <1>s, SteadyMove, Zenon DEF Before
<1>8. ASSUME NEW t \in Threads, Erase(t)  PROVE SteadyInv'
  <2>1. /\ pc[t] = "erase" /\ Goto(t, "release") /\ pc'[t] = "release"
        /\ UNCHANGED <<seq, id, mine, calls, conn, ctx, completing, requests, accepted,
                       responses>>
    BY <1>8, Zenon DEF Erase, Goto, TypeOK, net
  <2>2. ASSUME NEW u \in Threads \ {t}, <<seq[u], mine[u]>> \in pending_requests
        PROVE  <<seq[u], mine[u]>> \in pending_requests'
    BY <2>1, <2>2, <1>8, <1>k, Zenon DEF Erase
  <2> QED  BY <2>1, <2>2, <1>s, SteadyMove, Zenon DEF Before
<1>9. ASSUME NEW t \in Threads, Release(t)  PROVE SteadyInv'
  <2>1. /\ pc[t] = "release" /\ Goto(t, "idle") /\ pc'[t] = "idle"
        /\ UNCHANGED <<seq, id, calls, conn, pending_requests, completing, requests, accepted,
                       responses>>
    BY <1>9, Zenon DEF Release, Goto, TypeOK, net
  <2>2. ASSUME NEW u \in Threads \ {t}
        PROVE  mine'[u] = mine[u] /\ (ctx[mine[u]].ready => ctx'[mine[u]].ready)
    <3>1. mine[t] # None
      BY <2>1, Zenon DEF PoolInv, HoldsWhileCalling, Holding
    <3>2. mine[u] # mine[t]
      BY <3>1, Zenon DEF PoolInv, ContextExclusive
    <3>3. mine'[u] = mine[u] /\ ctx'[mine[u]] = ctx[mine[u]]
      BY <3>2, <1>9 DEF Release, TypeOK
    <3> QED  BY <3>3, Zenon
  <2> QED  BY <2>1, <2>2, <1>s, SteadyMove, Zenon DEF Before
<1>10. ASSUME NEW r \in responses, Lookup(r)  PROVE SteadyInv'
  BY <1>10, <1>s, SteadyLookup, Zenon
<1>11. ASSUME Fill  PROVE SteadyInv'
  <2>1. /\ completing.at = "fill" /\ completing'.at = "set" /\ completing'.id = completing.id
        /\ completing'.ctx = completing.ctx
        /\ UNCHANGED <<call, calls, conn, pending_requests, requests, accepted, responses>>
    BY <1>11, Zenon DEF Fill, net, TypeOK
  <2>2. ASSUME NEW c \in Ctxs  PROVE ctx'[c].ready = ctx[c].ready
    <3>1. ctx'[c] = IF c = completing.ctx THEN Filled(ctx[c], completing.id) ELSE ctx[c]
      BY <1>11, Zenon DEF Fill, TypeOK
    <3>2. ctx[c] \in SyncContext /\ completing.id \in Nat
      BY Zenon DEF TypeOK
    <3>3. Filled(ctx[c], completing.id).ready = ctx[c].ready
      BY <3>2, ContextParts, Zenon
    <3>4. CASE c = completing.ctx
      BY <3>1, <3>3, <3>4, Zenon
    <3>5. CASE c # completing.ctx
      BY <3>1, <3>5, Zenon
    <3> QED  BY <3>4, <3>5, Zenon
  <2>3. NotEarly'
    BY <2>1, <1>s, Zenon DEF SteadyInv, NotEarly, Net, call
  <2>4. InMap'
    <3>1. \A t \in Threads : pc[t] = "wait" => mine[t] \in Ctxs
      BY Zenon DEF PoolInv, HoldsWhileCalling, Holding, TypeOK
    <3> QED  BY <2>1, <2>2, <3>1, <1>s, Zenon DEF SteadyInv, InMap, OnTheWay, Net, call
  <2> QED  BY <2>1, <2>3, <2>4, <1>s, SteadyLoop, Zenon
<1>12. ASSUME SetResult  PROVE SteadyInv'
  <2>1. /\ completing.at = "set" /\ completing' = Idle
        /\ UNCHANGED <<call, calls, conn, pending_requests, requests, accepted, responses>>
    BY <1>12, Zenon DEF SetResult, net
  <2>2. \A c \in Ctxs : /\ ctx[c].ready => ctx'[c].ready
                        /\ c = completing.ctx => ctx'[c].ready
    BY <1>12, ContextParts, ZenonT(60) DEF SetResult, TypeOK
  <2>3. NotEarly'
    <3>1. Idle.at = "idle" /\ Idle.id = 0
      BY Zenon DEF Idle
    <3>2. \A t \in Threads : pc[t] \in Before => id[t] > 0
      BY <1>s, Zenon DEF SteadyInv, Numbered, Before
    <3> QED  BY <2>1, <3>1, <3>2, <1>s DEF SteadyInv, NotEarly, Net, call, TypeOK
  <2>4. InMap'
    <3>1. \A t \in Threads : pc[t] = "wait" => mine[t] \in Ctxs
      BY Zenon DEF PoolInv, HoldsWhileCalling, Holding, TypeOK
    <3> QED  BY <2>1, <2>2, <3>1, <1>s, Zenon DEF SteadyInv, InMap, OnTheWay, Net, call
  <2> QED  BY <2>1, <2>3, <2>4, <1>s, SteadyLoop, Zenon
<1>13. ASSUME OnConnect \/ OnConnectClear \/ OnCloseSend \/ OnAccept  PROVE FALSE
  BY <1>13, <1>s, Zenon DEF OnConnect, OnConnectClear, OnCloseSend, OnAccept, SteadyInv, ConnectionUp
<1>14. ASSUME NEW r \in requests \cup accepted, Accept(r) \/ Answer(r)  PROVE SteadyInv'
  <2>1. UNCHANGED <<call, calls, conn, pending_requests, ctx, completing>>
    BY <1>14, Zenon DEF Accept, Answer
  <2>2. Net' = Net
    BY <1>14, Zenon DEF Accept, Answer, Net
  <2>3. NotEarly' /\ InMap'
    BY <2>1, <2>2, <1>s, Zenon DEF SteadyInv, NotEarly, InMap, OnTheWay, call
  <2> QED  BY <2>1, <2>3, <1>s, SteadyLoop, Zenon
<1>15. CASE UNCHANGED vars
  BY <1>15, <1>s, Zenon
  DEF vars, SteadyInv, ConnectionUp, Numbered, NotEarly, InMap, OnTheWay, Net
<1> QED
  BY <1>0, <1>1, <1>2, <1>3, <1>4, <1>5, <1>6, <1>7, <1>8, <1>9, <1>10, <1>11, <1>12,
     <1>13, <1>14, <1>15, Zenon
  DEF Next, Step, Loop, Provider

-----------------------------------------------------------------------------
(***************************************************************************)
(* A connection that stays up, on which no call times out.                 *)
(***************************************************************************)

\* A thread that is not being completed goes on with the context it has.
LEMMA AnswerMove ==
  ASSUME TypeOK, PoolInv, AnswerInv, NEW t \in Threads, Goto(t, pc'[t]),
         pc[t] = "wait" => ctx[mine[t]].ready,
         mine[t] # None =>
            /\ pc'[t] \in {"copy", "erase", "release"} => ctx[mine[t]].ready
            /\ pc'[t] \in {"insert", "write"} => ~ctx[mine[t]].ready,
         \A s \in Nat, c \in Ctxs : <<s, c>> \in pending_requests' => Unanswered(c),
         AnswerIsMine', UNCHANGED <<id, mine, ctx, completing>>
  PROVE  AnswerInv'
<1> USE DEF AnswerInv
<1>1. \A u \in Threads \ {t} : pc'[u] = pc[u]
  BY Zenon DEF TypeOK, Goto
<1>2. CompletesWaiter'
  <2> SUFFICES ASSUME completing.at # "idle"  PROVE CompletesWaiter'
    BY Zenon DEF CompletesWaiter
  <2>1. PICK u \in Threads : /\ pc[u] = "wait" /\ mine[u] = completing.ctx
                             /\ id[u] = completing.id
                             /\ completing.at = "set" => ctx[mine[u]].answer = id[u]
    BY Zenon DEF CompletesWaiter
  <2>2. u # t
    BY <2>1, Zenon DEF ReadyIsMine
  <2> QED  BY <1>1, <2>1, <2>2, Zenon DEF CompletesWaiter
<1>3. ReadyIsMine'
  BY <1>1 DEF ReadyIsMine, Unanswered
<1> QED  BY <1>2, <1>3, Zenon

\* The loop fills a context in with the answer to the request of the thread that
\* waits on it.
LEMMA AnswerFill ==
  ASSUME TypeOK, PoolInv, AnswerInv, Fill
  PROVE  AnswerInv'
<1> USE DEF AnswerInv
<1>1. /\ completing.at = "fill" /\ completing'.at = "set" /\ completing'.id = completing.id
      /\ completing'.ctx = completing.ctx
      /\ UNCHANGED <<call, pending_requests>>
  BY Zenon DEF Fill, TypeOK
<1>2. PICK t \in Threads : /\ pc[t] = "wait" /\ mine[t] = completing.ctx
                           /\ id[t] = completing.id
  BY <1>1, Zenon DEF CompletesWaiter
<1>3. completing.ctx \in Ctxs
  BY <1>2, Zenon DEF PoolInv, HoldsWhileCalling, Holding, TypeOK
<1>4. \A c \in Ctxs \ {completing.ctx} : ctx'[c] = ctx[c]
  BY Zenon DEF Fill, TypeOK
<1>5. ctx'[completing.ctx].answer = completing.id /\ ~ctx'[completing.ctx].ready
  <2>1. ctx'[completing.ctx] = Filled(ctx[completing.ctx], completing.id)
    BY <1>3, Zenon DEF Fill, TypeOK
  <2>2. ctx[completing.ctx] \in SyncContext /\ completing.id \in Nat
    BY <1>3, Zenon DEF TypeOK
  <2>3. /\ Filled(ctx[completing.ctx], completing.id).answer = completing.id
        /\ Filled(ctx[completing.ctx], completing.id).ready = ctx[completing.ctx].ready
    BY <2>2, ContextParts, Zenon
  <2>4. ~ctx[completing.ctx].ready
    BY <1>1, Zenon DEF ReadyIsMine
  <2> QED  BY <2>1, <2>3, <2>4, Zenon
<1>6. CompletesWaiter'
  BY <1>1, <1>2, <1>5, Zenon DEF CompletesWaiter, call
<1>7. ReadyIsMine'
  <2>1. completing'.at # "idle" => ~ctx'[completing'.ctx].ready
    BY <1>1, <1>5, Zenon
  <2>2. ASSUME NEW s \in Nat, NEW c \in Ctxs, <<s, c>> \in pending_requests
        PROVE  Unanswered(c)'
    BY <1>1, <1>4, <2>2 DEF ReadyIsMine, Unanswered
  <2>3. ASSUME NEW u \in Threads, mine[u] # None
        PROVE  /\ ctx'[mine[u]].ready => ctx'[mine[u]].answer = id[u]
               /\ pc[u] \in {"copy", "erase", "release"} => ctx'[mine[u]].ready
               /\ pc[u] \in {"insert", "write"} => ~ctx'[mine[u]].ready
    <3>1. CASE mine[u] = completing.ctx
      <4>1. u = t
        BY <3>1, <2>3, <1>2, Zenon DEF PoolInv, ContextExclusive
      <4> QED  BY <4>1, <3>1, <1>2, <1>5, Zenon
    <3>2. CASE mine[u] # completing.ctx
      <4>1. ctx'[mine[u]] = ctx[mine[u]]
        BY <3>2, <2>3, <1>4, Zenon DEF TypeOK
      <4> QED  BY <4>1, <2>3, Zenon DEF ReadyIsMine
    <3> QED  BY <3>1, <3>2, Zenon
  <2> QED  BY <1>1, <2>1, <2>2, <2>3, Zenon DEF ReadyIsMine, call
<1>8. AnswerIsMine'
  BY <1>1, Zenon DEF AnswerIsMine, call
<1> QED  BY <1>6, <1>7, <1>8, Zenon

\* The loop completes the context: of the threads, only the one that waits on it
\* can tell.
LEMMA AnswerSetResult ==
  ASSUME TypeOK, PoolInv, AnswerInv, SetResult
  PROVE  AnswerInv'
<1> USE DEF AnswerInv
<1>1. /\ completing.at = "set" /\ completing' = Idle /\ completing'.at = "idle"
      /\ UNCHANGED <<call, pending_requests>>
  BY Zenon DEF SetResult, Idle
<1>2. PICK t \in Threads : /\ pc[t] = "wait" /\ mine[t] = completing.ctx
                           /\ id[t] = completing.id
                           /\ ctx[mine[t]].answer = id[t]
  BY <1>1, Zenon DEF CompletesWaiter
<1>3. completing.ctx \in Ctxs
  BY <1>2, Zenon DEF PoolInv, HoldsWhileCalling, Holding, TypeOK
<1>4. \A c \in Ctxs \ {completing.ctx} : ctx'[c] = ctx[c]
  BY Zenon DEF SetResult, TypeOK
<1>5. ctx'[completing.ctx].answer = id[t] /\ ctx'[completing.ctx].ready
  <2>1. ctx'[completing.ctx] = Done(ctx[completing.ctx], "SUCCESS")
    BY <1>3, Zenon DEF SetResult, TypeOK
  <2>2. ctx[completing.ctx] \in SyncContext
    BY <1>3, Zenon DEF TypeOK
  <2>3. /\ Done(ctx[completing.ctx], "SUCCESS").answer = ctx[completing.ctx].answer
        /\ Done(ctx[completing.ctx], "SUCCESS").ready = TRUE
    BY <2>2, ContextParts, Zenon
  <2> QED  BY <1>2, <2>1, <2>3, Zenon
<1>6. CompletesWaiter'
  BY <1>1, Zenon DEF CompletesWaiter
<1>7. ReadyIsMine'
  <2>2. ASSUME NEW s \in Nat, NEW c \in Ctxs, <<s, c>> \in pending_requests
        PROVE  Unanswered(c)'
    BY <1>1, <1>4, <2>2 DEF ReadyIsMine, Unanswered
  <2>3. ASSUME NEW u \in Threads, mine[u] # None
        PROVE  /\ ctx'[mine[u]].ready => ctx'[mine[u]].answer = id[u]
               /\ pc[u] \in {"copy", "erase", "release"} => ctx'[mine[u]].ready
               /\ pc[u] \in {"insert", "write"} => ~ctx'[mine[u]].ready
    <3>1. CASE mine[u] = completing.ctx
      <4>1. u = t
        BY <3>1, <2>3, <1>2, Zenon DEF PoolInv, ContextExclusive
      <4> QED  BY <4>1, <3>1, <1>2, <1>5, Zenon
    <3>2. CASE mine[u] # completing.ctx
      <4>1. ctx'[mine[u]] = ctx[mine[u]]
        BY <3>2, <2>3, <1>4, Zenon DEF TypeOK
      <4> QED  BY <4>1, <2>3, Zenon DEF ReadyIsMine
    <3> QED  BY <3>1, <3>2, Zenon
  <2> QED  BY <1>1, <2>2, <2>3, Zenon DEF ReadyIsMine, call
<1>8. AnswerIsMine'
  BY <1>1, Zenon DEF AnswerIsMine, call
<1> QED  BY <1>6, <1>7, <1>8, Zenon

\* The context the loop takes out of the map is that of a thread that waits for
\* this answer.
LEMMA AnswerLookup ==
  ASSUME TypeOK, PoolInv, SteadyInv, AnswerInv, NEW r \in responses, Lookup(r)
  PROVE  AnswerInv'
<1> USE DEF AnswerInv
<1>1. completing.at = "idle" /\ UNCHANGED <<call, ctx>>
  BY Zenon DEF Lookup
<1>2. AnswerIsMine'
  BY <1>1, Zenon DEF AnswerIsMine, call
<1>3. r \in Net /\ r.seq = r.id /\ r.seq \in Nat
  BY Zenon DEF Net, SteadyInv, NotEarly, TypeOK, Request
<1>4. ASSUME NEW c \in Ctxs, <<r.seq, c>> \in pending_requests,
             pending_requests' = pending_requests \ {<<r.seq, c>>},
             completing' = [at |-> "fill", ctx |-> c, id |-> r.id]
      PROVE  AnswerInv'
  <2>0. completing'.at = "fill" /\ completing'.ctx = c /\ completing'.id = r.id
    BY <1>4, Zenon
  <2>1. PICK t \in Threads : pc[t] \in Listed /\ mine[t] = c /\ seq[t] = r.seq
    BY <1>3, <1>4, Zenon DEF PoolInv, PendingListed
  <2>2. mine[t] # None /\ ~ctx[c].ready
    BY <2>1, <1>3, <1>4, Zenon
    DEF PoolInv, HoldsWhileCalling, Holding, Listed, ReadyIsMine, Unanswered
  <2>3. id[t] = r.id
    BY <2>1, <1>3, Zenon DEF SteadyInv, Numbered
  <2>4. pc[t] # "write"
    BY <2>3, <1>3, Zenon DEF SteadyInv, NotEarly, Before
  <2>5. pc[t] = "wait"
    BY <2>1, <2>2, <2>4, Zenon DEF ReadyIsMine, Listed
  <2>6. CompletesWaiter'
    BY <2>0, <2>1, <2>3, <2>5, <1>1, Zenon DEF CompletesWaiter, call
  <2>7. ASSUME NEW s \in Nat, NEW d \in Ctxs, <<s, d>> \in pending_requests'
        PROVE  Unanswered(d)'
    <3>1. <<s, d>> \in pending_requests /\ <<s, d>> # <<r.seq, c>>
      BY <2>7, <1>4, Zenon
    <3>2. d # c
      <4>1. PICK u \in Threads : mine[u] = d /\ seq[u] = s
        BY <3>1, Zenon DEF PoolInv, PendingListed
      <4>2. d = c => u = t
        BY <4>1, <2>1, <2>2, Zenon DEF PoolInv, ContextExclusive
      <4> QED  BY <4>1, <4>2, <3>1, <2>1, Zenon
    <3> QED  BY <3>1, <3>2, <2>0, <1>1, Zenon DEF ReadyIsMine, Unanswered
  <2>8. ReadyIsMine'
    BY <2>0, <2>2, <2>7, <1>1, Zenon DEF ReadyIsMine, call
  <2> QED  BY <2>6, <2>8, <1>2, Zenon
<1>5. ASSUME UNCHANGED <<pending_requests, completing>>  PROVE AnswerInv'
  BY <1>1, <1>2, <1>5, Zenon DEF CompletesWaiter, ReadyIsMine, Unanswered, call
<1> QED  BY <1>4, <1>5, Zenon DEF Lookup

\* A context that nobody else holds, and that is not in the map, is reset: by the
\* thread t that takes it or gives it back.
LEMMA AnswerReset ==
  ASSUME TypeOK, PoolInv, AnswerInv, NEW t \in Threads, pc[t] # "wait",
         NEW c \in Ctxs, \A u \in Threads \ {t} : mine[u] # c,
         ctx' = [ctx EXCEPT ![c] = Reset],
         \A u \in Threads \ {t} : pc'[u] = pc[u] /\ mine'[u] = mine[u],
         \/ mine'[t] = None
         \/ mine'[t] = c /\ pc'[t] = "insert",
         AnswerIsMine', UNCHANGED <<id, pending_requests, completing>>
  PROVE  AnswerInv'
<1> USE DEF AnswerInv
<1>1. ~ctx'[c].ready /\ \A d \in Ctxs \ {c} : ctx'[d] = ctx[d]
  BY Zenon DEF Reset, TypeOK
<1>2. \A u \in Threads \ {t} : mine[u] # None => ctx'[mine[u]] = ctx[mine[u]]
  BY <1>1, Zenon DEF TypeOK
<1>3. CompletesWaiter' /\ (completing.at # "idle" => ~ctx'[completing.ctx].ready)
  <2> SUFFICES ASSUME completing.at # "idle"
               PROVE  CompletesWaiter' /\ ~ctx'[completing.ctx].ready
    BY Zenon DEF CompletesWaiter
  <2>1. PICK u \in Threads : /\ pc[u] = "wait" /\ mine[u] = completing.ctx
                             /\ id[u] = completing.id
                             /\ completing.at = "set" => ctx[mine[u]].answer = id[u]
    BY Zenon DEF CompletesWaiter
  <2>2. u # t /\ mine[u] # None
    BY <2>1, Zenon DEF PoolInv, HoldsWhileCalling, Holding
  <2>3. ctx'[mine[u]] = ctx[mine[u]]
    BY <1>2, <2>2, Zenon
  <2>4. CompletesWaiter'
    BY <2>1, <2>2, <2>3 DEF CompletesWaiter
  <2>5. ~ctx'[completing.ctx].ready
    BY <2>1, <2>3, Zenon DEF ReadyIsMine
  <2> QED  BY <2>4, <2>5, Zenon
<1>4. \A s \in Nat, d \in Ctxs : <<s, d>> \in pending_requests => Unanswered(d)'
  BY <1>1 DEF ReadyIsMine, Unanswered
<1>5. ASSUME NEW u \in Threads, mine'[u] # None
      PROVE  /\ ctx'[mine'[u]].ready => ctx'[mine'[u]].answer = id[u]
             /\ pc'[u] \in {"copy", "erase", "release"} => ctx'[mine'[u]].ready
             /\ pc'[u] \in {"insert", "write"} => ~ctx'[mine'[u]].ready
  <2>1. CASE u = t
    BY <2>1, <1>1, <1>5, Zenon
  <2>2. CASE u # t
    BY <2>2, <1>2, <1>5, SMTT(30) DEF ReadyIsMine
  <2> QED  BY <2>1, <2>2, Zenon
<1>6. ReadyIsMine'
  BY <1>3, <1>4, <1>5 DEF ReadyIsMine
<1> QED  BY <1>3, <1>6, Zenon

\* Every step keeps what holds while nothing closes and nothing times out.
LEMMA AnswerStep ==
  ASSUME TypeOK, PoolInv, closes = 0 => SteadyInv,
         closes = 0 /\ ~timedOut => AnswerInv, [Next]_vars
  PROVE  closes' = 0 /\ ~timedOut' => AnswerInv'
<1> SUFFICES ASSUME closes' = 0, ~timedOut'  PROVE AnswerInv'
  OBVIOUS
<1>0. closes = 0 /\ ~timedOut /\ ~OnCloseRecv /\ ~PeerClose
  <2>1. closes' = closes \/ closes' = closes + 1
    BY DEF Next, Step, Loop, Provider, Begin, Check, Connect, CreateIo, ConnWait, Borrow,
           Insert, Write, Wait, TimeOut, Copy, Erase, Release, Lookup, Fill, SetResult,
           OnConnect, OnConnectClear, OnCloseSend, OnCloseRecv, OnAccept, PeerClose,
           Accept, Answer, net, vars
  <2>2. closes = 0
    BY <2>1, SMTT(30) DEF TypeOK
  <2>3. timedOut' = timedOut \/ timedOut' = TRUE
    BY DEF Next, Step, Loop, Provider, Begin, Check, Connect, CreateIo, ConnWait, Borrow,
           Insert, Write, Wait, TimeOut, Copy, Erase, Release, Lookup, Fill, SetResult,
           OnConnect, OnConnectClear, OnCloseSend, OnCloseRecv, OnAccept, PeerClose,
           Accept, Answer, net, vars
  <2> QED  BY <2>2, <2>3, SMTT(30) DEF OnCloseRecv, PeerClose
<1>s. SteadyInv /\ AnswerInv
  BY <1>0, Zenon
<1>1. ASSUME NEW t \in Threads, Begin(t)  PROVE AnswerInv'
  <2>1. /\ pc[t] = "idle" /\ pc'[t] = "check" /\ ret'[t].code = "NONE"
        /\ \A u \in Threads \ {t} : pc'[u] = pc[u] /\ id'[u] = id[u] /\ ret'[u] = ret[u]
        /\ UNCHANGED <<mine, ctx, completing, pending_requests>>
    BY <1>1, Zenon DEF Begin, Goto, Returned, TypeOK
  <2>2. mine[t] = None
    BY <2>1, Zenon DEF PoolInv, HoldsWhileCalling, Holding
  <2>3. CompletesWaiter'
    BY <2>1, <1>s, Zenon DEF AnswerInv, CompletesWaiter
  <2>4. ReadyIsMine'
    BY <2>1, <2>2, <1>s DEF AnswerInv, ReadyIsMine, Unanswered
  <2>5. AnswerIsMine'
    BY <2>1, <1>s, Zenon DEF AnswerInv, AnswerIsMine
  <2> QED  BY <2>3, <2>4, <2>5, Zenon DEF AnswerInv
<1>2. ASSUME NEW t \in Threads, Check(t)  PROVE AnswerInv'
  <2>1. /\ pc[t] = "check" /\ pc'[t] \in {"borrow", "connect"} /\ Goto(t, pc'[t])
        /\ UNCHANGED <<id, mine, ret, ctx, completing, pending_requests>>
    BY <1>2, Zenon DEF Check, Goto, TypeOK
  <2>2. AnswerIsMine'
    BY <2>1, <1>s, Zenon DEF AnswerInv, AnswerIsMine
  <2> QED  BY <2>1, <2>2, <1>s, AnswerMove, Zenon DEF AnswerInv, ReadyIsMine
<1>3. ASSUME NEW t \in Threads, Connect(t) \/ CreateIo(t) \/ ConnWait(t)  PROVE FALSE
  BY <1>3, <1>s, Zenon DEF Connect, CreateIo, ConnWait, SteadyInv, ConnectionUp
<1>4. ASSUME NEW t \in Threads, Borrow(t)  PROVE AnswerInv'
  <2>0. /\ pc[t] = "borrow" /\ UNCHANGED <<id, pending_requests, completing>>
    BY <1>4, Zenon DEF Borrow
  <2>1. ASSUME NEW c \in Ctxs, Take(t, c), \A u \in Threads : mine[u] # c, UNCHANGED ret
        PROVE  AnswerInv'
    <3>1. /\ \A u \in Threads \ {t} : pc'[u] = pc[u] /\ mine'[u] = mine[u]
          /\ pc'[t] = "insert" /\ mine'[t] = c
          /\ ctx' = [ctx EXCEPT ![c] = Reset]
      BY <2>1, Zenon DEF Take, Goto, TypeOK
    <3>2. AnswerIsMine'
      BY <2>0, <2>1, <1>s, Zenon DEF AnswerInv, AnswerIsMine
    <3> QED  BY <2>0, <2>1, <3>1, <3>2, <1>s, AnswerReset, Zenon
  <2>2. \A c \in objects_ \cup (Ctxs \ created) : c \in Ctxs /\ \A u \in Threads : mine[u] # c
    BY ProcessCallAssumption DEF PoolInv, PoolOwned, ContextExclusive, TypeOK
  <2>3. ASSUME Return(t, "FAIL"), UNCHANGED <<mine, ctx>>  PROVE AnswerInv'
    <3>1. pc'[t] = "idle" /\ Goto(t, pc'[t])
      BY <2>3, Zenon DEF Return, Goto, TypeOK
    <3>2. AnswerIsMine'
      BY <2>0, <2>3, <1>s, Zenon DEF AnswerInv, AnswerIsMine, Return, Returned, TypeOK
    <3> QED  BY <2>0, <2>3, <3>1, <3>2, <1>s, AnswerMove, Zenon DEF AnswerInv, ReadyIsMine
  <2> QED  BY <1>4, <2>1, <2>2, <2>3, Zenon DEF Borrow
<1>5. ASSUME NEW t \in Threads, Insert(t)  PROVE AnswerInv'
  <2>1. /\ pc[t] = "insert" /\ pc'[t] = "write" /\ Goto(t, pc'[t])
        /\ pending_requests' \subseteq pending_requests \cup {<<seq[t], mine[t]>>}
        /\ UNCHANGED <<id, mine, ret, ctx, completing>>
    BY <1>5, Zenon DEF Insert, Goto, TypeOK
  <2>2. mine[t] # None /\ ~ctx[mine[t]].ready
    BY <2>1, <1>s, Zenon DEF PoolInv, HoldsWhileCalling, Holding, AnswerInv, ReadyIsMine
  <2>3. completing.at # "idle" => completing.ctx # mine[t]
    BY <2>1, <2>2, <1>s, Zenon DEF AnswerInv, CompletesWaiter, PoolInv, ContextExclusive
  <2>4. ASSUME NEW s \in Nat, NEW c \in Ctxs, <<s, c>> \in pending_requests'
        PROVE  Unanswered(c)
    <3>1. CASE <<s, c>> \in pending_requests
      BY <3>1, <1>s, Zenon DEF AnswerInv, ReadyIsMine
    <3>2. CASE <<s, c>> = <<seq[t], mine[t]>>
      BY <3>2, <2>2, <2>3, Zenon DEF Unanswered
    <3> QED  BY <2>1, <2>4, <3>1, <3>2, Zenon
  <2>5. AnswerIsMine'
    BY <2>1, <1>s, Zenon DEF AnswerInv, AnswerIsMine
  <2> QED  BY <2>1, <2>2, <2>4, <2>5, <1>s, AnswerMove, Zenon
<1>6. ASSUME NEW t \in Threads, Write(t)  PROVE AnswerInv'
  <2>1. /\ pc[t] = "write" /\ pc'[t] = "wait" /\ Goto(t, pc'[t])
        /\ UNCHANGED <<id, mine, ret, ctx, completing, pending_requests>>
    BY <1>6, <1>s, Zenon DEF Write, Goto, TypeOK, SteadyInv, ConnectionUp
  <2>2. AnswerIsMine'
    BY <2>1, <1>s, Zenon DEF AnswerInv, AnswerIsMine
  <2> QED  BY <2>1, <2>2, <1>s, AnswerMove, Zenon DEF AnswerInv, ReadyIsMine
<1>7. ASSUME NEW t \in Threads, Wait(t)  PROVE AnswerInv'
  <2>1. /\ pc'[t] \in {"copy", "erase"} /\ Goto(t, pc'[t]) /\ ctx[mine[t]].ready
        /\ UNCHANGED <<id, mine, ctx, completing, pending_requests>>
    BY <1>7, Zenon DEF Wait, Fail, Goto, TypeOK
  <2>2. UNCHANGED ret \/ ret' = [ret EXCEPT ![t] = Returned("FAIL", 0)]
    BY <1>7, Zenon DEF Wait, Fail
  <2>3. AnswerIsMine'
    BY <2>1, <2>2, <1>s DEF AnswerInv, AnswerIsMine, Returned, TypeOK
  <2> QED  BY <2>1, <2>3, <1>s, AnswerMove, Zenon DEF AnswerInv, ReadyIsMine
<1>8. ASSUME NEW t \in Threads, TimeOut(t)  PROVE FALSE
  BY <1>8, Zenon DEF TimeOut
<1>9. ASSUME NEW t \in Threads, Copy(t)  PROVE AnswerInv'
  <2>1. /\ pc[t] = "copy" /\ pc'[t] = "erase" /\ Goto(t, pc'[t])
        /\ ret' = [ret EXCEPT ![t] = Returned("SUCCESS", ctx[mine[t]].answer)]
        /\ UNCHANGED <<id, mine, ctx, completing, pending_requests>>
    BY <1>9, Zenon DEF Copy, Goto, TypeOK
  <2>2. ctx[mine[t]].ready /\ ctx[mine[t]].answer = id[t]
    BY <2>1, <1>s, Zenon DEF PoolInv, HoldsWhileCalling, Holding, AnswerInv, ReadyIsMine
  <2>3. AnswerIsMine'
    BY <2>1, <2>2, <1>s, Zenon DEF AnswerInv, AnswerIsMine, Returned, TypeOK
  <2> QED  BY <2>1, <2>2, <2>3, <1>s, AnswerMove, Zenon DEF AnswerInv, ReadyIsMine
<1>10. ASSUME NEW t \in Threads, Erase(t)  PROVE AnswerInv'
  <2>1. /\ pc[t] = "erase" /\ pc'[t] = "release" /\ Goto(t, pc'[t])
        /\ pending_requests' \subseteq pending_requests
        /\ UNCHANGED <<id, mine, ret, ctx, completing>>
    BY <1>10, Zenon DEF Erase, Goto, TypeOK
  <2>2. AnswerIsMine'
    BY <2>1, <1>s, Zenon DEF AnswerInv, AnswerIsMine
  <2> QED  BY <2>1, <2>2, <1>s, AnswerMove, Zenon DEF AnswerInv, ReadyIsMine
<1>11. ASSUME NEW t \in Threads, Release(t)  PROVE AnswerInv'
  <2>1. /\ pc[t] = "release" /\ mine'[t] = None
        /\ \A u \in Threads \ {t} : pc'[u] = pc[u] /\ mine'[u] = mine[u]
        /\ ctx' = [ctx EXCEPT ![mine[t]] = Reset]
        /\ UNCHANGED <<id, ret, pending_requests, completing>>
    BY <1>11, Zenon DEF Release, Goto, TypeOK
  <2>2. mine[t] \in Ctxs /\ \A u \in Threads \ {t} : mine[u] # mine[t]
    BY <2>1, Zenon DEF PoolInv, HoldsWhileCalling, Holding, ContextExclusive, TypeOK
  <2>3. AnswerIsMine'
    BY <2>1, <1>s, Zenon DEF AnswerInv, AnswerIsMine
  <2> QED  BY <2>1, <2>2, <2>3, <1>s, AnswerReset, Zenon
<1>12. ASSUME NEW r \in responses, Lookup(r)  PROVE AnswerInv'
  BY <1>12, <1>s, AnswerLookup, Zenon
<1>13. ASSUME Fill \/ SetResult  PROVE AnswerInv'
  BY <1>13, <1>s, AnswerFill, AnswerSetResult, Zenon
<1>14. ASSUME OnConnect \/ OnConnectClear \/ OnCloseSend \/ OnAccept  PROVE FALSE
  BY <1>14, <1>s, Zenon DEF OnConnect, OnConnectClear, OnCloseSend, OnAccept, SteadyInv, ConnectionUp
<1>15. ASSUME UNCHANGED <<call, ctx, completing, pending_requests>>  PROVE AnswerInv'
  BY <1>15, <1>s, Zenon
  DEF call, AnswerInv, CompletesWaiter, ReadyIsMine, Unanswered, AnswerIsMine
<1>16. ASSUME Provider \/ UNCHANGED vars  PROVE AnswerInv'
  BY <1>15, <1>16, Zenon DEF Provider, Accept, Answer, vars, call
<1> QED
  BY <1>0, <1>1, <1>2, <1>3, <1>4, <1>5, <1>6, <1>7, <1>8, <1>9, <1>10, <1>11, <1>12,
     <1>13, <1>14, <1>16, Zenon
  DEF Next, Step, Loop

\* What holds while the connection stays up, and while no call has timed out on it.
LEMMA SteadyAlways ==
  Spec => []((closes = 0 => SteadyInv) /\ (closes = 0 /\ ~timedOut => AnswerInv))
<1>1. Init => (closes = 0 => SteadyInv) /\ (closes = 0 /\ ~timedOut => AnswerInv)
  BY InitCall, Zenon
<1>2. TypeOK /\ PoolInv /\ (closes = 0 => SteadyInv)
         /\ (closes = 0 /\ ~timedOut => AnswerInv) /\ [Next]_vars
      => ((closes = 0 => SteadyInv) /\ (closes = 0 /\ ~timedOut => AnswerInv))'
  BY SteadyStep, AnswerStep, Zenon
<1> QED  BY <1>1, <1>2, PoolAlways, PTL DEF Spec

\* On a connection that stays up no answer is lost: once nothing of a request is
\* under way the wait of its caller is over, whatever other callers time out.
THEOREM NoLostAnswerThm == Spec => []NoLostAnswer
<1>1. (closes = 0 => SteadyInv) => NoLostAnswer
  BY Zenon DEF NoLostAnswer, SteadyInv, InMap, OnTheWay, Net
<1> QED  BY <1>1, SteadyAlways, PTL

\* On a connection that stays up, and as long as no call times out, a call that
\* succeeds returns the answer to its own request, in whatever order they come.
THEOREM SteadyAnswerIsMineThm == Spec => []SteadyAnswerIsMine
<1>1. (closes = 0 /\ ~timedOut => AnswerInv) => SteadyAnswerIsMine
  BY Zenon DEF SteadyAnswerIsMine, AnswerInv
<1> QED  BY <1>1, SteadyAlways, PTL
=============================================================================
