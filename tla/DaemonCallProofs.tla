--------------------------- MODULE DaemonCallProofs ---------------------------
(***************************************************************************)
(* A synchronous call to the daemon gets its own answer, for any number of *)
(* threads, contexts, peers and requests.                                  *)
(*                                                                         *)
(* The argument: the map of pending requests holds a context only while    *)
(* the thread whose request it stands for holds that context too           *)
(* (PendingOwned), and threads that are in a call have different           *)
(* msg_seqids (SeqsDistinct); so whoever completes a context through the   *)
(* map completes it for its present owner.                                 *)
(***************************************************************************)
EXTENDS DaemonCall, TLAPS

Holding == {"insert", "send", "write", "wait", "copy", "erase", "release"}
Listed == {"send", "write", "wait", "copy", "erase"}

\* A thread holds a context exactly between Borrow and the end of the guard.
HoldsWhileCalling ==
    \A t \in Threads : pc[t] \in Holding <=> mine[t] # None

\* Contexts that are idle or held were made by the pool.
PoolOwned ==
    /\ objects_ \subseteq created
    /\ \A t \in Threads : mine[t] # None => mine[t] \in created

SeqsDistinct ==
    /\ \A t \in Threads : seq[t] < m_msg_seqid
    /\ \A t, u \in Threads :
          pc[t] # "idle" /\ pc[u] # "idle" /\ seq[t] = seq[u] => t = u

PendingOwned ==
    \A s \in Nat, c \in Ctxs : <<s, c>> \in pending_requests =>
       \E t \in Threads : pc[t] \in Listed /\ mine[t] = c /\ seq[t] = s

\* What a held context says is about the request of its holder.
CtxIsMine ==
    \A t \in Threads : mine[t] # None =>
       /\ ctx[mine[t]].result = "SUCCESS" => ctx[mine[t]].answer = seq[t]
       /\ pc[t] = "copy" => ctx[mine[t]].answer = seq[t]

CallInv ==
    /\ HoldsWhileCalling /\ PoolOwned /\ ContextExclusive
    /\ SeqsDistinct /\ PendingOwned /\ CtxIsMine /\ AnswerIsMine

\* The initial states satisfy the invariant.
LEMMA InitCall == Init => TypeOK /\ CallInv
  BY DaemonCallAssumption
  DEF Init, Reset, Returned, Labels, Outcome, SyncContext, TypeOK, CallInv, HoldsWhileCalling, PoolOwned,
      ContextExclusive, SeqsDistinct, PendingOwned, CtxIsMine, AnswerIsMine, Holding

\* Moving on, returning and completing a context keep the types.
LEMMA TypeParts ==
  /\ Reset \in SyncContext
  /\ \A code \in {"NONE", "SUCCESS", "FAIL", "TIMEOUT"}, a \in Nat :
        Returned(code, a) \in Outcome
  /\ \A c \in SyncContext : c.answer \in Nat
  /\ \A r \in {"SUCCESS", "DISCONNECTED"}, a \in Nat : Done(r, a) \in SyncContext
  BY Zenon DEF Reset, Returned, Done, Outcome, SyncContext

\* A thread moves to another label.
LEMMA GotoLabel ==
  ASSUME TypeOK, NEW t \in Threads, NEW l \in Labels, Goto(t, l)
  PROVE  /\ pc' \in [Threads -> Labels]
         /\ pc'[t] = l
         /\ \A u \in Threads \ {t} : pc'[u] = pc[u]
  BY Zenon DEF TypeOK, Goto

\* Every step keeps the types.
LEMMA TypeStep == TypeOK /\ HoldsWhileCalling /\ [Next]_vars => TypeOK'
<1> SUFFICES ASSUME TypeOK, HoldsWhileCalling, [Next]_vars
             PROVE  TypeOK'
  OBVIOUS
<1>l. {"idle", "borrow", "create", "poolwait", "insert", "send", "write",
           "wait", "copy", "erase", "release"} \subseteq Labels
  BY Zenon DEF Labels
<1>h. \A t \in Threads : pc[t] \in Holding => mine[t] \in Ctxs
  BY Zenon DEF HoldsWhileCalling, TypeOK
<1> USE TypeParts, <1>l, GotoLabel DEF TypeOK
<1>1. ASSUME NEW t \in Threads, Begin(t)  PROVE TypeOK'
  BY <1>1 DEF Begin, pool, net
<1>2. ASSUME NEW t \in Threads, NEW c \in Ctxs, Take(t, c)
      PROVE  /\ pc' \in [Threads -> Labels]
             /\ mine' \in [Threads -> Ctxs \cup {None}]
             /\ ctx' \in [Ctxs -> SyncContext]
  <2>1. pc' \in [Threads -> Labels]
    BY <1>2, Zenon DEF Take
  <2>2. mine' \in [Threads -> Ctxs \cup {None}] /\ ctx' \in [Ctxs -> SyncContext]
    BY <1>2, Zenon DEF Take
  <2> QED  BY <2>1, <2>2, Zenon
<1>3. ASSUME NEW t \in Threads, TryBorrow(t)  PROVE TypeOK'
  BY <1>2, <1>3, Zenon DEF TryBorrow, net
<1>4. ASSUME NEW t \in Threads, Create(t)  PROVE TypeOK'
  BY <1>2, <1>4, Zenon DEF Create, net
<1>5. ASSUME NEW t \in Threads, PoolWait(t)  PROVE TypeOK'
  BY <1>2, <1>5 DEF PoolWait, net
<1>6. ASSUME NEW t \in Threads, Insert(t)  PROVE TypeOK'
  <2>a. seq[t] \in Nat /\ mine[t] \in Ctxs
    BY <1>6, <1>h, Zenon DEF Insert, Holding
  <2>b. \/ pending_requests' = pending_requests
        \/ pending_requests' = pending_requests \cup {<<seq[t], mine[t]>>}
    BY <1>6, Zenon DEF Insert
  <2>1. pending_requests' \subseteq Nat \X Ctxs
    BY <2>a, <2>b
  <2> QED  BY <1>6, <2>1, Zenon DEF Insert, pool, net
<1>7. ASSUME NEW t \in Threads, NEW code \in {"FAIL", "TIMEOUT"}, Fail(t, code)
      PROVE  pc' \in [Threads -> Labels] /\ ret' \in [Threads -> Outcome]
  BY <1>7, Zenon DEF Fail
<1>8. ASSUME NEW t \in Threads, Send(t)  PROVE TypeOK'
  BY <1>7, <1>8, Zenon DEF Send, pool, net
<1>9. ASSUME NEW t \in Threads, Write(t)  PROVE TypeOK'
  BY <1>7, <1>9, ZenonT(60) DEF Write, pool, net
<1>10. ASSUME NEW t \in Threads, Wait(t)  PROVE TypeOK'
  BY <1>7, <1>10, Zenon DEF Wait, pool, net
<1>11. ASSUME NEW t \in Threads, TimeOut(t)  PROVE TypeOK'
  BY <1>7, <1>11, Zenon DEF TimeOut, pool, net
<1>12. ASSUME NEW t \in Threads, Copy(t)  PROVE TypeOK'
  <2>1. ctx[mine[t]].answer \in Nat
    BY <1>12, <1>h, Zenon DEF Copy, Holding
  <2> QED  BY <1>12, <2>1, Zenon DEF Copy, pool, net
<1>13. ASSUME NEW t \in Threads, Erase(t)  PROVE TypeOK'
  BY <1>13, Zenon DEF Erase, pool, net
<1>14. ASSUME NEW t \in Threads, Release(t)  PROVE TypeOK'
  BY <1>14, <1>h, Zenon DEF Release, Holding, net
<1>15. ASSUME NEW s \in toDaemon, DaemonAnswer(s)  PROVE TypeOK'
  BY <1>15, Zenon DEF DaemonAnswer, call, pool
<1>16. ASSUME NEW s \in toClient, on_recv_daemon(s)  PROVE TypeOK'
  <2>1. ctx' \in [Ctxs -> SyncContext]
    <3>1. s \in Nat
      OBVIOUS
    <3>2. \A c \in Ctxs : SetResult(c, "SUCCESS", s) \in [Ctxs -> SyncContext]
      BY <3>1, Zenon DEF SetResult
    <3> QED  BY <1>16, <3>2, ZenonT(60) DEF on_recv_daemon
  <2> QED  BY <1>16, <2>1, Zenon DEF on_recv_daemon, call, pool
<1>17. CASE CloseDaemon
  <2>1. ctx' \in [Ctxs -> SyncContext]
    BY <1>17, Zenon DEF CloseDaemon
  <2> QED  BY <1>17, <2>1, Zenon DEF CloseDaemon, call, pool
<1>18. ASSUME NEW p \in Peers, ClosePeer(p)  PROVE TypeOK'
  BY <1>18, Zenon DEF ClosePeer, call, pool
<1>19. CASE UNCHANGED vars
  BY <1>19, Zenon DEF vars
<1> QED
  BY <1>1, <1>3, <1>4, <1>5, <1>6, <1>8, <1>9, <1>10, <1>11, <1>12, <1>13, <1>14,
     <1>15, <1>16, <1>17, <1>18, <1>19, Zenon DEF Next, Step

\* A thread that takes a context nobody holds keeps the invariant: the context
\* is not in the map of pending requests, and it says nothing yet.
LEMMA TakeStep ==
  ASSUME TypeOK, CallInv, NEW t \in Threads, NEW c \in Ctxs, Take(t, c),
         pc[t] \in {"borrow", "create", "poolwait"},
         \A u \in Threads : mine[u] # c,
         c \in created', objects_' \subseteq objects_ \ {c}, created \subseteq created',
         UNCHANGED <<seq, ret, m_msg_seqid, pending_requests>>
  PROVE  CallInv'
<1> USE DaemonCallAssumption DEF CallInv, TypeOK
<1>1. /\ pc'[t] = "insert" /\ \A u \in Threads \ {t} : pc'[u] = pc[u]
      /\ mine'[t] = c /\ \A u \in Threads \ {t} : mine'[u] = mine[u]
      /\ ctx'[c] = Reset /\ \A d \in Ctxs \ {c} : ctx'[d] = ctx[d]
  BY Zenon DEF Take, Goto
<1>2. HoldsWhileCalling'
  BY <1>1 DEF HoldsWhileCalling, Holding
<1>3. PoolOwned' /\ ContextExclusive'
  BY <1>1 DEF PoolOwned, ContextExclusive
<1>4. SeqsDistinct'
  BY <1>1 DEF SeqsDistinct
<1>5. PendingOwned'
  BY <1>1 DEF PendingOwned, Listed
<1>6. CtxIsMine'
  BY <1>1 DEF CtxIsMine, Reset
<1>7. AnswerIsMine'
  BY Zenon DEF AnswerIsMine
<1> QED  BY <1>2, <1>3, <1>4, <1>5, <1>6, <1>7, Zenon

\* A thread that goes on with its call keeps the invariant when what it returns
\* is the answer in its context, if it returns one.
LEMMA MoveStep ==
  ASSUME TypeOK, CallInv, NEW t \in Threads, NEW l \in Listed, Goto(t, l),
         pc[t] \in Listed,
         l = "copy" => ctx[mine[t]].result = "SUCCESS",
         \A u \in Threads : \/ ret'[u] = ret[u]
                            \/ u = t /\ ret'[u].code # "SUCCESS"
                            \/ u = t /\ ret'[u].answer = seq[u],
         UNCHANGED <<seq, mine, m_msg_seqid, pending_requests, objects_, created, ctx>>
  PROVE  CallInv'
<1> USE DEF CallInv, TypeOK
<1>1. pc'[t] = l /\ \A u \in Threads \ {t} : pc'[u] = pc[u]
  BY Zenon DEF Goto
<1>2. HoldsWhileCalling' /\ SeqsDistinct' /\ PendingOwned'
  BY <1>1 DEF HoldsWhileCalling, SeqsDistinct, PendingOwned, Holding, Listed
<1>3. PoolOwned' /\ ContextExclusive'
  BY Zenon DEF PoolOwned, ContextExclusive
<1>4. CtxIsMine'
  BY <1>1 DEF CtxIsMine
<1>5. AnswerIsMine'
  BY Zenon DEF AnswerIsMine
<1> QED  BY <1>2, <1>3, <1>4, <1>5, Zenon

\* A thread that goes on without a context keeps the invariant.
LEMMA EmptyHandedStep ==
  ASSUME TypeOK, CallInv, NEW t \in Threads, NEW l \in {"create", "poolwait", "idle"},
         Goto(t, l), pc[t] \in {"borrow", "create", "poolwait"},
         \A u \in Threads : ret'[u] = ret[u] \/ (u = t /\ ret'[u].code # "SUCCESS"),
         UNCHANGED <<seq, mine, m_msg_seqid, pending_requests, objects_, created, ctx>>
  PROVE  CallInv'
<1> USE DEF CallInv, TypeOK
<1>1. pc'[t] = l /\ \A u \in Threads \ {t} : pc'[u] = pc[u]
  BY Zenon DEF Goto
<1>2. HoldsWhileCalling' /\ SeqsDistinct' /\ PendingOwned'
  BY <1>1 DEF HoldsWhileCalling, SeqsDistinct, PendingOwned, Holding, Listed
<1>3. PoolOwned' /\ ContextExclusive'
  BY Zenon DEF PoolOwned, ContextExclusive
<1>4. CtxIsMine'
  BY <1>1, Zenon DEF CtxIsMine
<1>5. AnswerIsMine'
  BY Zenon DEF AnswerIsMine
<1> QED  BY <1>2, <1>3, <1>4, <1>5, Zenon

\* Whoever changes only contexts that are in the map, each in favour of the
\* request it is there for, and only shrinks the map, keeps the invariant.
LEMMA CompleteStep ==
  ASSUME TypeOK, CallInv,
         pending_requests' \subseteq pending_requests,
         \A c \in Ctxs :
            \/ ctx'[c] = ctx[c]
            \/ ctx'[c].result # "SUCCESS" /\ ctx'[c].answer = ctx[c].answer
            \/ \E s \in Nat : <<s, c>> \in pending_requests /\ ctx'[c].answer = s,
         UNCHANGED <<pc, seq, mine, ret, m_msg_seqid, objects_, created>>
  PROVE  CallInv'
<1> USE DEF CallInv, TypeOK
<1>1. HoldsWhileCalling' /\ SeqsDistinct' /\ PoolOwned' /\ ContextExclusive'
      /\ AnswerIsMine'
  BY Zenon DEF HoldsWhileCalling, SeqsDistinct, PoolOwned, ContextExclusive, AnswerIsMine
<1>2. PendingOwned'
  BY DEF PendingOwned
<1>3. CtxIsMine'
  <2> SUFFICES ASSUME NEW t \in Threads, mine[t] # None
               PROVE  /\ ctx'[mine[t]].result = "SUCCESS" => ctx'[mine[t]].answer = seq[t]
                      /\ pc[t] = "copy" => ctx'[mine[t]].answer = seq[t]
    BY Zenon DEF CtxIsMine
  <2>1. mine[t] \in Ctxs
    OBVIOUS
  <2>2. ASSUME NEW s \in Nat, <<s, mine[t]>> \in pending_requests
        PROVE  s = seq[t]
    BY <2>1, <2>2 DEF PendingOwned, ContextExclusive
  <2> QED  BY <2>1, <2>2, Zenon DEF CtxIsMine
<1> QED  BY <1>1, <1>2, <1>3, Zenon

\* What a thread returns, the others do not see.
LEMMA RetOther ==
  ASSUME TypeOK, NEW t \in Threads, NEW code \in {"NONE", "SUCCESS", "FAIL", "TIMEOUT"},
         NEW a, ret' = [ret EXCEPT ![t] = Returned(code, a)]
  PROVE  /\ ret'[t].code = code /\ ret'[t].answer = a
         /\ \A u \in Threads \ {t} : ret'[u] = ret[u]
<1>1. ret'[t] = Returned(code, a) /\ \A u \in Threads \ {t} : ret'[u] = ret[u]
  BY Zenon DEF TypeOK
<1> QED  BY <1>1 DEF Returned

\* Every step keeps the invariant.
LEMMA CallStep == TypeOK /\ CallInv /\ [Next]_vars => CallInv'
<1> SUFFICES ASSUME TypeOK, CallInv, [Next]_vars  PROVE CallInv'
  OBVIOUS
<1> USE DaemonCallAssumption DEF CallInv
<1>1. ASSUME NEW t \in Threads, Begin(t)  PROVE CallInv'
  <2>1. /\ pc[t] = "idle" /\ pc'[t] = "borrow" /\ \A u \in Threads \ {t} : pc'[u] = pc[u]
        /\ seq'[t] = m_msg_seqid /\ \A u \in Threads \ {t} : seq'[u] = seq[u]
        /\ ret'[t].code = "NONE" /\ \A u \in Threads \ {t} : ret'[u] = ret[u]
        /\ m_msg_seqid' = m_msg_seqid + 1
        /\ UNCHANGED <<mine, pending_requests, objects_, created, ctx>>
    BY <1>1, Zenon DEF Begin, Goto, Returned, pool, net, TypeOK
  <2>2. mine[t] = None
    BY <2>1, Zenon DEF HoldsWhileCalling, Holding
  <2>3. HoldsWhileCalling' /\ PoolOwned' /\ ContextExclusive' /\ CtxIsMine'
    BY <2>1, <2>2 DEF HoldsWhileCalling, Holding, PoolOwned, ContextExclusive, CtxIsMine
  <2>4. SeqsDistinct'
    BY <2>1 DEF SeqsDistinct, TypeOK
  <2>5. PendingOwned'
    BY <2>1 DEF PendingOwned, Listed
  <2>6. AnswerIsMine'
    BY <2>1, Zenon DEF AnswerIsMine
  <2> QED  BY <2>3, <2>4, <2>5, <2>6, Zenon
<1>t. ASSUME NEW t \in Threads, NEW c \in objects_
      PROVE  c \in created /\ \A u \in Threads : mine[u] # c
  BY Zenon DEF PoolOwned, ContextExclusive, TypeOK
<1>2. ASSUME NEW t \in Threads, TryBorrow(t)  PROVE CallInv'
  <2>1. CASE \E c \in objects_ : Take(t, c) /\ objects_' = objects_ \ {c}
    <3>1. PICK c \in objects_ : Take(t, c) /\ objects_' = objects_ \ {c}
      BY <2>1, Zenon
    <3> QED  BY <1>2, <1>t, <3>1, TakeStep, Zenon DEF TryBorrow, TypeOK, net
  <2>2. CASE objects_ = {} /\ Goto(t, "create") /\ UNCHANGED <<mine, ctx, objects_>>
    <3>1. pc[t] = "borrow" /\ UNCHANGED <<seq, ret, m_msg_seqid, pending_requests, created>>
      BY <1>2, Zenon DEF TryBorrow
    <3>2. \A u \in Threads : ret'[u] = ret[u]
      BY <3>1, Zenon
    <3> QED  BY <2>2, <3>1, <3>2, EmptyHandedStep, Zenon
  <2> QED  BY <1>2, <2>1, <2>2, Zenon DEF TryBorrow
<1>3. ASSUME NEW t \in Threads, Create(t)  PROVE CallInv'
  <2>1. CASE \E c \in Ctxs \ created : Take(t, c) /\ created' = created \cup {c}
    <3>1. PICK c \in Ctxs \ created : Take(t, c) /\ created' = created \cup {c}
      BY <2>1, Zenon
    <3>2. c \notin objects_ /\ \A u \in Threads : mine[u] # c
      BY Zenon DEF PoolOwned
    <3>3. pc[t] = "create" /\ UNCHANGED <<seq, ret, m_msg_seqid, pending_requests, objects_>>
      BY <1>3, Zenon DEF Create
    <3>4. c \in created' /\ objects_' \subseteq objects_ \ {c} /\ created \subseteq created'
      BY <3>1, <3>2, <3>3, Zenon
    <3> QED  BY <3>1, <3>2, <3>3, <3>4, TakeStep, Zenon
  <2>2. CASE created = Ctxs /\ Goto(t, "poolwait") /\ UNCHANGED <<mine, ctx, created>>
    <3>1. pc[t] = "create" /\ UNCHANGED <<seq, ret, m_msg_seqid, pending_requests, objects_>>
      BY <1>3, Zenon DEF Create
    <3>2. \A u \in Threads : ret'[u] = ret[u]
      BY <3>1, Zenon
    <3> QED  BY <2>2, <3>1, <3>2, EmptyHandedStep, Zenon
  <2> QED  BY <1>3, <2>1, <2>2, Zenon DEF Create
<1>4. ASSUME NEW t \in Threads, PoolWait(t)  PROVE CallInv'
  <2>0. pc[t] = "poolwait" /\ UNCHANGED <<seq, m_msg_seqid, pending_requests, created>>
    BY <1>4, Zenon DEF PoolWait
  <2>1. CASE \E c \in objects_ : /\ Take(t, c) /\ objects_' = objects_ \ {c}
                                 /\ UNCHANGED ret
    <3>1. PICK c \in objects_ : Take(t, c) /\ objects_' = objects_ \ {c} /\ UNCHANGED ret
      BY <2>1, Zenon
    <3> QED  BY <2>0, <1>t, <3>1, TakeStep, Zenon DEF TypeOK
  <2>2. CASE /\ ret' = [ret EXCEPT ![t] = Returned("FAIL", 0)]
             /\ Goto(t, "idle")
             /\ UNCHANGED <<mine, ctx, objects_>>
    <3>1. \A u \in Threads : ret'[u] = ret[u] \/ (u = t /\ ret'[u].code # "SUCCESS")
      <4>1. ret'[t].code = "FAIL" /\ \A u \in Threads \ {t} : ret'[u] = ret[u]
        BY <2>2, RetOther, Zenon
      <4> QED  BY <4>1, Zenon
    <3> QED  BY <2>0, <2>2, <3>1, EmptyHandedStep, Zenon
  <2> QED  BY <1>4, <2>1, <2>2, Zenon DEF PoolWait
<1>5. ASSUME NEW t \in Threads, Insert(t)  PROVE CallInv'
  <2>1. /\ pc[t] = "insert" /\ pc'[t] = "send" /\ \A u \in Threads \ {t} : pc'[u] = pc[u]
        /\ UNCHANGED <<seq, mine, ret, m_msg_seqid, objects_, created, ctx>>
    BY <1>5, Zenon DEF Insert, Goto, pool, TypeOK
  <2>2. pending_requests' \subseteq pending_requests \cup {<<seq[t], mine[t]>>}
    BY <1>5, Zenon DEF Insert
  <2>3. HoldsWhileCalling' /\ SeqsDistinct' /\ CtxIsMine'
    BY <2>1 DEF HoldsWhileCalling, Holding, SeqsDistinct, CtxIsMine
  <2>4. PoolOwned' /\ ContextExclusive' /\ AnswerIsMine'
    BY <2>1, Zenon DEF PoolOwned, ContextExclusive, AnswerIsMine
  <2>5. PendingOwned'
    BY <2>1, <2>2 DEF PendingOwned, Listed, TypeOK
  <2> QED  BY <2>3, <2>4, <2>5, Zenon
<1>f. ASSUME NEW t \in Threads, NEW code \in {"FAIL", "TIMEOUT"}, Fail(t, code),
             pc[t] \in Listed,
             UNCHANGED <<seq, mine, m_msg_seqid, pending_requests, objects_, created, ctx>>
      PROVE  CallInv'
  <2>1. \A u \in Threads : ret'[u] = ret[u] \/ (u = t /\ ret'[u].code # "SUCCESS")
    <3>1. ret' = [ret EXCEPT ![t] = Returned(code, 0)]
      BY <1>f, Zenon DEF Fail
    <3>2. ret'[t].code = code /\ \A u \in Threads \ {t} : ret'[u] = ret[u]
      BY <3>1, RetOther, Zenon
    <3> QED  BY <3>2, Zenon
  <2>2. Goto(t, "erase") /\ "erase" \in Listed
    BY <1>f, Zenon DEF Fail, Listed
  <2> QED  BY <1>f, <2>1, <2>2, MoveStep, Zenon
<1>m. ASSUME NEW t \in Threads, NEW l \in {"write", "wait"}, Goto(t, l), pc[t] \in Listed,
             UNCHANGED <<seq, mine, ret, m_msg_seqid, pending_requests, objects_, created,
                         ctx>>
      PROVE  CallInv'
  BY <1>m, MoveStep, Zenon DEF Listed
<1>6. ASSUME NEW t \in Threads, Send(t)  PROVE CallInv'
  BY <1>6, <1>f, <1>m, Zenon DEF Send, Listed, pool
<1>7. ASSUME NEW t \in Threads, Write(t)  PROVE CallInv'
  BY <1>7, <1>f, <1>m, Zenon DEF Write, Listed, pool
<1>8. ASSUME NEW t \in Threads, Wait(t)  PROVE CallInv'
  <2>0. /\ pc[t] \in Listed /\ "copy" \in Listed
        /\ UNCHANGED <<seq, mine, m_msg_seqid, pending_requests, objects_, created, ctx>>
    BY <1>8, Zenon DEF Wait, Listed, pool
  <2>1. CASE ctx[mine[t]].result = "SUCCESS" /\ Goto(t, "copy") /\ UNCHANGED ret
    BY <2>0, <2>1, MoveStep, Zenon
  <2>2. CASE Fail(t, "FAIL")
    BY <2>0, <2>2, <1>f, Zenon
  <2> QED  BY <1>8, <2>1, <2>2, Zenon DEF Wait
<1>9. ASSUME NEW t \in Threads, TimeOut(t)  PROVE CallInv'
  BY <1>9, <1>f, Zenon DEF TimeOut, Listed, pool
<1>10. ASSUME NEW t \in Threads, Copy(t)  PROVE CallInv'
  <2>0. /\ pc[t] = "copy" /\ Goto(t, "erase") /\ {"copy", "erase"} \subseteq Listed
        /\ UNCHANGED <<seq, mine, m_msg_seqid, pending_requests, objects_, created, ctx>>
    BY <1>10, Zenon DEF Copy, Listed, pool
  <2>1. ctx[mine[t]].answer = seq[t]
    BY <2>0, Zenon DEF CtxIsMine, HoldsWhileCalling, Holding
  <2>2. \A u \in Threads : ret'[u] = ret[u] \/ (u = t /\ ret'[u].answer = seq[u])
    <3>1. ret' = [ret EXCEPT ![t] = Returned("SUCCESS", ctx[mine[t]].answer)]
      BY <1>10, Zenon DEF Copy
    <3>2. ret'[t].answer = seq[t] /\ \A u \in Threads \ {t} : ret'[u] = ret[u]
      BY <2>1, <3>1, RetOther, ZenonT(60)
    <3> QED  BY <3>2, Zenon
  <2> QED  BY <2>0, <2>2, MoveStep, Zenon
<1>11. ASSUME NEW t \in Threads, Erase(t)  PROVE CallInv'
  <2>1. /\ pc[t] = "erase" /\ pc'[t] = "release" /\ \A u \in Threads \ {t} : pc'[u] = pc[u]
        /\ UNCHANGED <<seq, mine, ret, m_msg_seqid, objects_, created, ctx>>
    BY <1>11, Zenon DEF Erase, Goto, pool, TypeOK
  <2>2. \A s \in Nat, c \in Ctxs : <<s, c>> \in pending_requests' =>
           <<s, c>> \in pending_requests /\ s # seq[t]
    BY <1>11, Zenon DEF Erase
  <2>3. HoldsWhileCalling' /\ SeqsDistinct' /\ CtxIsMine'
    BY <2>1 DEF HoldsWhileCalling, Holding, SeqsDistinct, CtxIsMine
  <2>4. PoolOwned' /\ ContextExclusive' /\ AnswerIsMine'
    BY <2>1, Zenon DEF PoolOwned, ContextExclusive, AnswerIsMine
  <2>5. PendingOwned'
    BY <2>1, <2>2 DEF PendingOwned
  <2> QED  BY <2>3, <2>4, <2>5, Zenon
<1>12. ASSUME NEW t \in Threads, Release(t)  PROVE CallInv'
  <2>1. /\ pc[t] = "release" /\ pc'[t] = "idle" /\ \A u \in Threads \ {t} : pc'[u] = pc[u]
        /\ mine'[t] = None /\ \A u \in Threads \ {t} : mine'[u] = mine[u]
        /\ objects_' = objects_ \cup {mine[t]}
        /\ \A c \in Ctxs : c # mine[t] => ctx'[c] = ctx[c]
        /\ UNCHANGED <<seq, ret, m_msg_seqid, pending_requests, created>>
    BY <1>12, Zenon DEF Release, Goto, TypeOK
  <2>2. mine[t] \in Ctxs /\ \A u \in Threads \ {t} : mine[u] # mine[t]
    BY <2>1, Zenon DEF HoldsWhileCalling, Holding, ContextExclusive, TypeOK
  <2>3. HoldsWhileCalling' /\ SeqsDistinct' /\ AnswerIsMine'
    BY <2>1 DEF HoldsWhileCalling, Holding, SeqsDistinct, AnswerIsMine
  <2>4. PoolOwned' /\ ContextExclusive'
    BY <2>1, <2>2 DEF PoolOwned, ContextExclusive
  <2>5. PendingOwned'
    BY <2>1 DEF PendingOwned, Listed
  <2>6. CtxIsMine'
    BY <2>1, <2>2 DEF CtxIsMine, TypeOK
  <2> QED  BY <2>3, <2>4, <2>5, <2>6, Zenon
<1>13. ASSUME NEW s \in toDaemon, DaemonAnswer(s)  PROVE CallInv'
  BY <1>13, CompleteStep, Zenon DEF DaemonAnswer, call, pool
<1>14. ASSUME NEW s \in toClient, on_recv_daemon(s)  PROVE CallInv'
  <2>0. UNCHANGED <<pc, seq, mine, ret, m_msg_seqid, pending_requests, objects_, created>>
    BY <1>14, Zenon DEF on_recv_daemon, call, pool
  <2>1. \A c \in Ctxs : \/ ctx'[c] = ctx[c]
                        \/ \E r \in Nat : <<r, c>> \in pending_requests /\ ctx'[c].answer = r
    <3>1. CASE \E c \in Ctxs : <<s, c>> \in pending_requests
                            /\ ctx' = SetResult(c, "SUCCESS", s)
      <4>1. PICK c \in Ctxs : <<s, c>> \in pending_requests
                           /\ ctx' = SetResult(c, "SUCCESS", s)
        BY <3>1, Zenon
      <4>2. ctx'[c] = Done("SUCCESS", s) /\ \A d \in Ctxs \ {c} : ctx'[d] = ctx[d]
        BY <4>1, Zenon DEF SetResult, TypeOK
      <4>3. Done("SUCCESS", s).answer = s /\ s \in Nat
        BY Zenon DEF Done, TypeOK
      <4> QED  BY <4>1, <4>2, <4>3, Zenon
    <3> QED  BY <1>14, <3>1, Zenon DEF on_recv_daemon
  <2> QED  BY <2>0, <2>1, CompleteStep, Zenon
<1>15. CASE CloseDaemon
  <2>0. /\ UNCHANGED <<pc, seq, mine, ret, m_msg_seqid, objects_, created>>
        /\ pending_requests' \subseteq pending_requests
    BY <1>15, Zenon DEF CloseDaemon, call, pool
  <2>1. \A c \in Ctxs : \/ ctx'[c] = ctx[c]
                        \/ ctx'[c].result # "SUCCESS" /\ ctx'[c].answer = ctx[c].answer
    BY <1>15, Zenon DEF CloseDaemon, Done
  <2> QED  BY <2>0, <2>1, CompleteStep, Zenon
<1>16. ASSUME NEW p \in Peers, ClosePeer(p)  PROVE CallInv'
  BY <1>16, CompleteStep, Zenon DEF ClosePeer, call, pool
<1>17. CASE UNCHANGED vars
  BY <1>17, CompleteStep, Zenon DEF vars
<1> QED
  BY <1>1, <1>2, <1>3, <1>4, <1>5, <1>6, <1>7, <1>8, <1>9, <1>10, <1>11, <1>12, <1>13,
     <1>14, <1>15, <1>16, <1>17, Zenon DEF Next, Step

\* The whole invariant holds in every reachable state.
THEOREM CallInvariant == Spec => [](TypeOK /\ CallInv)
<1>1. TypeOK /\ CallInv /\ [Next]_vars => (TypeOK /\ CallInv)'
  BY TypeStep, CallStep, Zenon DEF CallInv
<1> QED  BY InitCall, <1>1, PTL DEF Spec

\* A call of send_msg_to_daemon_sync that succeeds returns the answer to its own
\* request, whatever times out, closes or is used again in the meantime.
THEOREM AnswerIsMineThm == Spec => []AnswerIsMine
  BY CallInvariant, PTL DEF CallInv

\* SyncContextPool never lends a context to two callers.
THEOREM ContextExclusiveThm == Spec => []ContextExclusive
  BY CallInvariant, PTL DEF CallInv

-----------------------------------------------------------------------------
(***************************************************************************)
(* While no peer has disconnected, no answer is lost.                      *)
(***************************************************************************)

\* From the insert to the end of the wait a request is in the map, unless its
\* context is completed.
Sent == {"send", "write", "wait"}
InMap ==
    \A t \in Threads :
       pc[t] \in Sent /\ ~ctx[mine[t]].ready => <<seq[t], mine[t]>> \in pending_requests

\* A caller whose request is not on the way any more has waited.
WaitEnds ==
    \A t \in Threads :
       pc[t] = "wait" /\ seq[t] \notin toDaemon \cup toClient => ctx[mine[t]].ready

\* A thread that is not in Sent afterwards, and disturbs no other, keeps both.
LEMMA LeaveStep ==
  ASSUME InMap, WaitEnds, NEW t \in Threads, pc'[t] \notin Sent,
         \A u \in Threads \ {t} :
            /\ pc'[u] = pc[u] /\ seq'[u] = seq[u] /\ mine'[u] = mine[u]
            /\ pc[u] \in Sent => ctx'[mine[u]] = ctx[mine[u]]
            /\ pc[u] \in Sent /\ <<seq[u], mine[u]>> \in pending_requests =>
                  <<seq[u], mine[u]>> \in pending_requests',
         toDaemon \cup toClient \subseteq toDaemon' \cup toClient'
  PROVE  InMap' /\ WaitEnds'
<1>1. InMap'
  BY Zenon DEF InMap
<1>2. WaitEnds'
  BY ZenonT(60) DEF WaitEnds, Sent
<1> QED  BY <1>1, <1>2, Zenon

\* Every step after which all peers are still connected keeps both.
LEMMA NoLostStep ==
  ASSUME peers = Peers, peers' = Peers, TypeOK, CallInv, InMap, WaitEnds, [Next]_vars
  PROVE  InMap' /\ WaitEnds'
<1> USE DaemonCallAssumption DEF CallInv
<1>h. \A t \in Threads : pc[t] \in Sent => mine[t] \in Ctxs /\ mine[t] \notin objects_
  BY Zenon DEF HoldsWhileCalling, Holding, Sent, ContextExclusive, TypeOK
<1>o. ASSUME NEW t \in Threads, NEW c \in Ctxs, pc[t] # "idle",
             <<seq[t], c>> \in pending_requests
      PROVE  mine[t] = c /\ pc[t] \in Listed
  <2>1. PICK u \in Threads : pc[u] \in Listed /\ mine[u] = c /\ seq[u] = seq[t]
    BY <1>o, Zenon DEF PendingOwned, TypeOK
  <2>2. u = t
    BY <1>o, <2>1, Zenon DEF SeqsDistinct, Listed
  <2> QED  BY <2>1, <2>2, Zenon
<1>1. ASSUME NEW t \in Threads, Begin(t)  PROVE InMap' /\ WaitEnds'
  <2>1. /\ pc'[t] = "borrow"
        /\ \A u \in Threads \ {t} : pc'[u] = pc[u] /\ seq'[u] = seq[u]
        /\ UNCHANGED <<mine, ctx, pending_requests, toDaemon, toClient>>
    BY <1>1, Zenon DEF Begin, Goto, net, TypeOK
  <2> QED  BY <2>1, LeaveStep, Zenon DEF Sent
<1>2. ASSUME NEW t \in Threads, NEW c \in Ctxs, Take(t, c),
             \A u \in Threads : mine[u] # c,
             UNCHANGED <<seq, pending_requests, toDaemon, toClient>>
      PROVE  InMap' /\ WaitEnds'
  <2>1. /\ pc'[t] = "insert"
        /\ \A u \in Threads \ {t} : pc'[u] = pc[u] /\ mine'[u] = mine[u]
        /\ \A d \in Ctxs \ {c} : ctx'[d] = ctx[d]
    BY <1>2, Zenon DEF Take, Goto, TypeOK
  <2> QED  BY <1>2, <1>h, <2>1, LeaveStep, Zenon DEF Sent
<1>3. ASSUME NEW t \in Threads, NEW l \in Labels \ Sent, Goto(t, l),
             UNCHANGED <<seq, mine, ctx, pending_requests, toDaemon, toClient>>
      PROVE  InMap' /\ WaitEnds'
  <2>1. pc'[t] = l /\ \A u \in Threads \ {t} : pc'[u] = pc[u]
    BY <1>3, Zenon DEF Goto, TypeOK
  <2> QED  BY <1>3, <2>1, LeaveStep, Zenon
<1>l. {"create", "poolwait", "idle", "copy", "erase"} \subseteq Labels \ Sent
  BY Zenon DEF Labels, Sent
<1>t. \A c \in objects_ : c \in Ctxs /\ \A u \in Threads : mine[u] # c
  BY Zenon DEF ContextExclusive, TypeOK
<1>c. \A c \in Ctxs \ created, u \in Threads : mine[u] # c
  BY Zenon DEF PoolOwned, TypeOK
<1>4. ASSUME NEW t \in Threads, TryBorrow(t)  PROVE InMap' /\ WaitEnds'
  BY <1>4, <1>2, <1>3, <1>l, <1>t, Zenon DEF TryBorrow, net
<1>5. ASSUME NEW t \in Threads, Create(t)  PROVE InMap' /\ WaitEnds'
  BY <1>5, <1>2, <1>3, <1>l, <1>c, Zenon DEF Create, net
<1>6. ASSUME NEW t \in Threads, PoolWait(t)  PROVE InMap' /\ WaitEnds'
  BY <1>6, <1>2, <1>3, <1>l, <1>t, Zenon DEF PoolWait, net
<1>7. ASSUME NEW t \in Threads, Insert(t)  PROVE InMap' /\ WaitEnds'
  <2>1. /\ pc[t] = "insert" /\ pc'[t] = "send" /\ \A u \in Threads \ {t} : pc'[u] = pc[u]
        /\ UNCHANGED <<seq, mine, ctx, toDaemon, toClient>>
    BY <1>7, Zenon DEF Insert, Goto, net, TypeOK
  <2>2. \A c \in Ctxs : <<seq[t], c>> \notin pending_requests
    BY <1>o, <2>1, Zenon DEF Listed
  <2>3. pending_requests' = pending_requests \cup {<<seq[t], mine[t]>>}
    BY <1>7, <2>2, Zenon DEF Insert
  <2>4. InMap'
    BY <2>1, <2>3, Zenon DEF InMap
  <2>5. WaitEnds'
    BY <2>1, Zenon DEF WaitEnds
  <2> QED  BY <2>4, <2>5, Zenon
<1>8. ASSUME NEW t \in Threads, Send(t)  PROVE InMap' /\ WaitEnds'
  <2>0. pc[t] = "send" /\ UNCHANGED <<seq, mine, ctx, pending_requests, toDaemon, toClient>>
    BY <1>8, Zenon DEF Send, net
  <2>1. CASE Goto(t, "write")
    <3>1. pc'[t] = "write" /\ \A u \in Threads \ {t} : pc'[u] = pc[u]
      BY <2>1, Zenon DEF Goto, TypeOK
    <3>2. InMap'
      BY <2>0, <3>1, Zenon DEF InMap, Sent
    <3>3. WaitEnds'
      BY <2>0, <3>1, Zenon DEF WaitEnds
    <3> QED  BY <3>2, <3>3, Zenon
  <2>2. CASE Fail(t, "FAIL")
    BY <2>0, <2>2, <1>3, <1>l, Zenon DEF Fail
  <2> QED  BY <1>8, <2>1, <2>2, Zenon DEF Send
<1>9. ASSUME NEW t \in Threads, Write(t)  PROVE InMap' /\ WaitEnds'
  <2>0. pc[t] = "write" /\ UNCHANGED <<seq, mine, ctx, pending_requests, toClient>>
    BY <1>9, Zenon DEF Write
  <2>1. CASE toDaemon' = toDaemon \cup {seq[t]} /\ Goto(t, "wait")
    <3>1. pc'[t] = "wait" /\ \A u \in Threads \ {t} : pc'[u] = pc[u]
      BY <2>1, Zenon DEF Goto, TypeOK
    <3>2. InMap'
      BY <2>0, <3>1, Zenon DEF InMap, Sent
    <3>3. WaitEnds'
      BY <2>0, <2>1, <3>1, Zenon DEF WaitEnds
    <3> QED  BY <3>2, <3>3, Zenon
  <2>2. CASE Fail(t, "FAIL") /\ UNCHANGED toDaemon
    BY <2>0, <2>2, <1>3, <1>l, Zenon DEF Fail
  <2> QED  BY <1>9, <2>1, <2>2, Zenon DEF Write
<1>10. ASSUME NEW t \in Threads, Wait(t) \/ TimeOut(t) \/ Copy(t)
       PROVE  InMap' /\ WaitEnds'
  BY <1>10, <1>3, <1>l, Zenon DEF Wait, TimeOut, Copy, Fail, net
<1>11. ASSUME NEW t \in Threads, Erase(t)  PROVE InMap' /\ WaitEnds'
  <2>1. /\ pc[t] = "erase" /\ pc'[t] = "release" /\ \A u \in Threads \ {t} : pc'[u] = pc[u]
        /\ UNCHANGED <<seq, mine, ctx, toDaemon, toClient>>
    BY <1>11, Zenon DEF Erase, Goto, net, TypeOK
  <2>2. \A u \in Threads \ {t} : pc[u] \in Sent => seq[u] # seq[t]
    BY <2>1, Zenon DEF SeqsDistinct, Sent
  <2>3. \A u \in Threads \ {t} :
           pc[u] \in Sent /\ <<seq[u], mine[u]>> \in pending_requests =>
              <<seq[u], mine[u]>> \in pending_requests'
    BY <1>11, <2>2, Zenon DEF Erase
  <2> QED  BY <2>1, <2>3, LeaveStep, Zenon DEF Sent
<1>12. ASSUME NEW t \in Threads, Release(t)  PROVE InMap' /\ WaitEnds'
  <2>1. /\ pc[t] = "release" /\ pc'[t] = "idle" /\ \A u \in Threads \ {t} : pc'[u] = pc[u]
        /\ \A u \in Threads \ {t} : mine'[u] = mine[u]
        /\ \A c \in Ctxs : c # mine[t] => ctx'[c] = ctx[c]
        /\ UNCHANGED <<seq, pending_requests, toDaemon, toClient>>
    BY <1>12, Zenon DEF Release, Goto, net, TypeOK
  <2>2. \A u \in Threads \ {t} : pc[u] \in Sent => mine[u] \in Ctxs /\ mine[u] # mine[t]
    BY <1>h, Zenon DEF ContextExclusive
  <2> QED  BY <2>1, <2>2, LeaveStep, Zenon DEF Sent
<1>13. ASSUME NEW s \in toDaemon, DaemonAnswer(s)  PROVE InMap' /\ WaitEnds'
  BY <1>13, Zenon DEF DaemonAnswer, call, InMap, WaitEnds
<1>14. ASSUME NEW s \in toClient, on_recv_daemon(s)  PROVE InMap' /\ WaitEnds'
  <2>0. UNCHANGED <<pc, seq, mine, pending_requests, toDaemon>> /\ toClient' = toClient \ {s}
    BY <1>14, Zenon DEF on_recv_daemon, call
  <2>1. \A c \in Ctxs : ctx[c].ready => ctx'[c].ready
    <3>1. ASSUME NEW c \in Ctxs, ctx' = SetResult(c, "SUCCESS", s)
          PROVE  \A d \in Ctxs : ctx[d].ready => ctx'[d].ready
      <4>1. ctx'[c] = Done("SUCCESS", s) /\ \A d \in Ctxs \ {c} : ctx'[d] = ctx[d]
        BY <3>1, Zenon DEF SetResult, TypeOK
      <4>2. Done("SUCCESS", s).ready
        BY Zenon DEF Done
      <4> QED  BY <4>1, <4>2, Zenon
    <3> QED  BY <1>14, <3>1, Zenon DEF on_recv_daemon
  <2>2. InMap'
    BY <2>0, <2>1, <1>h, Zenon DEF InMap
  <2>3. ASSUME NEW t \in Threads, pc[t] = "wait", seq[t] = s  PROVE ctx'[mine[t]].ready
    <3>1. mine[t] \in Ctxs
      BY <2>3, <1>h, Zenon DEF Sent
    <3>2. CASE ~ctx[mine[t]].ready
      <4>1. <<s, mine[t]>> \in pending_requests
        BY <2>3, <3>2, Zenon DEF InMap, Sent
      <4>2. PICK c \in Ctxs : <<s, c>> \in pending_requests /\ ctx' = SetResult(c, "SUCCESS", s)
        BY <1>14, <3>1, <4>1, Zenon DEF on_recv_daemon
      <4>3. c = mine[t]
        BY <2>3, <4>2, <1>o, Zenon
      <4> QED  BY <4>2, <4>3, Zenon DEF SetResult, Done, TypeOK
    <3> QED  BY <2>1, <3>1, <3>2, Zenon
  <2>4. WaitEnds'
    BY <2>0, <2>1, <2>3, <1>h, Zenon DEF WaitEnds, Sent
  <2> QED  BY <2>2, <2>4, Zenon
<1>15. CASE CloseDaemon
  <2>0. UNCHANGED <<pc, seq, mine>>
    BY <1>15, Zenon DEF CloseDaemon, call
  <2>1. \A t \in Threads : pc[t] \in Sent => ctx'[mine[t]].ready
    <3> SUFFICES ASSUME NEW t \in Threads, pc[t] \in Sent  PROVE ctx'[mine[t]].ready
      OBVIOUS
    <3>1. mine[t] \in Ctxs
      BY <1>h, Zenon
    <3>2. \/ ctx[mine[t]].ready
          \/ \E e \in pending_requests : e[2] = mine[t]
      BY Zenon DEF InMap
    <3> QED  BY <1>15, <3>1, <3>2, Zenon DEF CloseDaemon, Done
  <2> QED  BY <2>0, <2>1, Zenon DEF InMap, WaitEnds, Sent
<1>16. CASE UNCHANGED vars
  BY <1>16, Zenon DEF vars, InMap, WaitEnds
<1>17. ASSUME NEW p \in Peers, ClosePeer(p)  PROVE FALSE
  BY <1>17, Zenon DEF ClosePeer
<1> QED
  BY <1>17, <1>1, <1>4, <1>5, <1>6, <1>7, <1>8, <1>9, <1>10, <1>11, <1>12, <1>13, <1>14, <1>15,
     <1>16, Zenon DEF Next, Step

\* A peer that has disconnected does not come back.
LEMMA PeersStep == ASSUME [Next]_vars PROVE peers' \subseteq peers
<1>1. ASSUME NEW t \in Threads, Begin(t) \/ Step(t)  PROVE peers' = peers
  BY <1>1, Zenon DEF Begin, Step, TryBorrow, Create, PoolWait, Insert, Send, Write, Wait,
     TimeOut, Copy, Erase, Release, net
<1>2. ASSUME NEW s \in toDaemon, DaemonAnswer(s)  PROVE peers' = peers
  BY <1>2, Zenon DEF DaemonAnswer
<1>3. ASSUME NEW s \in toClient, on_recv_daemon(s)  PROVE peers' = peers
  BY <1>3, Zenon DEF on_recv_daemon
<1>4. CASE CloseDaemon
  BY <1>4, Zenon DEF CloseDaemon
<1>5. ASSUME NEW p \in Peers, ClosePeer(p)  PROVE peers' \subseteq peers
  BY <1>5, Zenon DEF ClosePeer
<1>6. CASE UNCHANGED vars
  BY <1>6, Zenon DEF vars
<1> QED  BY <1>1, <1>2, <1>3, <1>4, <1>5, <1>6, Zenon DEF Next

\* As long as no connection to another process has closed, no answer of the
\* daemon and no disconnect passes a waiting caller by.
THEOREM NoLostAnswerThm == Spec => []NoLostAnswer
<1> DEFINE Inv == peers = Peers => InMap /\ WaitEnds
<1>1. Init => Inv
  BY Zenon DEF Init, InMap, WaitEnds, Sent
<1>2. TypeOK /\ CallInv /\ Inv /\ [Next]_vars => Inv'
  <2> SUFFICES ASSUME TypeOK, CallInv, Inv, [Next]_vars, peers' = Peers
               PROVE  InMap' /\ WaitEnds'
    OBVIOUS
  <2>1. peers' \subseteq peers
    BY PeersStep, Zenon
  <2>2. peers = Peers
    BY <2>1, Zenon DEF TypeOK
  <2> QED  BY <2>2, NoLostStep, Zenon
<1>3. Inv => NoLostAnswer
  BY Zenon DEF WaitEnds, NoLostAnswer
<1> HIDE DEF Inv
<1> QED  BY <1>1, <1>2, <1>3, CallInvariant, PTL DEF Spec
-----------------------------------------------------------------------------
(***************************************************************************)
(* What a call leaves behind.  A context changes hands between the pool    *)
(* and one call, and none drops out.                                       *)
(***************************************************************************)
NoneDropped == \A c \in created \ objects_ : \E t \in Threads : mine[t] = c

\* A thread without a context takes one, from the pool or a new one.
LEMMA DroppedTake ==
  ASSUME TypeOK, NoneDropped, NEW t \in Threads, NEW c \in Ctxs, Take(t, c), mine[t] = None,
         \A d \in created' \ objects_' : d = c \/ d \in created \ objects_, None \notin created
  PROVE  NoneDropped'
<1>1. mine'[t] = c /\ \A u \in Threads \ {t} : mine'[u] = mine[u]
  BY Zenon DEF Take, TypeOK
<1>2. ASSUME NEW d \in created' \ objects_', d # c  PROVE \E u \in Threads : mine'[u] = d
  <2>1. d \in created \ objects_ /\ d # None
    BY <1>2, Zenon
  <2>2. PICK u \in Threads : mine[u] = d
    BY <2>1, Zenon DEF NoneDropped
  <2> QED  BY <1>1, <2>1, <2>2, Zenon
<1> QED  BY <1>1, <1>2, Zenon DEF NoneDropped

\* No step drops a context.
LEMMA DroppedStep == TypeOK /\ CallInv /\ NoneDropped /\ [Next]_vars => NoneDropped'
<1> SUFFICES ASSUME TypeOK, CallInv, NoneDropped, [Next]_vars
             PROVE  NoneDropped'
  OBVIOUS
<1>t. None \notin Ctxs /\ None \notin created
  BY DaemonCallAssumption, Zenon DEF TypeOK
<1>h. HoldsWhileCalling
  BY Zenon DEF CallInv
<1>e. \A t \in Threads : pc[t] \in {"borrow", "create", "poolwait"} => mine[t] = None
  BY <1>h, Zenon DEF HoldsWhileCalling, Holding
<1>1. ASSUME UNCHANGED <<mine, objects_, created>>  PROVE NoneDropped'
  BY <1>1, Zenon DEF NoneDropped
<1>2. ASSUME NEW t \in Threads, TryBorrow(t)  PROVE NoneDropped'
  <2>1. CASE \E c \in objects_ : Take(t, c) /\ objects_' = objects_ \ {c}
    <3>1. PICK c \in objects_ : Take(t, c) /\ objects_' = objects_ \ {c}
      BY <2>1, Zenon
    <3>2. created' = created /\ mine[t] = None /\ c \in Ctxs
      BY <1>2, <1>e, Zenon DEF TryBorrow, TypeOK
    <3> QED  BY <1>t, <3>1, <3>2, DroppedTake, ZenonT(60)
  <2> QED  BY <1>1, <1>2, <2>1, Zenon DEF TryBorrow
<1>3. ASSUME NEW t \in Threads, Create(t)  PROVE NoneDropped'
  <2>1. CASE \E c \in Ctxs \ created : Take(t, c) /\ created' = created \cup {c}
    <3>1. PICK c \in Ctxs \ created : Take(t, c) /\ created' = created \cup {c}
      BY <2>1, Zenon
    <3>2. objects_' = objects_ /\ mine[t] = None
      BY <1>3, <1>e, Zenon DEF Create
    <3> QED  BY <1>t, <3>1, <3>2, DroppedTake, ZenonT(60)
  <2> QED  BY <1>1, <1>3, <2>1, Zenon DEF Create
<1>4. ASSUME NEW t \in Threads, PoolWait(t)  PROVE NoneDropped'
  <2>1. CASE \E c \in objects_ : Take(t, c) /\ objects_' = objects_ \ {c}
    <3>1. PICK c \in objects_ : Take(t, c) /\ objects_' = objects_ \ {c}
      BY <2>1, Zenon
    <3>2. created' = created /\ mine[t] = None /\ c \in Ctxs
      BY <1>4, <1>e, Zenon DEF PoolWait, TypeOK
    <3> QED  BY <1>t, <3>1, <3>2, DroppedTake, ZenonT(60)
  <2> QED  BY <1>1, <1>4, <2>1, Zenon DEF PoolWait
<1>5. ASSUME NEW t \in Threads, Release(t)  PROVE NoneDropped'
  <2>1. /\ objects_' = objects_ \cup {mine[t]} /\ created' = created
        /\ \A u \in Threads \ {t} : mine'[u] = mine[u]
    BY <1>5, Zenon DEF Release, TypeOK
  <2> QED  BY <2>1, Zenon DEF NoneDropped
<1>6. ASSUME NEW t \in Threads,
             \/ Begin(t) \/ Insert(t) \/ Send(t) \/ Write(t) \/ Wait(t) \/ TimeOut(t) \/ Copy(t) \/ Erase(t)
      PROVE  NoneDropped'
  BY <1>1, <1>6, Zenon DEF Begin, Insert, Send, Write, Wait, TimeOut, Copy, Erase, pool
<1>7. ASSUME \/ \E s \in toDaemon : DaemonAnswer(s)
             \/ \E s \in toClient : on_recv_daemon(s)
             \/ CloseDaemon
             \/ \E p \in Peers : ClosePeer(p)
      PROVE  NoneDropped'
  BY <1>1, <1>7, Zenon DEF DaemonAnswer, on_recv_daemon, CloseDaemon, ClosePeer, pool, call
<1>8. CASE UNCHANGED vars
  BY <1>1, <1>8, Zenon DEF vars
<1> QED  BY <1>2, <1>3, <1>4, <1>5, <1>6, <1>7, <1>8, Zenon DEF Next, Step

\* However its call ends, a thread leaves no entry in the map of pending requests, and
\* its context goes back to the pool.
THEOREM CallLeavesNothingThm == Spec => []CallLeavesNothing
<1>1. Init => NoneDropped
  BY Zenon DEF Init, NoneDropped
<1>2. TypeOK /\ CallInv /\ NoneDropped => CallLeavesNothing
  <2> SUFFICES ASSUME TypeOK, CallInv, NoneDropped  PROVE CallLeavesNothing
    OBVIOUS
  <2>1. ASSUME NEW e \in pending_requests
        PROVE  \E t \in Threads : pc[t] # "idle" /\ e = <<seq[t], mine[t]>>
    <3>1. PICK s \in Nat, c \in Ctxs : e = <<s, c>>
      BY <2>1 DEF TypeOK
    <3>2. PICK t \in Threads : pc[t] \in Listed /\ mine[t] = c /\ seq[t] = s
      BY <2>1, <3>1, Zenon DEF CallInv, PendingOwned
    <3>3. pc[t] # "idle"
      BY <3>2, Zenon DEF Listed
    <3> QED  BY <3>1, <3>2, <3>3, Zenon
  <2> QED  BY <2>1, Zenon DEF CallLeavesNothing, NoneDropped
<1> QED  BY <1>1, <1>2, DroppedStep, CallInvariant, PTL DEF Spec
=============================================================================
