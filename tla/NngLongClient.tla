---------------------------- MODULE NngLongClient ----------------------------
(***************************************************************************)
(* The calls of one module through lib/ipc_nng_long: the message pairs on  *)
(* which callers wait, the workers that receive the answers and the timers *)
(* of asynchronous calls.  Of the daemon there is what it guarantees: a    *)
(* request gets at most one answer, at any time after it was sent, or none *)
(* (OnePlace of NngLongDaemon).                                            *)
(*                                                                         *)
(* A caller holds the mutex of its pair from the lock until it waits, and  *)
(* from the end of its wait until it has given the pair back; a worker,    *)
(* while it completes a synchronous call.  The search for an idle pair,    *)
(* the search for an event_id and all that is done for an asynchronous     *)
(* call, the timer's handler included, go without that mutex.  A pair is   *)
(* given back store by store, so another call can take it in between.      *)
(***************************************************************************)
EXTENDS Integers

CONSTANTS
    Threads,    \* callers
    Workers,    \* the works of the client (3 in the code)
    NPairs,     \* D_IPC_NNG_LONG_MESSAGE_PAIR_COUNT (8 in the code)
    MaxCalls    \* bound: calls made

ASSUME ClientAssumption == NPairs \in Nat \ {0} /\ MaxCalls \in Nat

VARIABLES
    msg_pair,   \* the pairs
    timer,      \* timer_aio of each pair
    call,       \* the call each thread is in
    scanner,    \* who holds mtx_msg_pair
    index,      \* get_index: it tells the event_ids apart
    wire,       \* requests the daemon may still answer
    work,       \* the answer each worker is at
    outcome,    \* outcome[e]: what came of call e (history)
    mixed,      \* pairs taken while someone was still at them (history)
    stray       \* the first pair was marked while nobody had it (history)

history == <<outcome, mixed, stray>>
vars == <<msg_pair, timer, call, scanner, index, wire, work, outcome, mixed, stray>>

Pairs == 1..NPairs
Calls == 1..MaxCalls

\* A result: that of the answer to call e is e; no result, a timeout.
NoResult == -1
TimedOut == -8
Results == Calls \cup {NoResult, TimedOut}

Idle == [is_used |-> FALSE, event_id |-> 0, cond_true |-> FALSE, expire |-> FALSE,
         ret |-> NoResult]
NoTimer == [armed |-> FALSE, fired |-> FALSE, store |-> 0]
NoCall == [pc |-> "idle", kind |-> "none", at |-> 0, event |-> 0, woken |-> "no", store |-> 0]
NoWork == [event |-> 0, kind |-> "none", at |-> 0, store |-> 0]

Init ==
    /\ msg_pair = [i \in Pairs |-> Idle]
    /\ timer = [i \in Pairs |-> NoTimer]
    /\ call = [t \in Threads |-> NoCall]
    /\ scanner = {}
    /\ index = 1
    /\ wire = {}
    /\ work = [w \in Workers |-> NoWork]
    /\ outcome = [e \in Calls |-> 0]
    /\ mixed = {}
    /\ stray = FALSE

\* The n-th of the stores that give a pair back.
Reset(pair, n) ==
    CASE n = 1 -> [pair EXCEPT !.is_used = FALSE]
      [] n = 2 -> [pair EXCEPT !.event_id = 0]
      [] n = 3 -> [pair EXCEPT !.expire = FALSE]

\* Who is at pair i: a caller, a worker with an answer, the timer or its handler.
At(t, i) == call[t].pc \in {"found", "wait", "release"} /\ call[t].at = i
Works(w, i) == work[w].kind # "none" /\ work[w].at = i
Times(i) == timer[i].armed \/ timer[i].fired \/ timer[i].store # 0

Busy(i) ==
    (\E t \in Threads : At(t, i)) \/ (\E w \in Workers : Works(w, i)) \/ Times(i)

\* A caller has the mutex of pair i.
Locked(i) ==
    \E t \in Threads :
       /\ call[t].at = i
       /\ call[t].pc = "release" \/ (call[t].pc = "wait" /\ call[t].woken = "sent")

-----------------------------------------------------------------------------
(***************************************************************************)
(* A caller.  "sync" stands for notify, sync, stream and multicast calls,  *)
(* which differ in the message only.                                       *)
(***************************************************************************)

\* ipc_nng_long_find_idle_message_pair, from the lock of mtx_msg_pair.
Begin(t, kind) ==
    /\ call[t] = NoCall
    /\ scanner = {}
    /\ index <= MaxCalls
    /\ scanner' = {t}
    /\ call' = [call EXCEPT ![t] = [NoCall EXCEPT !.pc = "scan", !.kind = kind, !.at = 1]]
    /\ UNCHANGED <<msg_pair, timer, index, wire, work, history>>

\* The mark goes on the first pair, whichever pair was found idle.
Marked(i) == [msg_pair EXCEPT ![1] = [@ EXCEPT !.is_used = TRUE]]

Found(t) ==
    LET i == call[t].at
    IN /\ call[t].pc = "scan"
       /\ ~msg_pair[i].is_used
       /\ msg_pair' = Marked(i)
       /\ scanner' = {}
       /\ index' = index + 1
       /\ call' = [call EXCEPT ![t] = [@ EXCEPT !.pc = "found", !.event = index]]
       /\ mixed' = mixed \cup {j \in {i} : Busy(j)}
       /\ stray' = (stray \/ (i # 1 /\ ~msg_pair[1].is_used))
       /\ UNCHANGED <<timer, wire, work, outcome>>

NotFound(t) ==
    LET i == call[t].at
    IN /\ call[t].pc = "scan"
       /\ msg_pair[i].is_used
       /\ \/ /\ i < NPairs
             /\ call' = [call EXCEPT ![t] = [@ EXCEPT !.at = i + 1]]
             /\ UNCHANGED scanner
          \/ /\ i = NPairs
             /\ call' = [call EXCEPT ![t] = NoCall]
             /\ scanner' = {}
       /\ UNCHANGED <<msg_pair, timer, index, wire, work, history>>

\* The pair with a call in it.  Its fields are set before the request is sent; a
\* send that fails is only logged.
Taken(pair, e) ==
    [is_used |-> TRUE, event_id |-> e, cond_true |-> FALSE, expire |-> TRUE, ret |-> NoResult]

Sends(e, kind) == wire' \in {wire, wire \cup {<<e, kind>>}}

\* ipc_nng_long_send_notify, _sync, _stream, _multicast: to the loop.
SendSync(t) ==
    LET i == call[t].at
        e == call[t].event
    IN /\ call[t].pc = "found"
       /\ call[t].kind = "sync"
       /\ ~Locked(i)
       /\ msg_pair' = [msg_pair EXCEPT ![i] = Taken(@, e)]
       /\ Sends(e, "sync")
       /\ call' = [call EXCEPT ![t] = [@ EXCEPT !.pc = "wait", !.woken = "sent"]]
       /\ UNCHANGED <<timer, scanner, index, work, history>>

\* ipc_nng_long_send_async.
SendAsync(t) ==
    LET i == call[t].at
        e == call[t].event
    IN /\ call[t].pc = "found"
       /\ call[t].kind = "async"
       /\ msg_pair' = [msg_pair EXCEPT ![i] = Taken(@, e)]
       /\ timer' = [timer EXCEPT ![i] = [@ EXCEPT !.armed = TRUE]]
       /\ Sends(e, "async")
       /\ call' = [call EXCEPT ![t] = NoCall]
       /\ UNCHANGED <<scanner, index, work, history>>

\* nng_cv_until returns unasked: the time is over ("timeout"), or for no reason.
Wake(t, why) ==
    /\ call[t].pc = "wait"
    /\ call[t].woken = "no"
    /\ call' = [call EXCEPT ![t] = [@ EXCEPT !.woken = why]]
    /\ UNCHANGED <<msg_pair, timer, scanner, index, wire, work, history>>

\* The loop ends when the answer is there, or someone has reset the pair; not when
\* the time is over.
Ends(pair) == pair.cond_true \/ ~pair.expire

\* The test of the loop, before the first wait or after one.
Resume(t) ==
    LET i == call[t].at
        e == call[t].event
        ret == CASE call[t].woken = "signal" -> msg_pair[i].ret
                 [] call[t].woken = "timeout" -> TimedOut
                 [] call[t].woken = "sent" -> NoResult
    IN /\ call[t].pc = "wait"
       /\ call[t].woken # "no"
       /\ call[t].woken = "sent" \/ ~Locked(i)
       /\ \/ /\ ~Ends(msg_pair[i])
             /\ call' = [call EXCEPT ![t] = [@ EXCEPT !.woken = "no"]]
             /\ UNCHANGED outcome
          \/ /\ Ends(msg_pair[i])
             /\ call' = [call EXCEPT ![t] = [@ EXCEPT !.pc = "release", !.store = 1]]
             /\ outcome' = [outcome EXCEPT ![e] = ret]
       /\ UNCHANGED <<msg_pair, timer, scanner, index, wire, work, mixed, stray>>

\* The caller gives its pair back; cond_true goes with the last store, and then the
\* mutex.
GiveBack(t) ==
    LET i == call[t].at
        n == call[t].store
    IN /\ call[t].pc = "release"
       /\ \/ /\ n < 3
             /\ msg_pair' = [msg_pair EXCEPT ![i] = Reset(@, n)]
             /\ call' = [call EXCEPT ![t] = [@ EXCEPT !.store = n + 1]]
          \/ /\ n = 3
             /\ msg_pair' = [msg_pair EXCEPT ![i] = [Reset(@, n) EXCEPT !.cond_true = FALSE]]
             /\ call' = [call EXCEPT ![t] = NoCall]
       /\ UNCHANGED <<timer, scanner, index, wire, work, history>>

-----------------------------------------------------------------------------
(***************************************************************************)
(* A worker in server_cb_recv, with an answer.                             *)
(***************************************************************************)

M_Matching(e) == {i \in Pairs : msg_pair[i].is_used}

Matching(e) == {i \in Pairs : msg_pair[i].event_id = e}

\* The first pair that has the event_id of the answer; none, and nobody cares.
\* The handler of an asynchronous call runs before its pair is given back.
Receive(w) ==
    /\ work[w] = NoWork
    /\ \E m \in wire :
          LET e == m[1]
              hits == Matching(e)
          IN /\ wire' = wire \ {m}
             /\ \/ hits = {} /\ UNCHANGED <<work, outcome>>
                \/ \E i \in hits :
                      /\ \A j \in hits : i <= j
                      /\ work' = [work EXCEPT ![w] = [event |-> e, kind |-> m[2], at |-> i,
                                                      store |-> 1]]
                      /\ outcome' = IF m[2] = "async" THEN [outcome EXCEPT ![e] = e]
                                    ELSE outcome
    /\ UNCHANGED <<msg_pair, timer, call, scanner, index, mixed, stray>>

Sleepers(i) ==
    {t \in Threads : call[t].pc = "wait" /\ call[t].at = i /\ call[t].woken = "no"}

\* nng_cv_wake1.
Woken(i) ==
    IF Sleepers(i) = {} THEN {call}
    ELSE {[call EXCEPT ![t] = [@ EXCEPT !.woken = "signal"]] : t \in Sleepers(i)}

M_CompleteSync(w) ==
    LET i == work[w].at
    IN /\ work[w].kind = "sync"
       /\ ~Locked(i)
       /\ msg_pair' = [msg_pair EXCEPT ![i] = [@ EXCEPT !.ret = work[w].event]]
       /\ call' \in Woken(i)
       /\ work' = [work EXCEPT ![w] = NoWork]
       /\ UNCHANGED <<timer, scanner, index, wire, history>>

\* REP, STREAM_REP, MULT_REP.
CompleteSync(w) ==
    LET i == work[w].at
    IN /\ work[w].kind = "sync"
       /\ ~Locked(i)
       /\ msg_pair' = [msg_pair EXCEPT ![i] = [@ EXCEPT !.ret = work[w].event, !.cond_true = TRUE]]
       /\ call' \in Woken(i)
       /\ work' = [work EXCEPT ![w] = NoWork]
       /\ UNCHANGED <<timer, scanner, index, wire, history>>

M_AsyncGivesBack(w) ==
    LET i == work[w].at
        n == work[w].store
    IN /\ work[w].kind = "async"
       /\ n <= 3
       /\ msg_pair' = [msg_pair EXCEPT ![i] = IF n = 1 THEN @ ELSE Reset(@, n)]
       /\ work' = [work EXCEPT ![w] = [@ EXCEPT !.store = n + 1]]
       /\ UNCHANGED <<timer, call, scanner, index, wire, history>>

\* ASYNC_REP: once the handler has returned, the worker gives the pair back ...
AsyncGivesBack(w) ==
    LET i == work[w].at
        n == work[w].store
    IN /\ work[w].kind = "async"
       /\ n <= 3
       /\ msg_pair' = [msg_pair EXCEPT ![i] = Reset(@, n)]
       /\ work' = [work EXCEPT ![w] = [@ EXCEPT !.store = n + 1]]
       /\ UNCHANGED <<timer, call, scanner, index, wire, history>>

\* ... and cancels the timer, which does not stop a callback that is on its way.
AsyncCancels(w) ==
    LET i == work[w].at
    IN /\ work[w].kind = "async"
       /\ work[w].store = 4
       /\ timer' = [timer EXCEPT ![i] = [@ EXCEPT !.armed = FALSE]]
       /\ work' = [work EXCEPT ![w] = NoWork]
       /\ UNCHANGED <<msg_pair, call, scanner, index, wire, history>>

-----------------------------------------------------------------------------
Fire(i) ==
    /\ timer[i].armed
    /\ timer' = [timer EXCEPT ![i] = [@ EXCEPT !.armed = FALSE, !.fired = TRUE]]
    /\ UNCHANGED <<msg_pair, call, scanner, index, wire, work, history>>

\* The handler of the timer finds the pair used, or has nothing to do ...
send_request_async_timeout_handle(i) ==
    /\ timer[i].fired
    /\ timer[i].store = 0
    /\ \E n \in {0, 1} :
          /\ n = 1 <=> msg_pair[i].is_used
          /\ timer' = [timer EXCEPT ![i] = [@ EXCEPT !.fired = FALSE, !.store = n]]
    /\ UNCHANGED <<msg_pair, call, scanner, index, wire, work, history>>

\* ... and gives it back.
TimeoutGivesBack(i) ==
    LET n == timer[i].store
    IN /\ n # 0
       /\ msg_pair' = [msg_pair EXCEPT ![i] = Reset(@, n)]
       /\ timer' = [timer EXCEPT ![i] = [@ EXCEPT !.store = IF n = 3 THEN 0 ELSE n + 1]]
       /\ UNCHANGED <<call, scanner, index, wire, work, history>>

Next ==
    \/ \E t \in Threads :
          \/ \E kind \in {"sync", "async"} : Begin(t, kind)
          \/ Found(t) \/ NotFound(t) \/ SendSync(t) \/ SendAsync(t) \/ Resume(t) \/ GiveBack(t)
          \/ \E why \in {"timeout", "signal"} : Wake(t, why)
    \/ \E w \in Workers : Receive(w) \/ CompleteSync(w) \/ AsyncGivesBack(w) \/ AsyncCancels(w)
    \/ \E i \in Pairs : Fire(i) \/ send_request_async_timeout_handle(i) \/ TimeoutGivesBack(i)

\* The threads that can go on do, and every wait comes to its time, however often
\* it is interrupted.
Spec ==
    /\ Init /\ [][Next]_vars
    /\ \A t \in Threads : /\ SF_vars(Wake(t, "timeout"))
                         /\ WF_vars(Resume(t)) /\ WF_vars(GiveBack(t))
    /\ \A w \in Workers : WF_vars(CompleteSync(w))

-----------------------------------------------------------------------------
(***************************************************************************)
(* Properties.                                                             *)
(***************************************************************************)
MessagePair == [is_used : BOOLEAN, event_id : Calls \cup {0}, cond_true : BOOLEAN,
                expire : BOOLEAN, ret : Results]
Timer == [armed : BOOLEAN, fired : BOOLEAN, store : 0..3]
Call == [pc : {"idle", "scan", "found", "wait", "release"}, kind : {"none", "sync", "async"},
         at : Pairs \cup {0}, event : Calls \cup {0},
         woken : {"no", "sent", "signal", "timeout"}, store : 0..3]
Work == [event : Calls \cup {0}, kind : {"none", "sync", "async"}, at : Pairs \cup {0},
         store : 0..4]

\* Every variable has its type; a search for a pair stays within the pairs.
TypeOK ==
    /\ msg_pair \in [Pairs -> MessagePair]
    /\ timer \in [Pairs -> Timer]
    /\ call \in [Threads -> Call]
    /\ scanner \subseteq Threads
    /\ index \in 1 .. MaxCalls + 1
    /\ wire \subseteq Calls \X {"sync", "async"}
    /\ work \in [Workers -> Work]
    /\ outcome \in [Calls -> Results \cup {0}]
    /\ mixed \subseteq Pairs
    /\ stray \in BOOLEAN

\* A call returns its own answer or a timeout, never the answer to another call,
\* as long as no pair was taken while someone was still at it.
OwnAnswer == mixed = {} => \A e \in Calls : outcome[e] \in {0, e, TimedOut}

\* A call that waits is found by its answer, and ends by nothing else, at a pair that
\* was never taken while someone was still at it.
WaiterIsFound ==
    \A t \in Threads : call[t].pc = "wait" /\ call[t].at \notin mixed =>
       /\ msg_pair[call[t].at].event_id = call[t].event
       /\ msg_pair[call[t].at].is_used /\ msg_pair[call[t].at].expire

\* Someone is going to give pair i back.
WillComeBack(i) ==
    \/ \E t \in Threads : At(t, i) /\ (call[t].pc = "release" => call[t].store = 1)
    \/ \E w \in Workers : Works(w, i) /\ work[w].kind = "async" /\ work[w].store = 1
    \/ timer[i].armed \/ timer[i].fired \/ timer[i].store = 1

\* A pair that is marked as used has a call or a timer that will give it back.  Lost
\* are only pairs that were taken while someone was still at them, and the first one
\* once it was marked for nobody.
PairsComeBack ==
    \A i \in Pairs \ mixed : msg_pair[i].is_used => WillComeBack(i) \/ (i = 1 /\ stray)

\* No pair is lost at all.
NoPairIsLost == \A i \in Pairs : msg_pair[i].is_used => WillComeBack(i)

\* A call whose answer a worker has found returns.
AnsweredReturns ==
    \A w \in Workers : \A e \in Calls :
       (work[w].event = e /\ work[w].kind = "sync") ~> (outcome[e] # 0 \/ mixed # {})

\* "wait ... timeout ... fixed ... notify", "unfixed ... sync" (ipc_nng_long.h:89-92):
\* a call that waits comes back, with the answer or at its timeout.
CallReturns == \A t \in Threads : call[t].pc = "wait" ~> call[t].pc # "wait"
=============================================================================
