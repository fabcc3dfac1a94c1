------------------------- MODULE NngLongClientProofs -------------------------
(***************************************************************************)
(* The calls of one process through lib/ipc_nng_long, for any number of    *)
(* threads, workers, pairs and calls.                                      *)
(*                                                                         *)
(* An event_id is given once, to one thread (GivenInv, OneInv), and is     *)
(* nowhere before its call is sent (SentInv).  The rest is said of one     *)
(* pair (PairOK), as long as it was never taken while someone was still at *)
(* it: a caller is alone there, an answer that finds the pair is its own,  *)
(* and whoever gives the pair back is the only one to do so.  A step at    *)
(* one pair leaves the others as they are (Apart, ApartOK).                *)
(***************************************************************************)
EXTENDS NngLongClient, TLAPS

\* Thread t has an event_id and a pair.
Active(t) == call[t].pc \in {"found", "wait", "release"}

\* The event_ids given so far.
Given == {e \in Calls : e < index}

\* One thread at a time searches for a pair, and the next event_id is there.
ScanInv ==
    \A t \in Threads : call[t].pc = "scan" =>
       scanner = {t} /\ index <= MaxCalls /\ call[t].at \in Pairs

\* Who gives a pair back is at one of the stores; a worker cancels the timer last.
StoreInv ==
    /\ \A t \in Threads : call[t].pc = "release" => call[t].store \in {1, 2, 3}
    /\ \A w \in Workers : work[w].kind # "none" => work[w].store \in {1, 2, 3, 4}

\* What has an event_id has one that was given.
GivenInv ==
    /\ \A t \in Threads : Active(t) => call[t].at \in Pairs /\ call[t].event \in Given
    /\ \A m \in wire : m[1] \in Given
    /\ \A w \in Workers : work[w].kind # "none" => work[w].event \in Given /\ work[w].at \in Pairs
    /\ \A i \in Pairs : msg_pair[i].event_id \in Given \cup {0}

\* An event_id is that of one thread and of one answer.
OneInv ==
    /\ \A t, u \in Threads : Active(t) /\ Active(u) /\ call[t].event = call[u].event => t = u
    /\ \A v, w \in Workers : work[v].kind = "sync" /\ work[w].kind = "sync"
                             /\ work[v].event = work[w].event => v = w
    /\ \A w \in Workers : work[w].kind = "sync" => <<work[w].event, "sync">> \notin wire

\* Nothing has the event_id of a call before it is sent.
SentInv ==
    \A t \in Threads : call[t].pc = "found" =>
       /\ \A m \in wire : m[1] # call[t].event
       /\ \A w \in Workers : work[w].kind # "none" => work[w].event # call[t].event
       /\ \A i \in Pairs : msg_pair[i].event_id # call[t].event

\* A caller at pair i is alone there, but for a worker that has its answer.
AloneAt(i) ==
    \A t \in Threads : At(t, i) =>
       /\ \A u \in Threads : At(u, i) => u = t
       /\ ~Times(i)
       /\ \A w \in Workers : Works(w, i) => work[w].kind = "sync" /\ call[t].pc = "wait"

\* A call that waits at pair i has its fields there.
WaitsAt(i) ==
    \A t \in Threads : At(t, i) /\ call[t].pc = "wait" =>
       /\ msg_pair[i].event_id = call[t].event /\ msg_pair[i].is_used /\ msg_pair[i].expire
       /\ msg_pair[i].cond_true => msg_pair[i].ret = call[t].event /\ call[t].woken # "sent"

\* The call with event_id e waits at pair i and has no answer yet.
Unanswered(e, i) ==
    \E t \in Threads : /\ At(t, i) /\ call[t].pc = "wait" /\ call[t].event = e
                       /\ ~msg_pair[i].cond_true

\* An answer that has found pair i, or would, is that of the call there.
AnswersAt(i) ==
    /\ \A w \in Workers : Works(w, i) /\ work[w].kind = "sync" => Unanswered(work[w].event, i)
    /\ \A e \in Calls : msg_pair[i].event_id = e /\ <<e, "sync">> \in wire => Unanswered(e, i)
    /\ \A e \in Calls : msg_pair[i].event_id = e /\ <<e, "async">> \in wire =>
          \A t \in Threads : ~At(t, i)

\* Who is going to clear the event_id of pair i.
WillClear(i) ==
    \/ \E t \in Threads : At(t, i) /\ call[t].pc # "found"
                          /\ (call[t].pc = "release" => call[t].store # 3)
    \/ \E w \in Workers : Works(w, i) /\ work[w].kind = "async" /\ work[w].store \in {1, 2}
    \/ timer[i].store \in {1, 2}
    \/ msg_pair[i].is_used /\ (timer[i].armed \/ timer[i].fired)

\* How far pair i has been given back.
GivenBackAt(i) ==
    /\ msg_pair[i].event_id # 0 => WillClear(i)
    /\ \A t \in Threads : At(t, i) /\ call[t].pc = "release" /\ call[t].store = 3 =>
          msg_pair[i].event_id = 0
    /\ \A w \in Workers : Works(w, i) /\ work[w].kind = "async" =>
          /\ work[w].store \in {2, 3, 4} /\ msg_pair[i].is_used => i = 1 /\ stray
          /\ work[w].store \in {3, 4} => msg_pair[i].event_id = 0
    /\ msg_pair[i].is_used => WillComeBack(i) \/ (i = 1 /\ stray)

\* The invariant of a pair that was never taken while someone was still at it.
PairOK(i) == AloneAt(i) /\ WaitsAt(i) /\ AnswersAt(i) /\ GivenBackAt(i)

PairInv == \A i \in Pairs \ mixed : PairOK(i)

-----------------------------------------------------------------------------
\* The records of the model, and how the actions change them.
LEMMA Records ==
  /\ Idle \in MessagePair /\ NoTimer \in Timer /\ NoCall \in Call /\ NoWork \in Work
  /\ NoCall.pc = "idle" /\ NoWork.kind = "none"
<1>1. Idle \in MessagePair /\ NoCall \in Call /\ NoCall.pc = "idle" /\ NoWork.kind = "none"
  BY DEF Idle, MessagePair, NoCall, Call, NoWork, Results
<1>2. NoTimer \in Timer /\ NoWork \in Work
  BY DEF NoTimer, Timer, NoWork, Work
<1> QED  BY <1>1, <1>2, Zenon

\* How a pair is taken, marked and answered.
LEMMA PairRecords ==
  /\ \A p \in MessagePair : [p EXCEPT !.is_used = TRUE] \in MessagePair
  /\ \A p \in MessagePair, e \in Calls :
        /\ Taken(p, e) \in MessagePair
        /\ Taken(p, e).is_used /\ Taken(p, e).expire /\ ~Taken(p, e).cond_true
        /\ Taken(p, e).event_id = e
        /\ [p EXCEPT !.ret = e, !.cond_true = TRUE] \in MessagePair
<1>1. ASSUME NEW p \in MessagePair  PROVE [p EXCEPT !.is_used = TRUE] \in MessagePair
  BY Zenon DEF MessagePair
<1>2. ASSUME NEW p \in MessagePair, NEW e \in Calls
      PROVE  /\ Taken(p, e) \in MessagePair
             /\ Taken(p, e).is_used /\ Taken(p, e).expire /\ ~Taken(p, e).cond_true
             /\ Taken(p, e).event_id = e
  BY Zenon DEF Taken, MessagePair, Results
<1>3. ASSUME NEW p \in MessagePair, NEW e \in Calls
      PROVE  [p EXCEPT !.ret = e, !.cond_true = TRUE] \in MessagePair
  BY Zenon DEF MessagePair, Results
<1> QED  BY <1>1, <1>2, <1>3, Zenon

\* How a pair is given back: what each of the three stores clears.
Cleared(p, q, n) ==
    /\ q \in MessagePair
    /\ n = 1 => ~q.is_used /\ q.event_id = p.event_id
    /\ n = 2 => q.is_used = p.is_used /\ q.event_id = 0
    /\ n = 3 => q.is_used = p.is_used /\ q.event_id = p.event_id

LEMMA ResetRecords ==
  ASSUME NEW p \in MessagePair, NEW n \in {1, 2, 3}
  PROVE  Cleared(p, Reset(p, n), n) /\ Cleared(p, [Reset(p, n) EXCEPT !.cond_true = FALSE], n)
<1>1. CASE n = 1
  <2> DEFINE q == [p EXCEPT !.is_used = FALSE]
             r == [q EXCEPT !.cond_true = FALSE]
  <2>1. n # 2 /\ n # 3
    BY <1>1
  <2>2. Reset(p, n) = q
    BY <1>1, <2>1, Zenon DEF Reset
  <2>3. q \in MessagePair /\ ~q.is_used /\ q.event_id = p.event_id
    BY Zenon DEF MessagePair
  <2>4. r \in MessagePair /\ ~r.is_used /\ r.event_id = p.event_id
    BY Zenon DEF MessagePair
  <2> HIDE DEF q, r
  <2>5. Cleared(p, q, n) /\ Cleared(p, r, n)
    BY <2>1, <2>3, <2>4, Zenon DEF Cleared
  <2> QED  BY <2>2, <2>5, Zenon DEF r
<1>2. CASE n = 2
  <2> DEFINE q == [p EXCEPT !.event_id = 0]
             r == [q EXCEPT !.cond_true = FALSE]
  <2>1. n # 1 /\ n # 3
    BY <1>2
  <2>2. Reset(p, n) = q
    BY <1>2, <2>1, Zenon DEF Reset
  <2>3. q \in MessagePair /\ q.is_used = p.is_used /\ q.event_id = 0
    BY Zenon DEF MessagePair
  <2>4. r \in MessagePair /\ r.is_used = p.is_used /\ r.event_id = 0
    BY Zenon DEF MessagePair
  <2> HIDE DEF q, r
  <2>5. Cleared(p, q, n) /\ Cleared(p, r, n)
    BY <2>1, <2>3, <2>4, Zenon DEF Cleared
  <2> QED  BY <2>2, <2>5, Zenon DEF r
<1>3. CASE n = 3
  <2> DEFINE q == [p EXCEPT !.expire = FALSE]
             r == [q EXCEPT !.cond_true = FALSE]
  <2>1. n # 1 /\ n # 2
    BY <1>3
  <2>2. Reset(p, n) = q
    BY <1>3, <2>1, Zenon DEF Reset
  <2>3. q \in MessagePair /\ q.is_used = p.is_used /\ q.event_id = p.event_id
    BY Zenon DEF MessagePair
  <2>4. r \in MessagePair /\ r.is_used = p.is_used /\ r.event_id = p.event_id
    BY Zenon DEF MessagePair
  <2> HIDE DEF q, r
  <2>5. Cleared(p, q, n) /\ Cleared(p, r, n)
    BY <2>1, <2>3, <2>4, Zenon DEF Cleared
  <2> QED  BY <2>2, <2>5, Zenon DEF r
<1> QED  BY <1>1, <1>2, <1>3, Zenon

\* How a call goes on.
LEMMA CallRecords ==
  /\ \A c \in Call, e \in Calls : [c EXCEPT !.pc = "found", !.event = e] \in Call
  /\ \A c \in Call, i \in Pairs : [c EXCEPT !.at = i] \in Call
  /\ \A c \in Call : [c EXCEPT !.pc = "wait", !.woken = "sent"] \in Call
  /\ \A c \in Call : [c EXCEPT !.pc = "release", !.store = 1] \in Call
  /\ \A c \in Call, n \in 0..3 : [c EXCEPT !.store = n] \in Call
  /\ \A c \in Call, why \in {"no", "signal", "timeout"} : [c EXCEPT !.woken = why] \in Call
  /\ \A kind \in {"sync", "async"} :
        [NoCall EXCEPT !.pc = "scan", !.kind = kind, !.at = 1] \in Call
<1>0. 1 \in Pairs /\ 1 \in 0..3 /\ 0 \in 0..3
  BY ClientAssumption DEF Pairs
<1>1. \A c \in Call, e \in Calls : [c EXCEPT !.pc = "found", !.event = e] \in Call
  BY Zenon DEF Call
<1>2. \A c \in Call, i \in Pairs : [c EXCEPT !.at = i] \in Call
  BY Zenon DEF Call
<1>3. \A c \in Call : [c EXCEPT !.pc = "wait", !.woken = "sent"] \in Call
  BY Zenon DEF Call
<1>4. \A c \in Call : [c EXCEPT !.pc = "release", !.store = 1] \in Call
  BY <1>0, Zenon DEF Call
<1>5. \A c \in Call, n \in 0..3 : [c EXCEPT !.store = n] \in Call
  BY Zenon DEF Call
<1>6. \A c \in Call, why \in {"no", "signal", "timeout"} : [c EXCEPT !.woken = why] \in Call
  BY Zenon DEF Call
<1>7. \A kind \in {"sync", "async"} :
        [NoCall EXCEPT !.pc = "scan", !.kind = kind, !.at = 1] \in Call
  BY <1>0, Zenon DEF Call, NoCall
<1> QED  BY <1>1, <1>2, <1>3, <1>4, <1>5, <1>6, <1>7, Zenon

\* How a timer is set, comes to its time and runs its handler.
LEMMA TimerRecords ==
  /\ \A c \in Timer : /\ [c EXCEPT !.armed = TRUE] \in Timer
                       /\ [c EXCEPT !.armed = FALSE] \in Timer
                       /\ [c EXCEPT !.armed = FALSE, !.fired = TRUE] \in Timer
  /\ \A c \in Timer, n \in 0..3 : /\ [c EXCEPT !.fired = FALSE, !.store = n] \in Timer
                                  /\ [c EXCEPT !.store = n] \in Timer
<1>1. ASSUME NEW c \in Timer
      PROVE  /\ [c EXCEPT !.armed = TRUE] \in Timer
             /\ [c EXCEPT !.armed = FALSE] \in Timer
             /\ [c EXCEPT !.armed = FALSE, !.fired = TRUE] \in Timer
  BY Zenon DEF Timer
<1>2. ASSUME NEW c \in Timer, NEW n \in 0..3
      PROVE  /\ [c EXCEPT !.fired = FALSE, !.store = n] \in Timer
             /\ [c EXCEPT !.store = n] \in Timer
  BY Zenon DEF Timer
<1> QED  BY <1>1, <1>2, Zenon

\* What the invariants say of the values the actions use.
LEMMA Uses ==
  ASSUME TypeOK, GivenInv
  PROVE  /\ index \in Nat /\ Given \subseteq Calls /\ Calls \subseteq Nat /\ 0 \notin Calls
         /\ \A t \in Threads : Active(t) => call[t].at \in Pairs /\ call[t].event \in Calls
         /\ \A w \in Workers : work[w].kind # "none" =>
               work[w].event \in Calls /\ work[w].at \in Pairs
         /\ \A i \in Pairs : msg_pair[i] \in MessagePair /\ timer[i] \in Timer
         /\ \A t \in Threads : call[t] \in Call
         /\ \A w \in Workers : work[w] \in Work
<1>1. index \in Nat /\ Given \subseteq Calls /\ Calls \subseteq Nat /\ 0 \notin Calls
  BY ClientAssumption DEF TypeOK, Given, Calls
<1>2. /\ \A t \in Threads : Active(t) => call[t].at \in Pairs /\ call[t].event \in Calls
      /\ \A w \in Workers : work[w].kind # "none" =>
            work[w].event \in Calls /\ work[w].at \in Pairs
  BY <1>1, Zenon DEF GivenInv
<1>3. /\ \A i \in Pairs : msg_pair[i] \in MessagePair /\ timer[i] \in Timer
      /\ \A t \in Threads : call[t] \in Call
      /\ \A w \in Workers : work[w] \in Work
  BY Zenon DEF TypeOK
<1> QED  BY <1>1, <1>2, <1>3, Zenon

-----------------------------------------------------------------------------
(***************************************************************************)
(* Steps that leave the event_ids, or a pair, as they are.                 *)
(***************************************************************************)

\* No event_id comes to a place where it was not.
Shrinks ==
    /\ \A t \in Threads : Active(t)' =>
          /\ Active(t) /\ call'[t].at = call[t].at /\ call'[t].event = call[t].event
          /\ call'[t].pc = "found" => call[t].pc = "found"
    /\ \A w \in Workers : work'[w].kind # "none" =>
          /\ work'[w].kind = work[w].kind /\ work'[w].event = work[w].event
          /\ work'[w].at = work[w].at
    /\ \A i \in Pairs : msg_pair'[i].event_id \in {msg_pair[i].event_id, 0}
    /\ index' = index /\ wire' \subseteq wire

LEMMA ShrinksOK ==
  ASSUME TypeOK, GivenInv, OneInv, SentInv, Shrinks
  PROVE  GivenInv' /\ OneInv' /\ SentInv'
<1>1. Given' = Given
  BY Zenon DEF Shrinks, Given
<1>2. GivenInv'
  <2>1. \A t \in Threads : Active(t)' => call'[t].at \in Pairs /\ call'[t].event \in Given
    BY Zenon DEF GivenInv, Shrinks
  <2>2. \A w \in Workers : work'[w].kind # "none" =>
           work'[w].event \in Given /\ work'[w].at \in Pairs
    BY Zenon DEF GivenInv, Shrinks
  <2>3. \A i \in Pairs : msg_pair'[i].event_id \in Given \cup {0}
    BY Zenon DEF GivenInv, Shrinks
  <2>4. \A m \in wire' : m[1] \in Given
    BY Zenon DEF GivenInv, Shrinks
  <2> QED  BY <1>1, <2>1, <2>2, <2>3, <2>4, Zenon DEF GivenInv
<1>3. OneInv'
  <2>1. \A t, u \in Threads : Active(t)' /\ Active(u)' /\ call'[t].event = call'[u].event => t = u
    BY Zenon DEF OneInv, Shrinks
  <2>2. \A w \in Workers : work'[w].kind = "sync" =>
           work[w].kind = "sync" /\ work'[w].event = work[w].event
    BY DEF Shrinks
  <2>3. \A v, w \in Workers : work'[v].kind = "sync" /\ work'[w].kind = "sync"
                             /\ work'[v].event = work'[w].event => v = w
    BY <2>2, Zenon DEF OneInv
  <2>4. \A w \in Workers : work'[w].kind = "sync" => <<work'[w].event, "sync">> \notin wire'
    BY <2>2, Zenon DEF OneInv, Shrinks
  <2> QED  BY <2>1, <2>3, <2>4, Zenon DEF OneInv
<1>4. SentInv'
  <2> SUFFICES ASSUME NEW t \in Threads, call'[t].pc = "found"
               PROVE  /\ \A m \in wire' : m[1] # call'[t].event
                      /\ \A w \in Workers : work'[w].kind # "none" =>
                            work'[w].event # call'[t].event
                      /\ \A i \in Pairs : msg_pair'[i].event_id # call'[t].event
    BY Zenon DEF SentInv
  <2>1. call[t].pc = "found" /\ call'[t].event = call[t].event /\ Active(t)
    BY Zenon DEF Shrinks, Active
  <2>2. call[t].event # 0
    BY <2>1, Uses, Zenon
  <2>3. \A m \in wire' : m[1] # call'[t].event
    BY <2>1, Zenon DEF SentInv, Shrinks
  <2>4. \A w \in Workers : work'[w].kind # "none" => work'[w].event # call'[t].event
    BY <2>1, Zenon DEF SentInv, Shrinks
  <2>5. \A i \in Pairs : msg_pair'[i].event_id # call'[t].event
    BY <2>1, <2>2, Zenon DEF SentInv, Shrinks
  <2> QED  BY <2>3, <2>4, <2>5, Zenon
<1> QED  BY <1>2, <1>3, <1>4, Zenon

\* A step that is not at pair j: whoever is there stays as they are, and nobody comes.
\* The mark of a call at another pair may come to the first pair.
SameCall(t) ==
    /\ call'[t].pc = call[t].pc /\ call'[t].at = call[t].at /\ call'[t].event = call[t].event
    /\ call'[t].store = call[t].store
    /\ call'[t].woken = "sent" => call[t].woken = "sent"

Apart(j) ==
    /\ \A t \in Threads : (At(t, j)' => At(t, j)) /\ (At(t, j) => SameCall(t))
    /\ \A w \in Workers : (Works(w, j)' => Works(w, j)) /\ (Works(w, j) => work'[w] = work[w])
    /\ Times(j)' => Times(j)
    /\ timer'[j].store = timer[j].store
    /\ (timer[j].armed \/ timer[j].fired) => (timer'[j].armed \/ timer'[j].fired)
    /\ msg_pair'[j].event_id = msg_pair[j].event_id /\ msg_pair'[j].expire = msg_pair[j].expire
    /\ msg_pair'[j].cond_true = msg_pair[j].cond_true /\ msg_pair'[j].ret = msg_pair[j].ret
    /\ msg_pair[j].is_used => msg_pair'[j].is_used
    /\ msg_pair'[j].is_used => msg_pair[j].is_used \/ (j = 1 /\ stray')
    /\ \A e \in Calls, kind \in {"sync", "async"} :
          msg_pair[j].event_id = e /\ <<e, kind>> \in wire' => <<e, kind>> \in wire
    /\ stray => stray'

LEMMA ApartOK ==
  ASSUME NEW j \in Pairs, PairOK(j), Apart(j)
  PROVE  PairOK(j)'
<1>1. /\ \A t \in Threads : (At(t, j)' <=> At(t, j)) /\ (At(t, j) => SameCall(t))
      /\ \A w \in Workers : (Works(w, j)' <=> Works(w, j)) /\ (Works(w, j) => work'[w] = work[w])
  <2>1. \A t \in Threads : At(t, j) => At(t, j)'
    BY Zenon DEF Apart, SameCall, At
  <2>2. \A w \in Workers : Works(w, j) => Works(w, j)'
    BY Zenon DEF Apart, Works
  <2> QED  BY <2>1, <2>2, Zenon DEF Apart
<1>2. AloneAt(j)'
  <2> SUFFICES ASSUME NEW t \in Threads, At(t, j)'
               PROVE  /\ \A u \in Threads : At(u, j)' => u = t
                      /\ ~Times(j)'
                      /\ \A w \in Workers : Works(w, j)' =>
                            work'[w].kind = "sync" /\ call'[t].pc = "wait"
    BY Zenon DEF AloneAt
  <2>1. At(t, j) /\ call'[t].pc = call[t].pc
    BY <1>1, Zenon DEF SameCall
  <2>2. /\ \A u \in Threads : At(u, j) => u = t
        /\ ~Times(j)
        /\ \A w \in Workers : Works(w, j) => work[w].kind = "sync" /\ call[t].pc = "wait"
    BY <2>1, Zenon DEF AloneAt, PairOK
  <2>3. ~Times(j)'
    BY <2>2, Zenon DEF Apart
  <2> QED  BY <1>1, <2>1, <2>2, <2>3, Zenon
<1>3. WaitsAt(j)'
  BY <1>1, Zenon DEF WaitsAt, PairOK, Apart, SameCall
<1>4. \A e : Unanswered(e, j) => Unanswered(e, j)'
  BY <1>1, Zenon DEF Unanswered, Apart, SameCall
<1>5. AnswersAt(j)'
  <2>1. \A w \in Workers : Works(w, j)' /\ work'[w].kind = "sync" => Unanswered(work[w].event, j)'
    BY <1>1, <1>4, Zenon DEF AnswersAt, PairOK
  <2>2. \A w \in Workers : Works(w, j)' /\ work'[w].kind = "sync" =>
           work'[w].event = work[w].event
    BY <1>1, Zenon
  <2>3. \A e \in Calls : msg_pair'[j].event_id = e /\ <<e, "sync">> \in wire' => Unanswered(e, j)'
    BY <1>4, Zenon DEF AnswersAt, PairOK, Apart
  <2>4. \A e \in Calls : msg_pair'[j].event_id = e /\ <<e, "async">> \in wire' =>
           \A t \in Threads : ~At(t, j)'
    BY <1>1, Zenon DEF AnswersAt, PairOK, Apart
  <2> QED  BY <2>1, <2>2, <2>3, <2>4, Zenon DEF AnswersAt
<1>6. WillClear(j) => WillClear(j)'
  <2>1. (\E t \in Threads : At(t, j) /\ call[t].pc # "found"
                            /\ (call[t].pc = "release" => call[t].store # 3)) => WillClear(j)'
    BY <1>1, Zenon DEF WillClear, SameCall
  <2>2. (\E w \in Workers : Works(w, j) /\ work[w].kind = "async" /\ work[w].store \in {1, 2})
           => WillClear(j)'
    BY <1>1, Zenon DEF WillClear
  <2>3. (timer[j].store \in {1, 2} \/ (msg_pair[j].is_used /\ (timer[j].armed \/ timer[j].fired)))
           => WillClear(j)'
    BY Zenon DEF WillClear, Apart
  <2> QED  BY <2>1, <2>2, <2>3, Zenon DEF WillClear
<1>7. WillComeBack(j) => WillComeBack(j)'
  <2>1. (\E t \in Threads : At(t, j) /\ (call[t].pc = "release" => call[t].store = 1))
           => WillComeBack(j)'
    BY <1>1, Zenon DEF WillComeBack, SameCall
  <2>2. (\E w \in Workers : Works(w, j) /\ work[w].kind = "async" /\ work[w].store = 1)
           => WillComeBack(j)'
    BY <1>1, Zenon DEF WillComeBack
  <2>3. timer[j].armed \/ timer[j].fired \/ timer[j].store = 1 => WillComeBack(j)'
    BY Zenon DEF WillComeBack, Apart
  <2> QED  BY <2>1, <2>2, <2>3, Zenon DEF WillComeBack
<1>8. GivenBackAt(j)'
  <2>1. msg_pair'[j].event_id # 0 => WillClear(j)'
    BY <1>6, Zenon DEF GivenBackAt, PairOK, Apart
  <2>2. \A t \in Threads : At(t, j)' /\ call'[t].pc = "release" /\ call'[t].store = 3 =>
           msg_pair'[j].event_id = 0
    <3>1. \A t \in Threads : At(t, j)' /\ call'[t].pc = "release" /\ call'[t].store = 3 =>
             At(t, j) /\ call[t].pc = "release" /\ call[t].store = 3
      BY <1>1, Zenon DEF SameCall
    <3>2. \A t \in Threads : At(t, j) /\ call[t].pc = "release" /\ call[t].store = 3 =>
             msg_pair[j].event_id = 0
      BY Zenon DEF GivenBackAt, PairOK
    <3>3. msg_pair'[j].event_id = msg_pair[j].event_id
      BY Zenon DEF Apart
    <3> QED  BY <3>1, <3>2, <3>3, Zenon
  <2>3. \A w \in Workers : Works(w, j)' /\ work'[w].kind = "async" =>
           /\ work'[w].store \in {2, 3, 4} /\ msg_pair'[j].is_used => j = 1 /\ stray'
           /\ work'[w].store \in {3, 4} => msg_pair'[j].event_id = 0
    <3> SUFFICES ASSUME NEW w \in Workers, Works(w, j)', work'[w].kind = "async"
                 PROVE  /\ work'[w].store \in {2, 3, 4} /\ msg_pair'[j].is_used =>
                              j = 1 /\ stray'
                        /\ work'[w].store \in {3, 4} => msg_pair'[j].event_id = 0
      BY Zenon
    <3>1. Works(w, j) /\ work'[w] = work[w]
      BY <1>1, Zenon
    <3>2. /\ work[w].store \in {2, 3, 4} /\ msg_pair[j].is_used => j = 1 /\ stray
          /\ work[w].store \in {3, 4} => msg_pair[j].event_id = 0
      BY <3>1, Zenon DEF GivenBackAt, PairOK
    <3> QED  BY <3>1, <3>2, Zenon DEF Apart
  <2>4. msg_pair'[j].is_used => WillComeBack(j)' \/ (j = 1 /\ stray')
    BY <1>7, Zenon DEF GivenBackAt, PairOK, Apart
  <2> QED  BY <2>1, <2>2, <2>3, <2>4, Zenon DEF GivenBackAt
<1> QED  BY <1>2, <1>3, <1>5, <1>8, Zenon DEF PairOK

\* Threads not at pair j go on, elsewhere.
LEMMA CallsApart ==
  ASSUME NEW t \in Threads, NEW j \in Pairs, ~At(t, j), ~At(t, j)',
         \A u \in Threads \ {t} : call'[u] = call[u],
         UNCHANGED <<wire, work, stray>>, msg_pair'[j] = msg_pair[j], timer'[j] = timer[j]
  PROVE  Apart(j)
<1>1. \A u \in Threads : (At(u, j)' => At(u, j)) /\ (At(u, j) => SameCall(u))
  BY Zenon DEF At, SameCall
<1>2. \A w \in Workers : (Works(w, j)' => Works(w, j)) /\ (Works(w, j) => work'[w] = work[w])
  BY Zenon DEF Works
<1>3. Times(j)' => Times(j)
  BY Zenon DEF Times
<1> QED  BY <1>1, <1>2, <1>3, Zenon DEF Apart

\* Workers not at pair j, and timers of other pairs, go on.
LEMMA WorksApart ==
  ASSUME NEW j \in Pairs, \A t \in Threads : SameCall(t),
         \A w \in Workers : work'[w] = work[w] \/ (~Works(w, j) /\ ~Works(w, j)'),
         wire' \subseteq wire, UNCHANGED stray, msg_pair'[j] = msg_pair[j], timer'[j] = timer[j]
  PROVE  Apart(j)
<1>1. \A u \in Threads : (At(u, j)' => At(u, j)) /\ (At(u, j) => SameCall(u))
  BY Zenon DEF At, SameCall
<1>2. \A w \in Workers : (Works(w, j)' => Works(w, j)) /\ (Works(w, j) => work'[w] = work[w])
  BY Zenon DEF Works
<1>3. Times(j)' => Times(j)
  BY Zenon DEF Times
<1>4. \A e \in Calls, kind \in {"sync", "async"} : <<e, kind>> \in wire' => <<e, kind>> \in wire
  BY Zenon
<1> QED  BY <1>1, <1>2, <1>3, <1>4, Zenon DEF Apart

\* A step that changes neither the event_ids nor any pair.
Quiet == Shrinks /\ (\A j \in Pairs : Apart(j)) /\ UNCHANGED <<outcome, mixed>>


-----------------------------------------------------------------------------
(***************************************************************************)
(* What each action changes.                                               *)
(***************************************************************************)

\* Begin starts a search.
LEMMA BeginFacts ==
  ASSUME TypeOK, ScanInv, StoreInv, NEW t \in Threads, NEW kind \in {"sync", "async"}, Begin(t, kind)
  PROVE  TypeOK' /\ ScanInv' /\ StoreInv' /\ Quiet
<1> DEFINE new == [NoCall EXCEPT !.pc = "scan", !.kind = kind, !.at = 1]
<1>1. new \in Call /\ new.pc = "scan" /\ new.at \in Pairs
  <2>1. new.pc = "scan" /\ new.at = 1
    BY Zenon DEF NoCall
  <2>2. 1 \in Pairs
    BY ClientAssumption DEF Pairs
  <2> QED  BY <2>1, <2>2, CallRecords, Zenon
<1> HIDE DEF new
<1>2. /\ call[t] = NoCall /\ scanner = {} /\ index <= MaxCalls /\ scanner' = {t}
      /\ call' = [call EXCEPT ![t] = new]
      /\ UNCHANGED <<msg_pair, timer, index, wire, work, outcome, mixed, stray>>
  BY Zenon DEF Begin, new, history
<1>3. /\ call' \in [Threads -> Call] /\ call'[t] = new
      /\ \A u \in Threads \ {t} : call'[u] = call[u]
  BY <1>1, <1>2, Zenon DEF TypeOK
<1>4. TypeOK'
  BY <1>2, <1>3, Zenon DEF TypeOK
<1>5. ScanInv'
  BY <1>1, <1>2, <1>3, Zenon DEF ScanInv
<1>s. StoreInv'
  <2>1. call'[t].pc # "release"
    BY <1>1, <1>3
  <2> QED  BY <1>2, <1>3, <2>1, Zenon DEF StoreInv
<1>6. ~Active(t) /\ ~Active(t)'
  BY <1>1, <1>2, <1>3, Records, SMT DEF Active
<1>7. Shrinks
  BY <1>2, <1>3, <1>6, Zenon DEF Shrinks, Active
<1>8. ASSUME NEW j \in Pairs  PROVE Apart(j)
  BY <1>2, <1>3, <1>6, CallsApart, Zenon DEF Active, At
<1> QED  BY <1>2, <1>4, <1>5, <1>7, <1>8, <1>s, Zenon DEF Quiet

\* A search goes on, or ends without a pair.
LEMMA NotFoundFacts ==
  ASSUME TypeOK, ScanInv, StoreInv, NEW t \in Threads, NotFound(t)
  PROVE  TypeOK' /\ ScanInv' /\ StoreInv' /\ Quiet
<1>1. /\ call[t].pc = "scan" /\ scanner = {t} /\ call[t].at \in Pairs /\ index <= MaxCalls
      /\ UNCHANGED <<msg_pair, timer, index, wire, work, outcome, mixed, stray>>
  BY Zenon DEF NotFound, ScanInv, history
<1>2. ASSUME NEW new \in Call, new.pc \in {"scan", "idle"}, call' = [call EXCEPT ![t] = new]
      PROVE  Quiet /\ StoreInv'
  <2>1. call'[t] = new /\ \A u \in Threads \ {t} : call'[u] = call[u]
    BY <1>2, Zenon DEF TypeOK
  <2>2. ~Active(t) /\ ~Active(t)'
    BY <1>1, <1>2, <2>1, SMT DEF Active
  <2>3. Shrinks
    BY <1>1, <2>1, <2>2, Zenon DEF Shrinks, Active
  <2>4. ASSUME NEW j \in Pairs  PROVE Apart(j)
    BY <1>1, <2>1, <2>2, CallsApart, Zenon DEF Active, At
  <2>5. StoreInv'
    <3>1. call'[t].pc # "release"
      BY <1>2, <2>1
    <3> QED  BY <1>1, <2>1, <3>1, Zenon DEF StoreInv
  <2> QED  BY <1>1, <2>3, <2>4, <2>5, Zenon DEF Quiet
<1>3. CASE /\ call[t].at < NPairs
           /\ call' = [call EXCEPT ![t] = [@ EXCEPT !.at = call[t].at + 1]]
           /\ UNCHANGED scanner
  <2> DEFINE new == [call[t] EXCEPT !.at = call[t].at + 1]
  <2>1. call[t].at + 1 \in Pairs
    BY <1>1, <1>3, ClientAssumption DEF Pairs
  <2>2. call[t] \in Call
    BY Zenon DEF TypeOK
  <2>3. new \in Call
    BY <2>1, <2>2, CallRecords, Zenon
  <2>4. new.pc = "scan" /\ new.at \in Pairs
    BY <1>1, <2>1, <2>2, Zenon DEF Call
  <2>5. call' = [call EXCEPT ![t] = new]
    BY <1>3, Zenon
  <2> HIDE DEF new
  <2>6. /\ call' \in [Threads -> Call] /\ call'[t] = new
        /\ \A u \in Threads \ {t} : call'[u] = call[u]
    BY <2>3, <2>5, Zenon DEF TypeOK
  <2>7. TypeOK'
    BY <1>1, <1>3, <2>6, Zenon DEF TypeOK
  <2>8. ScanInv'
    BY <1>1, <1>3, <2>4, <2>6, Zenon DEF ScanInv
  <2>9. Quiet /\ StoreInv'
    BY <1>2, <2>3, <2>4, <2>5, Zenon
  <2> QED  BY <2>7, <2>8, <2>9, Zenon
<1>4. CASE call' = [call EXCEPT ![t] = NoCall] /\ scanner' = {}
  <2>1. /\ call' \in [Threads -> Call] /\ call'[t] = NoCall
        /\ \A u \in Threads \ {t} : call'[u] = call[u]
    BY <1>4, Records, Zenon DEF TypeOK
  <2>2. TypeOK'
    BY <1>1, <1>4, <2>1, Zenon DEF TypeOK
  <2>3. ScanInv'
    <3>1. \A u \in Threads : call'[u].pc # "scan"
      BY <1>1, <2>1, Records DEF ScanInv
    <3> QED  BY <3>1, Zenon DEF ScanInv
  <2>4. Quiet /\ StoreInv'
    BY <1>2, <1>4, Records, Zenon
  <2> QED  BY <2>2, <2>3, <2>4, Zenon
<1> QED  BY <1>3, <1>4, Zenon DEF NotFound

\* A step of calls that changes no more than how they woke.
LEMMA SameCalls ==
  ASSUME TypeOK, ScanInv, StoreInv, call' \in [Threads -> Call], \A u \in Threads : SameCall(u),
         UNCHANGED <<msg_pair, timer, scanner, index, wire, work, outcome, mixed, stray>>
  PROVE  TypeOK' /\ ScanInv' /\ StoreInv' /\ Quiet
<1>1. TypeOK'
  BY Zenon DEF TypeOK
<1>2. ScanInv'
  BY Zenon DEF ScanInv, SameCall
<1>3. Shrinks
  <2>1. \A t \in Threads : Active(t)' =>
           /\ Active(t) /\ call'[t].at = call[t].at /\ call'[t].event = call[t].event
           /\ call'[t].pc = "found" => call[t].pc = "found"
    BY Zenon DEF SameCall, Active
  <2> QED  BY <2>1, Zenon DEF Shrinks
<1>4. ASSUME NEW j \in Pairs  PROVE Apart(j)
  BY WorksApart, Zenon
<1>5. StoreInv'
  BY Zenon DEF StoreInv, SameCall
<1> QED  BY <1>1, <1>2, <1>3, <1>4, <1>5, Zenon DEF Quiet

\* A wakeup and a further wait change no call but for how it woke.
LEMMA WokenCalls ==
  ASSUME TypeOK, NEW t \in Threads, NEW why \in {"no", "signal", "timeout"},
         call' = [call EXCEPT ![t] = [@ EXCEPT !.woken = why]]
  PROVE  call' \in [Threads -> Call] /\ \A u \in Threads : SameCall(u)
<1> DEFINE new == [call[t] EXCEPT !.woken = why]
<1>1. call[t] \in Call
  BY Zenon DEF TypeOK
<1>2. new \in Call
  BY <1>1, CallRecords, Zenon
<1>3. /\ new.pc = call[t].pc /\ new.at = call[t].at /\ new.event = call[t].event
      /\ new.store = call[t].store /\ new.woken = why
  BY <1>1, Zenon DEF Call
<1>4. new.woken # "sent"
  BY <1>3
<1>5. call' = [call EXCEPT ![t] = new]
  BY Zenon
<1> HIDE DEF new
<1>6. /\ call' \in [Threads -> Call] /\ call'[t] = new
      /\ \A u \in Threads \ {t} : call'[u] = call[u]
  BY <1>2, <1>5, Zenon DEF TypeOK
<1> QED  BY <1>3, <1>4, <1>6, Zenon DEF SameCall

\* A timer comes to its time.
LEMMA FireFacts ==
  ASSUME TypeOK, ScanInv, StoreInv, NEW i \in Pairs, Fire(i)
  PROVE  TypeOK' /\ ScanInv' /\ StoreInv' /\ Quiet
<1> DEFINE new == [timer[i] EXCEPT !.armed = FALSE, !.fired = TRUE]
<1>1. timer[i] \in Timer
  BY Zenon DEF TypeOK
<1>2. new \in Timer /\ new.fired /\ new.store = timer[i].store
  <2>1. new \in Timer
    BY <1>1, TimerRecords, Zenon
  <2> QED  BY <1>1, <2>1, Zenon DEF Timer
<1>3. /\ timer[i].armed /\ timer' = [timer EXCEPT ![i] = new]
      /\ UNCHANGED <<msg_pair, call, scanner, index, wire, work, outcome, mixed, stray>>
  BY Zenon DEF Fire, history
<1> HIDE DEF new
<1>4. /\ timer' \in [Pairs -> Timer] /\ timer'[i] = new
      /\ \A j \in Pairs \ {i} : timer'[j] = timer[j]
  BY <1>2, <1>3, Zenon DEF TypeOK
<1>5. TypeOK'
  BY <1>3, <1>4, Zenon DEF TypeOK
<1>6. ScanInv' /\ StoreInv'
  BY <1>3, Zenon DEF ScanInv, StoreInv
<1>7. Shrinks
  BY <1>3, Zenon DEF Shrinks, Active
<1>8. ASSUME NEW j \in Pairs  PROVE Apart(j)
  <2>1. /\ Times(j)' => Times(j)
        /\ timer'[j].store = timer[j].store
        /\ (timer[j].armed \/ timer[j].fired) => (timer'[j].armed \/ timer'[j].fired)
    <3>1. CASE j = i
      BY <1>2, <1>3, <1>4, <3>1, Zenon DEF Times
    <3>2. CASE j # i
      BY <1>4, <3>2, Zenon DEF Times
    <3> QED  BY <3>1, <3>2, Zenon
  <2>2. /\ \A t \in Threads : (At(t, j)' => At(t, j)) /\ (At(t, j) => SameCall(t))
        /\ \A w \in Workers : (Works(w, j)' => Works(w, j)) /\ (Works(w, j) => work'[w] = work[w])
    BY <1>3, Zenon DEF At, Works, SameCall
  <2> QED  BY <1>3, <2>1, <2>2, Zenon DEF Apart
<1> QED  BY <1>3, <1>5, <1>6, <1>7, <1>8, Zenon DEF Quiet


\* Found gives the next event_id to a thread, and a pair to the thread.
FoundEffect(t, i) ==
    /\ index \in Calls /\ index' = index + 1
    /\ call[t].pc = "scan" /\ call'[t].pc = "found" /\ call'[t].at = i /\ call'[t].event = index
    /\ \A u \in Threads \ {t} : call'[u] = call[u]
    /\ \A j \in Pairs : /\ msg_pair'[j].event_id = msg_pair[j].event_id
                        /\ msg_pair'[j].expire = msg_pair[j].expire
                        /\ msg_pair'[j].cond_true = msg_pair[j].cond_true
                        /\ msg_pair'[j].ret = msg_pair[j].ret
                        /\ msg_pair[j].is_used => msg_pair'[j].is_used
                        /\ j # i /\ msg_pair'[j].is_used =>
                              msg_pair[j].is_used \/ (j = 1 /\ stray')
    /\ mixed' = mixed \cup {j \in {i} : Busy(j)}
    /\ stray => stray'
    /\ UNCHANGED <<timer, wire, work, outcome>>

LEMMA FoundFacts ==
  ASSUME TypeOK, ScanInv, StoreInv, NEW t \in Threads, Found(t)
  PROVE  TypeOK' /\ ScanInv' /\ StoreInv' /\ call[t].at \in Pairs /\ FoundEffect(t, call[t].at)
<1> DEFINE new == [call[t] EXCEPT !.pc = "found", !.event = index]
           marked == [msg_pair[1] EXCEPT !.is_used = TRUE]
           i == call[t].at
<1>1. /\ call[t].pc = "scan" /\ scanner = {t} /\ i \in Pairs /\ index <= MaxCalls
      /\ scanner' = {} /\ index' = index + 1
      /\ mixed' = mixed \cup {j \in {i} : Busy(j)}
      /\ stray' = (stray \/ (i # 1 /\ ~msg_pair[1].is_used))
      /\ UNCHANGED <<timer, wire, work, outcome>>
  BY Zenon DEF Found, ScanInv
<1>2. index \in Calls /\ index' \in 1 .. MaxCalls + 1 /\ 1 \in Pairs
  BY <1>1, ClientAssumption DEF TypeOK, Calls, Pairs
<1>3. call[t] \in Call /\ msg_pair[1] \in MessagePair
  BY <1>2, Zenon DEF TypeOK
<1>4. /\ new \in Call /\ new.pc = "found" /\ new.at = i /\ new.event = index
  <2>1. new \in Call
    BY <1>2, <1>3, CallRecords, Zenon
  <2> QED  BY <1>3, <2>1, Zenon DEF Call
<1>5. /\ marked \in MessagePair /\ marked.is_used
      /\ marked.event_id = msg_pair[1].event_id /\ marked.expire = msg_pair[1].expire
      /\ marked.cond_true = msg_pair[1].cond_true /\ marked.ret = msg_pair[1].ret
  <2>1. marked \in MessagePair
    BY <1>3, PairRecords, Zenon
  <2> QED  BY <1>3, <2>1, Zenon DEF MessagePair
<1>6. /\ call' = [call EXCEPT ![t] = new] /\ msg_pair' = [msg_pair EXCEPT ![1] = marked]
  BY Zenon DEF Found, Marked
<1> HIDE DEF new, marked
<1>7. /\ call' \in [Threads -> Call] /\ call'[t] = new
      /\ \A u \in Threads \ {t} : call'[u] = call[u]
  BY <1>4, <1>6, Zenon DEF TypeOK
<1>8. /\ msg_pair' \in [Pairs -> MessagePair] /\ msg_pair'[1] = marked
      /\ \A j \in Pairs \ {1} : msg_pair'[j] = msg_pair[j]
  BY <1>2, <1>5, <1>6, Zenon DEF TypeOK
<1>9. mixed' \subseteq Pairs /\ stray' \in BOOLEAN
  BY <1>1, Zenon DEF TypeOK
<1>10. TypeOK'
  <2>1. scanner' \subseteq Threads
    BY <1>1, Zenon
  <2> QED  BY <1>1, <1>2, <1>7, <1>8, <1>9, <2>1, Zenon DEF TypeOK
<1>11. ScanInv' /\ StoreInv'
  <2>1. \A u \in Threads : call'[u].pc # "scan"
    BY <1>1, <1>4, <1>7 DEF ScanInv
  <2>2. call'[t].pc # "release"
    BY <1>4, <1>7
  <2> QED  BY <1>1, <1>7, <2>1, <2>2, Zenon DEF ScanInv, StoreInv
<1>12. ASSUME NEW j \in Pairs
       PROVE  /\ msg_pair'[j].event_id = msg_pair[j].event_id
              /\ msg_pair'[j].expire = msg_pair[j].expire
              /\ msg_pair'[j].cond_true = msg_pair[j].cond_true
              /\ msg_pair'[j].ret = msg_pair[j].ret
              /\ msg_pair[j].is_used => msg_pair'[j].is_used
              /\ j # i /\ msg_pair'[j].is_used => msg_pair[j].is_used \/ (j = 1 /\ stray')
  <2>1. CASE j = 1
    BY <1>1, <1>5, <1>8, <2>1, Zenon
  <2>2. CASE j # 1
    BY <1>8, <2>2, Zenon
  <2> QED  BY <2>1, <2>2, Zenon
<1>13. stray => stray'
  BY <1>1, Zenon
<1>14. FoundEffect(t, i)
  BY <1>1, <1>2, <1>4, <1>7, <1>12, <1>13, Zenon DEF FoundEffect
<1> QED  BY <1>1, <1>10, <1>11, <1>14, Zenon

\* The new event_id is nowhere yet, and a pair that is taken while nobody is at it has
\* the caller alone.
LEMMA FoundStep ==
  ASSUME TypeOK, GivenInv, OneInv, SentInv, PairInv, OwnAnswer,
         NEW t \in Threads, NEW i \in Pairs, FoundEffect(t, i)
  PROVE  GivenInv' /\ OneInv' /\ SentInv' /\ PairInv' /\ OwnAnswer'
<1>0. \A u \in Threads \ {t} : call'[u] = call[u]
  BY Zenon DEF FoundEffect
<1>1. ~Active(t) /\ Active(t)' /\ \A u \in Threads \ {t} : Active(u)' <=> Active(u)
  <2>1. call[t].pc = "scan" /\ call'[t].pc = "found" /\ \A u \in Threads \ {t} : call'[u] = call[u]
    BY Zenon DEF FoundEffect
  <2> QED  BY <2>1 DEF Active
<1>2. index \notin Given /\ Given' = Given \cup {index} /\ Given \subseteq Calls
  <2>1. index \in Nat /\ index \in Calls /\ index' = index + 1
    BY Uses, Zenon DEF FoundEffect
  <2> QED  BY <2>1 DEF Given, Calls
<1>3. GivenInv'
  <2>1. \A u \in Threads : Active(u)' => call'[u].at \in Pairs /\ call'[u].event \in Given'
    BY <1>1, <1>2, Zenon DEF FoundEffect, GivenInv
  <2>2. \A m \in wire' : m[1] \in Given'
    BY <1>2, Zenon DEF FoundEffect, GivenInv
  <2>3. \A w \in Workers : work'[w].kind # "none" =>
           work'[w].event \in Given' /\ work'[w].at \in Pairs
    BY <1>2, Zenon DEF FoundEffect, GivenInv
  <2>4. \A j \in Pairs : msg_pair'[j].event_id \in Given' \cup {0}
    BY <1>2, Zenon DEF FoundEffect, GivenInv
  <2> QED  BY <2>1, <2>2, <2>3, <2>4, Zenon DEF GivenInv
<1>4. \A u \in Threads \ {t} : Active(u)' => call'[u].event # index /\ call'[u] = call[u]
  <2>1. \A u \in Threads : Active(u) => call[u].event # index
    BY <1>2, Zenon DEF GivenInv
  <2> QED  BY <1>0, <1>1, <2>1, Zenon
<1>5. OneInv'
  <2>1. \A u, v \in Threads : Active(u)' /\ Active(v)' /\ call'[u].event = call'[v].event => u = v
    <3>1. call'[t].event = index
      BY Zenon DEF FoundEffect
    <3> QED  BY <1>1, <1>4, <3>1, Zenon DEF OneInv
  <2> QED  BY <2>1, Zenon DEF OneInv, FoundEffect
<1>6. SentInv'
  <2> SUFFICES ASSUME NEW u \in Threads, call'[u].pc = "found"
               PROVE  /\ \A m \in wire' : m[1] # call'[u].event
                      /\ \A w \in Workers : work'[w].kind # "none" =>
                            work'[w].event # call'[u].event
                      /\ \A j \in Pairs : msg_pair'[j].event_id # call'[u].event
    BY Zenon DEF SentInv
  <2>1. /\ wire' = wire /\ work' = work
        /\ \A j \in Pairs : msg_pair'[j].event_id = msg_pair[j].event_id
    BY Zenon DEF FoundEffect
  <2>2. CASE u = t
    <3>1. call'[u].event = index /\ index # 0
      <4>1. index \in Calls /\ 0 \notin Calls
        BY Uses, Zenon DEF FoundEffect
      <4> QED  BY <2>2, <4>1, Zenon DEF FoundEffect
    <3>2. /\ \A m \in wire' : m[1] # index
          /\ \A w \in Workers : work'[w].kind # "none" => work'[w].event # index
      BY <1>2, <2>1, Zenon DEF GivenInv
    <3>3. \A j \in Pairs : msg_pair'[j].event_id # index
      BY <1>2, <2>1, <3>1, Zenon DEF GivenInv
    <3> QED  BY <3>1, <3>2, <3>3, Zenon
  <2>3. CASE u # t
    <3>1. call'[u] = call[u]
      BY <2>3, Zenon DEF FoundEffect
    <3> QED  BY <2>1, <3>1, Zenon DEF SentInv
  <2> QED  BY <2>2, <2>3, Zenon
<1>7. ASSUME NEW j \in Pairs \ {i}  PROVE Apart(j)
  <2>1. ~At(t, j) /\ ~At(t, j)'
    BY <1>1, Zenon DEF At, Active, FoundEffect
  <2>2. \A u \in Threads : (At(u, j)' => At(u, j)) /\ (At(u, j) => SameCall(u))
    BY <2>1, Zenon DEF At, SameCall, FoundEffect
  <2>3. \A w \in Workers : (Works(w, j)' => Works(w, j)) /\ (Works(w, j) => work'[w] = work[w])
    BY Zenon DEF Works, FoundEffect
  <2>4. timer' = timer /\ wire' = wire /\ (Times(j)' => Times(j)) /\ (stray => stray')
    BY Zenon DEF FoundEffect, Times
  <2>5. /\ msg_pair'[j].event_id = msg_pair[j].event_id /\ msg_pair'[j].expire = msg_pair[j].expire
        /\ msg_pair'[j].cond_true = msg_pair[j].cond_true /\ msg_pair'[j].ret = msg_pair[j].ret
        /\ msg_pair[j].is_used => msg_pair'[j].is_used
        /\ msg_pair'[j].is_used => msg_pair[j].is_used \/ (j = 1 /\ stray')
    BY Zenon DEF FoundEffect
  <2> QED  BY <2>2, <2>3, <2>4, <2>5, Zenon DEF Apart
<1>8. ASSUME i \notin mixed'  PROVE PairOK(i)'
  <2>1. ~Busy(i) /\ i \notin mixed
    BY <1>8, Zenon DEF FoundEffect
  <2>2. /\ \A u \in Threads : ~At(u, i)
        /\ \A w \in Workers : ~Works(w, i)
        /\ ~Times(i) /\ PairOK(i)
    BY <2>1, Zenon DEF Busy, PairInv
  <2>3. \A u \in Threads : At(u, i)' => u = t
    BY <1>0, <2>2, Zenon DEF At
  <2>4. ~Times(i)' /\ \A w \in Workers : ~Works(w, i)'
    BY <2>2, Zenon DEF Times, Works, FoundEffect
  <2>5. At(t, i)' /\ call'[t].pc = "found"
    BY Zenon DEF At, FoundEffect
  <2>6. msg_pair'[i].event_id = 0
    <3>0. timer[i].store \notin {1, 2} /\ ~timer[i].armed /\ ~timer[i].fired
      <4>1. timer[i].store = 0 /\ ~timer[i].armed /\ ~timer[i].fired
        BY <2>2, Zenon DEF Times
      <4> QED  BY <4>1
    <3>1. ~WillClear(i)
      BY <2>2, <3>0, Zenon DEF WillClear
    <3> QED  BY <2>2, <3>1, Zenon DEF PairOK, GivenBackAt, FoundEffect
  <2>7. call'[t].pc # "wait" /\ call'[t].pc # "release"
    BY <2>5
  <2>8. AloneAt(i)'
    BY <2>3, <2>4, Zenon DEF AloneAt
  <2>9. WaitsAt(i)'
    BY <2>3, <2>7, Zenon DEF WaitsAt
  <2>10. AnswersAt(i)'
    <3>1. \A e \in Calls : msg_pair'[i].event_id # e
      BY <2>6, Uses, Zenon
    <3> QED  BY <2>4, <3>1, Zenon DEF AnswersAt
  <2>11. GivenBackAt(i)'
    <3>1. WillComeBack(i)'
      BY <2>5, <2>7, Zenon DEF WillComeBack
    <3> QED  BY <2>3, <2>4, <2>6, <2>7, <3>1, Zenon DEF GivenBackAt
  <2> QED  BY <2>8, <2>9, <2>10, <2>11, Zenon DEF PairOK
<1>9. PairInv'
  <2>1. mixed \subseteq mixed'
    BY Zenon DEF FoundEffect
  <2> QED  BY <1>7, <1>8, <2>1, ApartOK, Zenon DEF PairInv
<1>10. OwnAnswer'
  BY Zenon DEF OwnAnswer, FoundEffect
<1> QED  BY <1>3, <1>5, <1>6, <1>9, <1>10, Zenon


\* A call is sent: its pair gets its event_id, and the daemon may have the request.
SendEffect(t, i, e, kind) ==
    /\ call[t].pc = "found" /\ call[t].at = i /\ call[t].event = e
    /\ \A u \in Threads \ {t} : call'[u] = call[u]
    /\ msg_pair'[i].event_id = e /\ msg_pair'[i].is_used /\ msg_pair'[i].expire
    /\ ~msg_pair'[i].cond_true
    /\ \A j \in Pairs \ {i} : msg_pair'[j] = msg_pair[j] /\ timer'[j] = timer[j]
    /\ wire \subseteq wire' /\ wire' \subseteq wire \cup {<<e, kind>>}
    /\ UNCHANGED <<index, work, outcome, mixed, stray>>

SendSyncEffect(t, i, e) ==
    /\ SendEffect(t, i, e, "sync")
    /\ call'[t].pc = "wait" /\ call'[t].at = i /\ call'[t].event = e
    /\ timer' = timer

SendAsyncEffect(t, i, e) ==
    /\ SendEffect(t, i, e, "async")
    /\ call'[t].pc = "idle"
    /\ timer'[i].armed

LEMMA SendSyncFacts ==
  ASSUME TypeOK, ScanInv, StoreInv, GivenInv, NEW t \in Threads, SendSync(t)
  PROVE  /\ TypeOK' /\ ScanInv' /\ StoreInv' /\ call[t].at \in Pairs /\ call[t].event \in Calls
         /\ SendSyncEffect(t, call[t].at, call[t].event)
<1> DEFINE i == call[t].at
           e == call[t].event
           new == [call[t] EXCEPT !.pc = "wait", !.woken = "sent"]
           pair == Taken(msg_pair[i], e)
<1>1. /\ call[t].pc = "found" /\ i \in Pairs /\ e \in Calls
      /\ wire' \in {wire, wire \cup {<<e, "sync">>}}
      /\ UNCHANGED <<timer, scanner, index, work, outcome, mixed, stray>>
  <2>1. /\ call[t].pc = "found" /\ wire' \in {wire, wire \cup {<<e, "sync">>}}
        /\ UNCHANGED <<timer, scanner, index, work, outcome, mixed, stray>>
    BY Zenon DEF SendSync, Sends, history
  <2>2. Active(t)
    BY <2>1, Zenon DEF Active
  <2> QED  BY <2>1, <2>2, Uses, Zenon
<1>2. call[t] \in Call /\ msg_pair[i] \in MessagePair
  BY <1>1, Zenon DEF TypeOK
<1>3. new \in Call /\ new.pc = "wait" /\ new.at = i /\ new.event = e
  <2>1. new \in Call
    BY <1>2, CallRecords, Zenon
  <2> QED  BY <1>2, <2>1, Zenon DEF Call
<1>4. /\ pair \in MessagePair /\ pair.is_used /\ pair.expire /\ ~pair.cond_true
      /\ pair.event_id = e
  BY <1>1, <1>2, PairRecords, Zenon
<1>5. call' = [call EXCEPT ![t] = new] /\ msg_pair' = [msg_pair EXCEPT ![i] = pair]
  BY Zenon DEF SendSync
<1> HIDE DEF new, pair
<1>6. /\ call' \in [Threads -> Call] /\ call'[t] = new
      /\ \A u \in Threads \ {t} : call'[u] = call[u]
      /\ msg_pair' \in [Pairs -> MessagePair] /\ msg_pair'[i] = pair
      /\ \A j \in Pairs \ {i} : msg_pair'[j] = msg_pair[j]
  BY <1>1, <1>3, <1>4, <1>5, Zenon DEF TypeOK
<1>7. /\ wire \subseteq wire' /\ wire' \subseteq wire \cup {<<e, "sync">>}
      /\ wire' \subseteq Calls \X {"sync", "async"}
  <2>1. wire \subseteq Calls \X {"sync", "async"}
    BY Zenon DEF TypeOK
  <2>2. <<e, "sync">> \in Calls \X {"sync", "async"}
    BY <1>1, Zenon
  <2>3. wire' = wire \/ wire' = wire \cup {<<e, "sync">>}
    BY <1>1, Zenon
  <2> HIDE DEF e
  <2> QED  BY <2>1, <2>2, <2>3, Zenon
<1>8. TypeOK'
  BY <1>1, <1>6, <1>7, Zenon DEF TypeOK
<1>9. ScanInv' /\ StoreInv'
  <2>1. call'[t].pc # "scan" /\ call'[t].pc # "release"
    BY <1>3, <1>6
  <2> QED  BY <1>1, <1>6, <2>1, Zenon DEF ScanInv, StoreInv
<1>10. SendSyncEffect(t, i, e)
  BY <1>1, <1>3, <1>4, <1>6, <1>7, Zenon DEF SendSyncEffect, SendEffect
<1> QED  BY <1>1, <1>8, <1>9, <1>10, Zenon

LEMMA SendAsyncFacts ==
  ASSUME TypeOK, ScanInv, StoreInv, GivenInv, NEW t \in Threads, SendAsync(t)
  PROVE  /\ TypeOK' /\ ScanInv' /\ StoreInv' /\ call[t].at \in Pairs /\ call[t].event \in Calls
         /\ SendAsyncEffect(t, call[t].at, call[t].event)
<1> DEFINE i == call[t].at
           e == call[t].event
           set == [timer[i] EXCEPT !.armed = TRUE]
           pair == Taken(msg_pair[i], e)
<1>1. /\ call[t].pc = "found" /\ i \in Pairs /\ e \in Calls
      /\ wire' \in {wire, wire \cup {<<e, "async">>}}
      /\ UNCHANGED <<scanner, index, work, outcome, mixed, stray>>
  <2>1. /\ call[t].pc = "found" /\ wire' \in {wire, wire \cup {<<e, "async">>}}
        /\ UNCHANGED <<scanner, index, work, outcome, mixed, stray>>
    BY Zenon DEF SendAsync, Sends, history
  <2>2. Active(t)
    BY <2>1, Zenon DEF Active
  <2> QED  BY <2>1, <2>2, Uses, Zenon
<1>2. timer[i] \in Timer /\ msg_pair[i] \in MessagePair
  BY <1>1, Zenon DEF TypeOK
<1>3. set \in Timer /\ set.armed
  <2>1. set \in Timer
    BY <1>2, TimerRecords, Zenon
  <2> QED  BY <1>2, <2>1, Zenon DEF Timer
<1>4. /\ pair \in MessagePair /\ pair.is_used /\ pair.expire /\ ~pair.cond_true
      /\ pair.event_id = e
  BY <1>1, <1>2, PairRecords, Zenon
<1>5. /\ call' = [call EXCEPT ![t] = NoCall] /\ msg_pair' = [msg_pair EXCEPT ![i] = pair]
      /\ timer' = [timer EXCEPT ![i] = set]
  BY Zenon DEF SendAsync
<1> HIDE DEF set, pair
<1>6. /\ call' \in [Threads -> Call] /\ call'[t] = NoCall
      /\ \A u \in Threads \ {t} : call'[u] = call[u]
      /\ msg_pair' \in [Pairs -> MessagePair] /\ msg_pair'[i] = pair
      /\ \A j \in Pairs \ {i} : msg_pair'[j] = msg_pair[j]
  BY <1>1, <1>4, <1>5, Records, Zenon DEF TypeOK
<1>7. /\ timer' \in [Pairs -> Timer] /\ timer'[i] = set
      /\ \A j \in Pairs \ {i} : timer'[j] = timer[j]
  BY <1>1, <1>3, <1>5, Zenon DEF TypeOK
<1>8. /\ wire \subseteq wire' /\ wire' \subseteq wire \cup {<<e, "async">>}
      /\ wire' \subseteq Calls \X {"sync", "async"}
  <2>1. wire \subseteq Calls \X {"sync", "async"}
    BY Zenon DEF TypeOK
  <2>2. <<e, "async">> \in Calls \X {"sync", "async"}
    BY <1>1, Zenon
  <2>3. wire' = wire \/ wire' = wire \cup {<<e, "async">>}
    BY <1>1, Zenon
  <2> HIDE DEF e
  <2> QED  BY <2>1, <2>2, <2>3, Zenon
<1>9. TypeOK'
  BY <1>1, <1>6, <1>7, <1>8, Zenon DEF TypeOK
<1>10. ScanInv' /\ StoreInv'
  <2>1. call'[t].pc # "scan" /\ call'[t].pc # "release"
    BY <1>6, Records
  <2> QED  BY <1>1, <1>6, <2>1, Zenon DEF ScanInv, StoreInv
<1>11. SendAsyncEffect(t, i, e)
  BY <1>1, <1>3, <1>4, <1>6, <1>7, <1>8, Records, Zenon DEF SendAsyncEffect, SendEffect
<1> QED  BY <1>1, <1>9, <1>10, <1>11, Zenon


\* The places of the event_ids after a call is sent.
LEMMA SendGlobal ==
  ASSUME TypeOK, GivenInv, OneInv, SentInv, NEW t \in Threads, NEW i \in Pairs, NEW e \in Calls,
         NEW kind \in {"sync", "async"}, SendEffect(t, i, e, kind),
         call'[t].pc # "found",
         Active(t)' => call'[t].at = i /\ call'[t].event = e
  PROVE  GivenInv' /\ OneInv' /\ SentInv' /\ \A j \in Pairs : j # i => msg_pair[j].event_id # e
<1>1. Given' = Given /\ e \in Given /\ Active(t)
  <2>1. Active(t) /\ call[t].event = e /\ index' = index
    BY Zenon DEF SendEffect, Active
  <2> QED  BY <2>1, Zenon DEF GivenInv, Given
<1>2. /\ \A u \in Threads \ {t} : call'[u] = call[u]
      /\ work' = work /\ msg_pair'[i].event_id = e
      /\ \A j \in Pairs \ {i} : msg_pair'[j] = msg_pair[j]
      /\ \A m \in wire' : m \in wire \/ m = <<e, kind>>
      /\ call[t].pc = "found" /\ call[t].event = e
  BY Zenon DEF SendEffect
<1>3. GivenInv'
  <2>1. \A u \in Threads : Active(u)' => call'[u].at \in Pairs /\ call'[u].event \in Given
    <3>1. \A u \in Threads \ {t} : Active(u)' => Active(u)
      BY <1>2, Zenon DEF Active
    <3> QED  BY <1>1, <1>2, <3>1, Zenon DEF GivenInv
  <2>2. \A m \in wire' : m[1] \in Given
    <3>1. <<e, kind>>[1] = e
      OBVIOUS
    <3> QED  BY <1>1, <1>2, <3>1, Zenon DEF GivenInv
  <2>3. \A j \in Pairs : msg_pair'[j].event_id \in Given \cup {0}
    BY <1>1, <1>2, Zenon DEF GivenInv
  <2> QED  BY <1>1, <1>2, <2>1, <2>2, <2>3, Zenon DEF GivenInv
<1>4. /\ \A m \in wire : m[1] # e
      /\ \A w \in Workers : work[w].kind # "none" => work[w].event # e
      /\ \A j \in Pairs : msg_pair[j].event_id # e
  <2>1. /\ \A m \in wire : m[1] # call[t].event
        /\ \A w \in Workers : work[w].kind # "none" => work[w].event # call[t].event
        /\ \A j \in Pairs : msg_pair[j].event_id # call[t].event
    <3>1. call[t].pc = "found"
      BY <1>2, Zenon
    <3> QED  BY <3>1, Zenon DEF SentInv
  <2>2. call[t].event = e
    BY <1>2, Zenon
  <2> QED  BY <2>1, <2>2, Zenon
<1>5. OneInv'
  <2>1. \A u \in Threads : Active(u)' => Active(u) /\ call'[u].event = call[u].event
    <3>1. \A u \in Threads \ {t} : Active(u)' => Active(u)
      BY <1>2, Zenon DEF Active
    <3> QED  BY <1>1, <1>2, <3>1, Zenon
  <2>2. \A u, v \in Threads : Active(u)' /\ Active(v)' /\ call'[u].event = call'[v].event => u = v
    BY <2>1, Zenon DEF OneInv
  <2>3. \A w \in Workers : work'[w].kind = "sync" => <<work'[w].event, "sync">> \notin wire'
    <3> SUFFICES ASSUME NEW w \in Workers, work[w].kind = "sync"
                 PROVE  <<work[w].event, "sync">> \notin wire'
      BY <1>2, Zenon
    <3>1. work[w].kind # "none"
      OBVIOUS
    <3>2. work[w].event # e
      BY <1>4, <3>1, Zenon
    <3>3. <<work[w].event, "sync">> \notin wire
      BY Zenon DEF OneInv
    <3>4. <<work[w].event, "sync">> # <<e, kind>>
      BY <3>2, Zenon
    <3> QED  BY <1>2, <3>3, <3>4, Zenon
  <2> QED  BY <1>2, <2>2, <2>3, Zenon DEF OneInv
<1>6. SentInv'
  <2> SUFFICES ASSUME NEW u \in Threads, call'[u].pc = "found"
               PROVE  /\ \A m \in wire' : m[1] # call'[u].event
                      /\ \A w \in Workers : work'[w].kind # "none" =>
                            work'[w].event # call'[u].event
                      /\ \A j \in Pairs : msg_pair'[j].event_id # call'[u].event
    BY Zenon DEF SentInv
  <2>1. u # t /\ call'[u] = call[u] /\ call[u].pc = "found"
    BY <1>2, Zenon
  <2>2. call[u].event # e
    BY <1>1, <1>2, <2>1, Zenon DEF OneInv, Active
  <2>3. /\ \A m \in wire : m[1] # call[u].event
        /\ \A w \in Workers : work[w].kind # "none" => work[w].event # call[u].event
        /\ \A j \in Pairs : msg_pair[j].event_id # call[u].event
    BY <2>1, Zenon DEF SentInv
  <2>4. \A m \in wire' : m[1] # call[u].event
    <3>1. <<e, kind>>[1] = e
      OBVIOUS
    <3> QED  BY <1>2, <2>2, <2>3, <3>1, Zenon
  <2>5. \A j \in Pairs : msg_pair'[j].event_id # call[u].event
    BY <1>2, <2>2, <2>3, Zenon
  <2> QED  BY <1>2, <2>1, <2>3, <2>4, <2>5, Zenon
<1> QED  BY <1>3, <1>4, <1>5, <1>6, Zenon

\* A call sent at pair i is nothing to the other pairs.
LEMMA SendApart ==
  ASSUME NEW t \in Threads, NEW i \in Pairs, NEW j \in Pairs, i # j, NEW e \in Calls,
         NEW kind \in {"sync", "async"}, SendEffect(t, i, e, kind), msg_pair[j].event_id # e,
         Active(t)' => call'[t].at = i
  PROVE  Apart(j)
<1>1. ~At(t, j) /\ ~At(t, j)'
  <2>1. call[t].at = i
    BY Zenon DEF SendEffect
  <2> QED  BY <2>1, Zenon DEF At, Active
<1>2. /\ \A u \in Threads \ {t} : call'[u] = call[u]
      /\ work' = work /\ stray' = stray /\ msg_pair'[j] = msg_pair[j] /\ timer'[j] = timer[j]
      /\ \A m \in wire' : m \in wire \/ m = <<e, kind>>
  BY Zenon DEF SendEffect
<1>3. \A u \in Threads : (At(u, j)' => At(u, j)) /\ (At(u, j) => SameCall(u))
  BY <1>1, <1>2, Zenon DEF At, SameCall
<1>4. \A w \in Workers : (Works(w, j)' => Works(w, j)) /\ (Works(w, j) => work'[w] = work[w])
  BY <1>2, Zenon DEF Works
<1>5. Times(j)' => Times(j)
  BY <1>2, Zenon DEF Times
<1>6. \A f \in Calls, k \in {"sync", "async"} :
         msg_pair[j].event_id = f /\ <<f, k>> \in wire' => <<f, k>> \in wire
  <2> SUFFICES ASSUME NEW f \in Calls, NEW k \in {"sync", "async"}, msg_pair[j].event_id = f,
                      <<f, k>> \in wire'
               PROVE  <<f, k>> \in wire
    BY Zenon
  <2>1. f # e
    BY Zenon
  <2>2. <<f, k>> # <<e, kind>>
    BY <2>1, Zenon
  <2> QED  BY <1>2, <2>2, Zenon
<1> QED  BY <1>2, <1>3, <1>4, <1>5, <1>6, Zenon DEF Apart


\* Of a call that is sent, in a pair that was never taken while someone was there: the
\* caller is alone, and no answer to another call finds the pair.
LEMMA SendAlone ==
  ASSUME SentInv, NEW t \in Threads, NEW i \in Pairs, NEW e \in Calls,
         NEW kind \in {"sync", "async"}, SendEffect(t, i, e, kind), PairOK(i)
  PROVE  /\ \A u \in Threads : At(u, i) => u = t
         /\ ~Times(i)
         /\ \A w \in Workers : ~Works(w, i) /\ ~Works(w, i)'
         /\ \A u \in Threads \ {t} : ~At(u, i)'
         /\ \A k \in {"sync", "async"} : <<e, k>> \in wire' => k = kind
<1>1. /\ call[t].pc = "found" /\ call[t].at = i /\ call[t].event = e /\ work' = work
      /\ \A u \in Threads \ {t} : call'[u] = call[u]
      /\ \A m \in wire' : m \in wire \/ m = <<e, kind>>
  BY Zenon DEF SendEffect
<1>2. At(t, i) /\ call[t].pc # "wait"
  BY <1>1 DEF At
<1>3. /\ \A u \in Threads : At(u, i) => u = t
      /\ ~Times(i)
      /\ \A w \in Workers : ~Works(w, i)
  BY <1>2, Zenon DEF PairOK, AloneAt
<1>4. /\ \A w \in Workers : ~Works(w, i)'
      /\ \A u \in Threads \ {t} : ~At(u, i)'
  BY <1>1, <1>3, Zenon DEF Works, At
<1>5. \A k \in {"sync", "async"} : <<e, k>> \in wire' => k = kind
  <2> SUFFICES ASSUME NEW k \in {"sync", "async"}, <<e, k>> \in wire'  PROVE k = kind
    BY Zenon
  <2>1. <<e, k>> \in wire \/ <<e, k>> = <<e, kind>>
    BY <1>1, Zenon
  <2>2. <<e, k>> \notin wire
    <3>1. \A m \in wire : m[1] # call[t].event
      BY <1>1, Zenon DEF SentInv
    <3>2. <<e, k>>[1] = call[t].event
      BY <1>1
    <3> QED  BY <3>1, <3>2, Zenon
  <2> QED  BY <2>1, <2>2
<1> QED  BY <1>3, <1>4, <1>5, Zenon

\* A call that is sent to wait keeps the invariants.
LEMMA SendSyncStep ==
  ASSUME TypeOK, GivenInv, OneInv, SentInv, PairInv, OwnAnswer,
         NEW t \in Threads, NEW i \in Pairs, NEW e \in Calls, SendSyncEffect(t, i, e)
  PROVE  GivenInv' /\ OneInv' /\ SentInv' /\ PairInv' /\ OwnAnswer'
<1>1. /\ SendEffect(t, i, e, "sync") /\ call'[t].pc = "wait" /\ call'[t].at = i
      /\ call'[t].event = e /\ timer' = timer
  BY Zenon DEF SendSyncEffect
<1>2. call'[t].pc # "found" /\ call'[t].pc # "release" /\ mixed' = mixed /\ outcome' = outcome
  BY <1>1 DEF SendEffect
<1>3. GivenInv' /\ OneInv' /\ SentInv' /\ \A j \in Pairs : j # i => msg_pair[j].event_id # e
  BY <1>1, <1>2, SendGlobal, Zenon
<1>4. ASSUME NEW j \in Pairs \ mixed, j # i  PROVE PairOK(j)'
  <2>1. Apart(j)
    BY <1>1, <1>3, <1>4, SendApart, Zenon
  <2> QED  BY <2>1, ApartOK, Zenon DEF PairInv
<1>5. ASSUME i \notin mixed  PROVE PairOK(i)'
  <2>1. PairOK(i)
    BY <1>5, Zenon DEF PairInv
  <2>2. /\ ~Times(i)
        /\ \A w \in Workers : ~Works(w, i)'
        /\ \A u \in Threads \ {t} : ~At(u, i)'
        /\ \A k \in {"sync", "async"} : <<e, k>> \in wire' => k = "sync"
    BY <1>1, <2>1, SendAlone, Zenon
  <2>3. At(t, i)' /\ ~Times(i)' /\ <<e, "async">> \notin wire'
    <3>1. <<e, "async">> \notin wire'
      BY <2>2
    <3> QED  BY <1>1, <2>2, <3>1, Zenon DEF At, Times
  <2>4. /\ msg_pair'[i].event_id = e /\ msg_pair'[i].is_used /\ msg_pair'[i].expire
        /\ ~msg_pair'[i].cond_true
    BY <1>1, Zenon DEF SendEffect
  <2>5. AloneAt(i)'
    BY <2>2, <2>3, Zenon DEF AloneAt
  <2>6. WaitsAt(i)'
    BY <1>1, <2>2, <2>4, Zenon DEF WaitsAt
  <2>7. AnswersAt(i)'
    <3>1. Unanswered(e, i)'
      BY <1>1, <2>3, <2>4, Zenon DEF Unanswered
    <3>2. \A f \in Calls : msg_pair'[i].event_id = f => Unanswered(f, i)'
      BY <2>4, <3>1, Zenon
    <3>3. \A f \in Calls : msg_pair'[i].event_id = f => <<f, "async">> \notin wire'
      BY <2>3, <2>4, Zenon
    <3> QED  BY <2>2, <3>2, <3>3, Zenon DEF AnswersAt
  <2>8. GivenBackAt(i)'
    <3>1. WillClear(i)' /\ WillComeBack(i)'
      BY <1>2, <2>3, Zenon DEF WillClear, WillComeBack
    <3>2. \A u \in Threads : At(u, i)' => call'[u].pc # "release"
      BY <1>2, <2>2, Zenon
    <3> QED  BY <2>2, <3>1, <3>2, Zenon DEF GivenBackAt
  <2> QED  BY <2>5, <2>6, <2>7, <2>8, Zenon DEF PairOK
<1>6. PairInv'
  BY <1>2, <1>4, <1>5, Zenon DEF PairInv
<1>7. OwnAnswer'
  BY <1>2, Zenon DEF OwnAnswer
<1> QED  BY <1>3, <1>6, <1>7, Zenon

\* A call that is sent with a timer keeps the invariants.
LEMMA SendAsyncStep ==
  ASSUME TypeOK, GivenInv, OneInv, SentInv, PairInv, OwnAnswer,
         NEW t \in Threads, NEW i \in Pairs, NEW e \in Calls, SendAsyncEffect(t, i, e)
  PROVE  GivenInv' /\ OneInv' /\ SentInv' /\ PairInv' /\ OwnAnswer'
<1>1. SendEffect(t, i, e, "async") /\ call'[t].pc = "idle" /\ timer'[i].armed
  BY Zenon DEF SendAsyncEffect
<1>2. ~Active(t)' /\ call'[t].pc # "found" /\ mixed' = mixed /\ outcome' = outcome
  BY <1>1 DEF SendEffect, Active
<1>3. GivenInv' /\ OneInv' /\ SentInv' /\ \A j \in Pairs : j # i => msg_pair[j].event_id # e
  BY <1>1, <1>2, SendGlobal, Zenon
<1>4. ASSUME NEW j \in Pairs \ mixed, j # i  PROVE PairOK(j)'
  <2>1. Apart(j)
    BY <1>1, <1>2, <1>3, <1>4, SendApart, Zenon
  <2> QED  BY <2>1, ApartOK, Zenon DEF PairInv
<1>5. ASSUME i \notin mixed  PROVE PairOK(i)'
  <2>1. PairOK(i)
    BY <1>5, Zenon DEF PairInv
  <2>2. /\ \A w \in Workers : ~Works(w, i)'
        /\ \A u \in Threads \ {t} : ~At(u, i)'
        /\ \A k \in {"sync", "async"} : <<e, k>> \in wire' => k = "async"
    BY <1>1, <2>1, SendAlone, Zenon
  <2>3. <<e, "sync">> \notin wire' /\ \A u \in Threads : ~At(u, i)'
    <3>1. <<e, "sync">> \notin wire'
      BY <2>2
    <3> QED  BY <1>2, <2>2, <3>1, Zenon DEF At, Active
  <2>4. msg_pair'[i].event_id = e /\ msg_pair'[i].is_used
    BY <1>1, Zenon DEF SendEffect
  <2>5. AloneAt(i)' /\ WaitsAt(i)'
    BY <2>3, Zenon DEF AloneAt, WaitsAt
  <2>6. AnswersAt(i)'
    <3>1. \A f \in Calls : msg_pair'[i].event_id = f => <<f, "sync">> \notin wire'
      BY <2>3, <2>4, Zenon
    <3> QED  BY <2>2, <2>3, <3>1, Zenon DEF AnswersAt
  <2>7. GivenBackAt(i)'
    <3>1. WillClear(i)' /\ WillComeBack(i)'
      BY <1>1, <2>4, Zenon DEF WillClear, WillComeBack
    <3> QED  BY <2>2, <2>3, <3>1, Zenon DEF GivenBackAt
  <2> QED  BY <2>5, <2>6, <2>7, Zenon DEF PairOK
<1>6. PairInv'
  BY <1>2, <1>4, <1>5, Zenon DEF PairInv
<1>7. OwnAnswer'
  BY <1>2, Zenon DEF OwnAnswer
<1> QED  BY <1>3, <1>6, <1>7, Zenon


\* The test of the loop ends a wait.
EndEffect(t, i, e) ==
    /\ call[t].pc = "wait" /\ call[t].at = i /\ call[t].event = e
    /\ call'[t].pc = "release" /\ call'[t].at = i /\ call'[t].event = e /\ call'[t].store = 1
    /\ \A u \in Threads \ {t} : call'[u] = call[u]
    /\ msg_pair[i].cond_true \/ ~msg_pair[i].expire
    /\ \A f \in Calls \ {e} : outcome'[f] = outcome[f]
    /\ outcome'[e] \in {msg_pair[i].ret, TimedOut} \/ call[t].woken = "sent"
    /\ UNCHANGED <<msg_pair, timer, index, wire, work, mixed, stray>>

\* The test of the loop goes back to wait, or ends the wait.
LEMMA ResumeFacts ==
  ASSUME TypeOK, ScanInv, StoreInv, GivenInv, NEW t \in Threads, Resume(t)
  PROVE  /\ TypeOK' /\ ScanInv' /\ StoreInv'
         /\ \/ Quiet
            \/ /\ call[t].at \in Pairs /\ call[t].event \in Calls
               /\ EndEffect(t, call[t].at, call[t].event)
<1> DEFINE i == call[t].at
           e == call[t].event
           ret == CASE call[t].woken = "signal" -> msg_pair[i].ret
                    [] call[t].woken = "timeout" -> TimedOut
                    [] call[t].woken = "sent" -> NoResult
<1>1. /\ call[t].pc = "wait" /\ call[t].woken # "no" /\ i \in Pairs /\ e \in Calls
      /\ UNCHANGED <<msg_pair, timer, scanner, index, wire, work, mixed, stray>>
  <2>1. /\ call[t].pc = "wait" /\ call[t].woken # "no"
        /\ UNCHANGED <<msg_pair, timer, scanner, index, wire, work, mixed, stray>>
    BY Zenon DEF Resume
  <2>2. Active(t)
    BY <2>1, Zenon DEF Active
  <2> QED  BY <2>1, <2>2, Uses, Zenon
<1>2. CASE call' = [call EXCEPT ![t] = [@ EXCEPT !.woken = "no"]] /\ UNCHANGED outcome
  <2>1. call' \in [Threads -> Call] /\ \A u \in Threads : SameCall(u)
    BY <1>2, WokenCalls, Zenon
  <2> QED  BY <1>1, <1>2, <2>1, SameCalls, Zenon
<1>3. CASE /\ Ends(msg_pair[i])
           /\ call' = [call EXCEPT ![t] = [@ EXCEPT !.pc = "release", !.store = 1]]
           /\ outcome' = [outcome EXCEPT ![e] = ret]
  <2> DEFINE new == [call[t] EXCEPT !.pc = "release", !.store = 1]
  <2>1. call[t] \in Call /\ msg_pair[i] \in MessagePair
    BY <1>1, Zenon DEF TypeOK
  <2>2. /\ new \in Call /\ new.pc = "release" /\ new.at = i /\ new.event = e /\ new.store = 1
    <3>1. new \in Call
      BY <2>1, CallRecords, Zenon
    <3> QED  BY <2>1, <3>1, Zenon DEF Call
  <2>3. call' = [call EXCEPT ![t] = new]
    BY <1>3, Zenon
  <2> HIDE DEF new
  <2>4. /\ call' \in [Threads -> Call] /\ call'[t] = new
        /\ \A u \in Threads \ {t} : call'[u] = call[u]
    BY <2>2, <2>3, Zenon DEF TypeOK
  <2>5. /\ ret \in Results
        /\ ret \in {msg_pair[i].ret, TimedOut} \/ call[t].woken = "sent"
    <3>1. call[t].woken \in {"sent", "signal", "timeout"} /\ msg_pair[i].ret \in Results
      <4>1. call[t].woken \in {"no", "sent", "signal", "timeout"} /\ msg_pair[i].ret \in Results
        BY <2>1, Zenon DEF Call, MessagePair
      <4> QED  BY <1>1, <4>1, Zenon
    <3>2. CASE call[t].woken = "signal"
      <4>1. ret = msg_pair[i].ret
        BY <3>2
      <4> QED  BY <3>1, <4>1, Zenon
    <3>3. CASE call[t].woken = "timeout"
      <4>1. ret = TimedOut
        BY <3>3
      <4> QED  BY <4>1, Zenon DEF Results
    <3>4. CASE call[t].woken = "sent"
      <4>1. ret = NoResult
        BY <3>4
      <4> QED  BY <3>4, <4>1, Zenon DEF Results
    <3> QED  BY <3>1, <3>2, <3>3, <3>4, Zenon
  <2> HIDE DEF ret
  <2>6. /\ outcome' \in [Calls -> Results \cup {0}] /\ outcome'[e] = ret
        /\ \A f \in Calls \ {e} : outcome'[f] = outcome[f]
    BY <1>1, <1>3, <2>5, Zenon DEF TypeOK
  <2>7. TypeOK'
    BY <1>1, <2>4, <2>6, Zenon DEF TypeOK
  <2>8. ScanInv' /\ StoreInv'
    <3>1. call'[t].pc # "scan" /\ call'[t].store \in {1, 2, 3}
      BY <2>2, <2>4
    <3> QED  BY <1>1, <2>4, <3>1, Zenon DEF ScanInv, StoreInv
  <2>9. msg_pair[i].cond_true \/ ~msg_pair[i].expire
    BY <1>3, Zenon DEF Ends
  <2>10. EndEffect(t, i, e)
    BY <1>1, <2>2, <2>4, <2>5, <2>6, <2>9, Zenon DEF EndEffect
  <2> QED  BY <1>1, <2>7, <2>8, <2>10, Zenon
<1> QED  BY <1>2, <1>3, Zenon DEF Resume

\* A wait ends with the answer of its call, or at its timeout when it had come.
LEMMA EndStep ==
  ASSUME TypeOK, GivenInv, OneInv, SentInv, PairInv, OwnAnswer,
         NEW t \in Threads, NEW i \in Pairs, NEW e \in Calls, EndEffect(t, i, e)
  PROVE  GivenInv' /\ OneInv' /\ SentInv' /\ PairInv' /\ OwnAnswer'
<1>1. /\ call[t].pc = "wait" /\ call[t].at = i /\ call[t].event = e
      /\ call'[t].pc = "release" /\ call'[t].at = i /\ call'[t].event = e /\ call'[t].store = 1
      /\ \A u \in Threads \ {t} : call'[u] = call[u]
      /\ UNCHANGED <<msg_pair, timer, index, wire, work, mixed, stray>>
  BY Zenon DEF EndEffect
<1>2. /\ Active(t) /\ At(t, i) /\ At(t, i)'
      /\ call'[t].pc # "found" /\ call'[t].pc # "wait" /\ call'[t].store # 3
  BY <1>1 DEF Active, At
<1>3. Shrinks
  <2>1. \A u \in Threads : Active(u)' =>
           /\ Active(u) /\ call'[u].at = call[u].at /\ call'[u].event = call[u].event
           /\ call'[u].pc = "found" => call[u].pc = "found"
    <3>1. \A u \in Threads \ {t} : Active(u)' => Active(u)
      BY <1>1, Zenon DEF Active
    <3> QED  BY <1>1, <1>2, <3>1, Zenon
  <2> QED  BY <1>1, <2>1, Zenon DEF Shrinks
<1>4. GivenInv' /\ OneInv' /\ SentInv'
  BY <1>3, ShrinksOK, Zenon
<1>5. ASSUME NEW j \in Pairs \ mixed, j # i  PROVE PairOK(j)'
  <2>1. ~At(t, j) /\ ~At(t, j)'
    BY <1>1, <1>5, Zenon DEF At
  <2>2. Apart(j)
    BY <1>1, <2>1, CallsApart, Zenon
  <2> QED  BY <2>2, ApartOK, Zenon DEF PairInv
<1>6. ASSUME i \notin mixed
      PROVE  /\ PairOK(i) /\ msg_pair[i].cond_true
             /\ msg_pair[i].ret = e /\ call[t].woken # "sent"
  <2>1. PairOK(i)
    BY <1>6, Zenon DEF PairInv
  <2>2. /\ msg_pair[i].expire
        /\ msg_pair[i].cond_true => msg_pair[i].ret = call[t].event /\ call[t].woken # "sent"
    BY <1>1, <1>2, <2>1, Zenon DEF PairOK, WaitsAt
  <2>3. msg_pair[i].cond_true
    BY <2>2, Zenon DEF EndEffect
  <2> QED  BY <1>1, <2>1, <2>2, <2>3, Zenon
<1>7. ASSUME i \notin mixed  PROVE PairOK(i)'
  <2>1. PairOK(i) /\ \A f : ~Unanswered(f, i)
    BY <1>6, <1>7, Zenon DEF Unanswered
  <2>2. /\ \A u \in Threads : At(u, i) => u = t
        /\ ~Times(i)
        /\ \A w \in Workers : ~Works(w, i)
    <3>1. /\ \A u \in Threads : At(u, i) => u = t
          /\ ~Times(i)
          /\ \A w \in Workers : Works(w, i) => work[w].kind = "sync"
      BY <1>2, <2>1, Zenon DEF PairOK, AloneAt
    <3>2. \A w \in Workers : Works(w, i) => work[w].kind # "sync"
      BY <2>1, Zenon DEF PairOK, AnswersAt
    <3> QED  BY <3>1, <3>2, Zenon
  <2>3. /\ \A u \in Threads : At(u, i)' => u = t
        /\ ~Times(i)'
        /\ \A w \in Workers : ~Works(w, i)'
    BY <1>1, <2>2, Zenon DEF At, Times, Works
  <2>4. AloneAt(i)' /\ WaitsAt(i)'
    BY <1>2, <2>3, Zenon DEF AloneAt, WaitsAt
  <2>5. AnswersAt(i)'
    <3>1. \A f \in Calls : msg_pair[i].event_id = f =>
             <<f, "sync">> \notin wire /\ <<f, "async">> \notin wire
      BY <1>2, <2>1, Zenon DEF PairOK, AnswersAt
    <3> QED  BY <1>1, <2>3, <3>1, Zenon DEF AnswersAt
  <2>6. GivenBackAt(i)'
    <3>1. WillClear(i)' /\ WillComeBack(i)'
      BY <1>1, <1>2, Zenon DEF WillClear, WillComeBack
    <3> QED  BY <1>2, <2>3, <3>1, Zenon DEF GivenBackAt
  <2> QED  BY <2>4, <2>5, <2>6, Zenon DEF PairOK
<1>8. PairInv'
  BY <1>1, <1>5, <1>7, Zenon DEF PairInv
<1>9. OwnAnswer'
  <2> SUFFICES ASSUME mixed = {}, NEW f \in Calls  PROVE outcome'[f] \in {0, f, TimedOut}
    BY <1>1, Zenon DEF OwnAnswer
  <2>1. msg_pair[i].ret = e /\ call[t].woken # "sent"
    BY <1>6, Zenon
  <2>2. outcome'[e] \in {e, TimedOut} /\ \A g \in Calls \ {e} : outcome'[g] = outcome[g]
    BY <2>1, Zenon DEF EndEffect
  <2> QED  BY <2>2, Zenon DEF OwnAnswer
<1> QED  BY <1>4, <1>8, <1>9, Zenon


\* A caller gives its pair back, one store after the other.
GiveBackEffect(t, i, n) ==
    /\ call[t].pc = "release" /\ call[t].at = i /\ call[t].store = n
    /\ Cleared(msg_pair[i], msg_pair'[i], n)
    /\ \A j \in Pairs \ {i} : msg_pair'[j] = msg_pair[j]
    /\ n \in {1, 2} => /\ call'[t].pc = "release" /\ call'[t].at = i
                       /\ call'[t].event = call[t].event /\ call'[t].store = n + 1
    /\ n = 3 => call'[t].pc = "idle"
    /\ \A u \in Threads \ {t} : call'[u] = call[u]
    /\ UNCHANGED <<timer, index, wire, work, outcome, mixed, stray>>

LEMMA GiveBackFacts ==
  ASSUME TypeOK, ScanInv, StoreInv, GivenInv, NEW t \in Threads, GiveBack(t)
  PROVE  /\ TypeOK' /\ ScanInv' /\ StoreInv' /\ call[t].at \in Pairs
         /\ GiveBackEffect(t, call[t].at, call[t].store)
<1> DEFINE i == call[t].at
           n == call[t].store
           next == [call[t] EXCEPT !.store = n + 1]
           last == [Reset(msg_pair[i], n) EXCEPT !.cond_true = FALSE]
<1>1. /\ call[t].pc = "release" /\ n \in {1, 2, 3} /\ i \in Pairs
      /\ UNCHANGED <<timer, scanner, index, wire, work, outcome, mixed, stray>>
  <2>1. /\ call[t].pc = "release"
        /\ UNCHANGED <<timer, scanner, index, wire, work, outcome, mixed, stray>>
    BY Zenon DEF GiveBack, history
  <2>2. Active(t)
    BY <2>1, Zenon DEF Active
  <2> QED  BY <2>1, <2>2, Uses, Zenon DEF StoreInv
<1>2. call[t] \in Call /\ msg_pair[i] \in MessagePair
  BY <1>1, Zenon DEF TypeOK
<1>3. Cleared(msg_pair[i], Reset(msg_pair[i], n), n) /\ Cleared(msg_pair[i], last, n)
  BY <1>1, <1>2, ResetRecords, Zenon
<1>4. PICK pair, new :
         /\ pair \in MessagePair /\ Cleared(msg_pair[i], pair, n)
         /\ msg_pair' = [msg_pair EXCEPT ![i] = pair]
         /\ new \in Call /\ new.pc # "scan" /\ call' = [call EXCEPT ![t] = new]
         /\ n \in {1, 2} => /\ new.pc = "release" /\ new.at = i
                            /\ new.event = call[t].event /\ new.store = n + 1
         /\ n = 3 => new.pc = "idle"
  <2>1. CASE /\ n < 3
             /\ msg_pair' = [msg_pair EXCEPT ![i] = Reset(@, n)]
             /\ call' = [call EXCEPT ![t] = [@ EXCEPT !.store = n + 1]]
    <3>1. n + 1 \in 0..3 /\ n # 3
      BY <1>1, <2>1
    <3>2. next \in Call
      BY <1>2, <3>1, CallRecords, Zenon
    <3>3. next.pc = call[t].pc /\ next.at = i /\ next.event = call[t].event /\ next.store = n + 1
      BY <1>2, <3>2, Zenon DEF Call
    <3>4. call' = [call EXCEPT ![t] = next] /\ next.pc # "scan"
      BY <1>1, <2>1, <3>3
    <3> HIDE DEF next
    <3>5. Reset(msg_pair[i], n) \in MessagePair
      BY <1>3, Zenon DEF Cleared
    <3> WITNESS Reset(msg_pair[i], n), next
    <3> QED  BY <1>1, <1>3, <2>1, <3>1, <3>2, <3>3, <3>4, <3>5, Zenon
  <2>2. CASE /\ n = 3
             /\ msg_pair' = [msg_pair EXCEPT ![i] = [Reset(@, n) EXCEPT !.cond_true = FALSE]]
             /\ call' = [call EXCEPT ![t] = NoCall]
    <3>1. n \notin {1, 2}
      BY <2>2
    <3>2. last \in MessagePair
      BY <1>3, Zenon DEF Cleared
    <3>3. NoCall \in Call /\ NoCall.pc # "scan" /\ NoCall.pc = "idle"
      BY Records
    <3>4. msg_pair' = [msg_pair EXCEPT ![i] = last]
      BY <2>2, Zenon
    <3> WITNESS last, NoCall
    <3> QED  BY <1>3, <2>2, <3>1, <3>2, <3>3, <3>4, Zenon
  <2> QED  BY <2>1, <2>2, Zenon DEF GiveBack
<1>5. /\ call' \in [Threads -> Call] /\ call'[t] = new
      /\ \A u \in Threads \ {t} : call'[u] = call[u]
      /\ msg_pair' \in [Pairs -> MessagePair] /\ msg_pair'[i] = pair
      /\ \A j \in Pairs \ {i} : msg_pair'[j] = msg_pair[j]
  BY <1>1, <1>4, Zenon DEF TypeOK
<1>6. TypeOK'
  BY <1>1, <1>5, Zenon DEF TypeOK
<1>7. ScanInv' /\ StoreInv'
  <2>1. call'[t].pc = "release" => call'[t].store \in {1, 2, 3}
    BY <1>1, <1>4, <1>5
  <2> QED  BY <1>1, <1>4, <1>5, <2>1, Zenon DEF ScanInv, StoreInv
<1>8. GiveBackEffect(t, i, n)
  BY <1>1, <1>4, <1>5, Zenon DEF GiveBackEffect
<1> QED  BY <1>1, <1>6, <1>7, <1>8, Zenon

\* A pair is given back by the caller that is alone there.
LEMMA GiveBackStep ==
  ASSUME TypeOK, GivenInv, OneInv, SentInv, PairInv, OwnAnswer,
         NEW t \in Threads, NEW i \in Pairs, NEW n \in {1, 2, 3}, GiveBackEffect(t, i, n)
  PROVE  GivenInv' /\ OneInv' /\ SentInv' /\ PairInv' /\ OwnAnswer'
<1>1. /\ call[t].pc = "release" /\ call[t].at = i /\ call[t].store = n
      /\ Cleared(msg_pair[i], msg_pair'[i], n)
      /\ \A j \in Pairs \ {i} : msg_pair'[j] = msg_pair[j]
      /\ \A u \in Threads \ {t} : call'[u] = call[u]
      /\ UNCHANGED <<timer, index, wire, work, outcome, mixed, stray>>
  BY Zenon DEF GiveBackEffect
<1>2. /\ Active(t) /\ At(t, i) /\ call[t].pc # "wait" /\ call'[t].pc # "found"
      /\ call'[t].pc # "wait"
      /\ Active(t)' => /\ call'[t].at = i /\ call'[t].event = call[t].event
                       /\ n # 3 /\ call'[t].store = n + 1
  BY <1>1 DEF GiveBackEffect, Active, At
<1>3. /\ msg_pair'[i].event_id \in {msg_pair[i].event_id, 0}
      /\ n = 2 => msg_pair'[i].event_id = 0
      /\ n = 1 => ~msg_pair'[i].is_used
      /\ n # 1 => msg_pair'[i].is_used = msg_pair[i].is_used
  BY <1>1, Zenon DEF Cleared
<1>4. Shrinks
  <2>1. \A u \in Threads : Active(u)' =>
           /\ Active(u) /\ call'[u].at = call[u].at /\ call'[u].event = call[u].event
           /\ call'[u].pc = "found" => call[u].pc = "found"
    <3>1. \A u \in Threads \ {t} : Active(u)' => Active(u)
      BY <1>1, Zenon DEF Active
    <3> QED  BY <1>1, <1>2, <3>1, Zenon
  <2>2. \A j \in Pairs : msg_pair'[j].event_id \in {msg_pair[j].event_id, 0}
    BY <1>1, <1>3, Zenon
  <2> QED  BY <1>1, <2>1, <2>2, Zenon DEF Shrinks
<1>5. GivenInv' /\ OneInv' /\ SentInv'
  BY <1>4, ShrinksOK, Zenon
<1>6. ASSUME NEW j \in Pairs \ mixed, j # i  PROVE PairOK(j)'
  <2>1. ~At(t, j) /\ ~At(t, j)'
    BY <1>1, <1>2, <1>6, Zenon DEF At, Active
  <2>2. Apart(j)
    BY <1>1, <1>6, <2>1, CallsApart, Zenon
  <2> QED  BY <2>2, ApartOK, Zenon DEF PairInv
<1>7. ASSUME i \notin mixed  PROVE PairOK(i)'
  <2>1. PairOK(i)
    BY <1>7, Zenon DEF PairInv
  <2>2. /\ \A u \in Threads : At(u, i) => u = t
        /\ ~Times(i)
        /\ \A w \in Workers : ~Works(w, i)
    BY <1>2, <2>1, Zenon DEF PairOK, AloneAt
  <2>3. /\ \A u \in Threads : At(u, i)' => u = t
        /\ ~Times(i)'
        /\ \A w \in Workers : ~Works(w, i)'
    BY <1>1, <2>2, Zenon DEF At, Times, Works
  <2>4. AloneAt(i)' /\ WaitsAt(i)'
    BY <1>2, <2>3, Zenon DEF AloneAt, WaitsAt
  <2>5. AnswersAt(i)'
    <3>1. \A f : ~Unanswered(f, i)
      BY <1>2, <2>2, Zenon DEF Unanswered
    <3>2. \A f \in Calls : msg_pair[i].event_id = f =>
             <<f, "sync">> \notin wire /\ <<f, "async">> \notin wire
      BY <1>2, <2>1, <3>1, Zenon DEF PairOK, AnswersAt
    <3>3. \A f \in Calls : msg_pair'[i].event_id = f => msg_pair[i].event_id = f
      BY <1>3, Uses, Zenon
    <3> QED  BY <1>1, <2>3, <3>2, <3>3, Zenon DEF AnswersAt
  <2>6. GivenBackAt(i)'
    <3>1. n # 1 /\ msg_pair[i].is_used => i = 1 /\ stray
      <4>1. n # 1 => ~WillComeBack(i)
        BY <1>1, <2>2, Zenon DEF WillComeBack, Times
      <4> QED  BY <2>1, <4>1, Zenon DEF PairOK, GivenBackAt
    <3>2. msg_pair'[i].is_used => i = 1 /\ stray'
      BY <1>1, <1>3, <3>1, Zenon
    <3>3. n = 3 => msg_pair[i].event_id = 0
      BY <1>1, <1>2, <2>1, Zenon DEF PairOK, GivenBackAt
    <3>4. msg_pair'[i].event_id # 0 => n = 1
      BY <1>3, <3>3
    <3>5. n = 1 => WillClear(i)'
      <4>1. ASSUME n = 1
            PROVE  At(t, i)' /\ call'[t].pc # "found" /\ call'[t].store # 3
        BY <4>1 DEF At, GiveBackEffect
      <4> QED  BY <4>1, Zenon DEF WillClear
    <3>6. call'[t].pc = "release" /\ call'[t].store = 3 => msg_pair'[i].event_id = 0
      <4>1. call'[t].pc = "release" /\ call'[t].store = 3 => n = 2
        BY <1>2 DEF Active
      <4> QED  BY <1>3, <4>1, Zenon
    <3> QED  BY <2>3, <3>2, <3>4, <3>5, <3>6, Zenon DEF GivenBackAt
  <2> QED  BY <2>4, <2>5, <2>6, Zenon DEF PairOK
<1>8. PairInv'
  BY <1>1, <1>6, <1>7, Zenon DEF PairInv
<1>9. OwnAnswer'
  BY <1>1, Zenon DEF OwnAnswer
<1> QED  BY <1>5, <1>8, <1>9, Zenon


\* A worker has an answer for pair i.
ReceiveEffect(w, i, e, kind) ==
    /\ <<e, kind>> \in wire /\ <<e, kind>> \notin wire' /\ wire' \subseteq wire
    /\ msg_pair[i].event_id = e
    /\ work[w].kind = "none"
    /\ work'[w].event = e /\ work'[w].kind = kind /\ work'[w].at = i /\ work'[w].store = 1
    /\ \A v \in Workers \ {w} : work'[v] = work[v]
    /\ \A f \in Calls : outcome'[f] \in {outcome[f], f}
    /\ UNCHANGED <<msg_pair, timer, call, index, mixed, stray>>

\* A worker has an answer for a pair, or one that nobody waits for.
LEMMA ReceiveFacts ==
  ASSUME TypeOK, ScanInv, StoreInv, GivenInv, NEW w \in Workers, Receive(w)
  PROVE  /\ TypeOK' /\ ScanInv' /\ StoreInv'
         /\ \/ Quiet
            \/ \E i \in Pairs, e \in Calls, kind \in {"sync", "async"} :
                  ReceiveEffect(w, i, e, kind)
<1>1. work[w] = NoWork /\ UNCHANGED <<msg_pair, timer, call, scanner, index, mixed, stray>>
  BY Zenon DEF Receive
<1>2. PICK m \in wire :
         /\ wire' = wire \ {m}
         /\ \/ UNCHANGED <<work, outcome>>
            \/ \E i \in Matching(m[1]) :
                  /\ work' = [work EXCEPT ![w] = [event |-> m[1], kind |-> m[2], at |-> i,
                                                  store |-> 1]]
                  /\ outcome' = IF m[2] = "async" THEN [outcome EXCEPT ![m[1]] = m[1]]
                                ELSE outcome
  BY Zenon DEF Receive
<1>3. PICK e \in Calls, kind \in {"sync", "async"} : m = <<e, kind>>
  <2>1. m \in Calls \X {"sync", "async"}
    BY <1>2, Zenon DEF TypeOK
  <2> QED  BY <2>1
<1>4. m[1] = e /\ m[2] = kind
  BY <1>3
<1>5. wire' \subseteq wire /\ <<e, kind>> \in wire /\ <<e, kind>> \notin wire'
  BY <1>2, <1>3, Zenon
<1>6. wire' \subseteq Calls \X {"sync", "async"} /\ scanner' = scanner /\ ScanInv'
  BY <1>1, <1>5, Zenon DEF TypeOK, ScanInv
<1>7. CASE UNCHANGED <<work, outcome>>
  <2>1. TypeOK'
    BY <1>1, <1>6, <1>7, Zenon DEF TypeOK
  <2>2. StoreInv'
    BY <1>1, <1>7, Zenon DEF StoreInv
  <2>3. Shrinks
    BY <1>1, <1>5, <1>7, Zenon DEF Shrinks, Active
  <2>4. ASSUME NEW j \in Pairs  PROVE Apart(j)
    <3>1. \A t \in Threads : SameCall(t)
      BY <1>1, Zenon DEF SameCall
    <3> QED  BY <1>1, <1>5, <1>7, <3>1, WorksApart, Zenon
  <2> QED  BY <1>1, <1>6, <1>7, <2>1, <2>2, <2>3, <2>4, Zenon DEF Quiet
<1>8. ASSUME NEW i \in Matching(m[1]),
             work' = [work EXCEPT ![w] = [event |-> m[1], kind |-> m[2], at |-> i,
                                          store |-> 1]],
             outcome' = IF m[2] = "async" THEN [outcome EXCEPT ![m[1]] = m[1]] ELSE outcome
      PROVE  TypeOK' /\ StoreInv' /\ i \in Pairs /\ ReceiveEffect(w, i, e, kind)
  <2> DEFINE new == [event |-> e, kind |-> kind, at |-> i, store |-> 1]
  <2>1. i \in Pairs /\ msg_pair[i].event_id = e
    BY <1>4, Zenon DEF Matching
  <2>2. /\ new \in Work /\ new.event = e /\ new.kind = kind /\ new.at = i /\ new.store = 1
    BY <2>1 DEF Work
  <2>3. work' = [work EXCEPT ![w] = new]
    BY <1>4, <1>8, Zenon
  <2> HIDE DEF new
  <2>4. /\ work' \in [Workers -> Work] /\ work'[w] = new
        /\ \A v \in Workers \ {w} : work'[v] = work[v]
    BY <2>2, <2>3, Zenon DEF TypeOK
  <2>5. /\ outcome' \in [Calls -> Results \cup {0}]
        /\ \A f \in Calls : outcome'[f] \in {outcome[f], f}
    <3>1. outcome \in [Calls -> Results \cup {0}] /\ e \in Results
      BY Zenon DEF TypeOK, Results
    <3>2. outcome' = [outcome EXCEPT ![e] = e] \/ outcome' = outcome
      BY <1>4, <1>8, Zenon
    <3>3. CASE outcome' = outcome
      BY <3>1, <3>3, Zenon
    <3>4. CASE outcome' = [outcome EXCEPT ![e] = e]
      BY <3>1, <3>4, Zenon
    <3> QED  BY <3>2, <3>3, <3>4, Zenon
  <2>6. TypeOK'
    BY <1>1, <1>6, <2>4, <2>5, Zenon DEF TypeOK
  <2>7. StoreInv'
    <3>1. work'[w].store \in {1, 2, 3, 4}
      BY <2>2, <2>4
    <3> QED  BY <1>1, <2>4, <3>1, Zenon DEF StoreInv
  <2>8. work[w].kind = "none"
    BY <1>1, Records, Zenon
  <2>9. ReceiveEffect(w, i, e, kind)
    BY <1>1, <1>5, <2>1, <2>2, <2>4, <2>5, <2>8, Zenon DEF ReceiveEffect
  <2> QED  BY <2>1, <2>6, <2>7, <2>9, Zenon
<1>9. CASE \E i \in Matching(m[1]) :
             /\ work' = [work EXCEPT ![w] = [event |-> m[1], kind |-> m[2], at |-> i,
                                             store |-> 1]]
             /\ outcome' = IF m[2] = "async" THEN [outcome EXCEPT ![m[1]] = m[1]] ELSE outcome
  <2>1. PICK i \in Matching(m[1]) :
           /\ work' = [work EXCEPT ![w] = [event |-> m[1], kind |-> m[2], at |-> i,
                                           store |-> 1]]
           /\ outcome' = IF m[2] = "async" THEN [outcome EXCEPT ![m[1]] = m[1]] ELSE outcome
    BY <1>9, Zenon
  <2>2. TypeOK' /\ StoreInv' /\ i \in Pairs /\ ReceiveEffect(w, i, e, kind)
    BY <1>8, <2>1, Zenon
  <2> QED  BY <1>6, <2>2, Zenon
<1> QED  BY <1>2, <1>7, <1>9, Zenon

\* The answer that finds a pair is that of the call at the pair, if the pair was never
\* taken while someone was still there.
LEMMA ReceiveStep ==
  ASSUME TypeOK, GivenInv, OneInv, SentInv, PairInv, OwnAnswer,
         NEW w \in Workers, NEW i \in Pairs, NEW e \in Calls, NEW kind \in {"sync", "async"},
         ReceiveEffect(w, i, e, kind)
  PROVE  GivenInv' /\ OneInv' /\ SentInv' /\ PairInv' /\ OwnAnswer'
<1>1. /\ <<e, kind>> \in wire /\ <<e, kind>> \notin wire' /\ wire' \subseteq wire
      /\ msg_pair[i].event_id = e /\ work[w].kind = "none"
      /\ work'[w].event = e /\ work'[w].kind = kind /\ work'[w].at = i /\ work'[w].store = 1
      /\ \A v \in Workers \ {w} : work'[v] = work[v]
      /\ UNCHANGED <<msg_pair, timer, call, index, mixed, stray>>
  BY Zenon DEF ReceiveEffect
<1>2. <<e, kind>>[1] = e /\ work'[w].kind # "none" /\ work'[w].store \notin {2, 3, 4}
      /\ work'[w].store \notin {3, 4}
  BY <1>1
<1>3. Given' = Given /\ e \in Given
  <2>1. e \in Given
    BY <1>1, <1>2, Zenon DEF GivenInv
  <2> QED  BY <1>1, <2>1, Zenon DEF Given
<1>4. GivenInv'
  <2>1. \A v \in Workers : work'[v].kind # "none" => work'[v].event \in Given /\ work'[v].at \in Pairs
    BY <1>1, <1>3, Zenon DEF GivenInv
  <2> QED  BY <1>1, <1>3, <2>1, Zenon DEF GivenInv, Active
<1>5. OneInv'
  <2>1. kind = "sync" => \A v \in Workers \ {w} : work[v].kind = "sync" => work[v].event # e
    BY <1>1, Zenon DEF OneInv
  <2>2. \A v \in Workers \ {w} : work'[v].kind = "sync" /\ work'[w].kind = "sync" =>
           work'[v].event # work'[w].event
    BY <1>1, <2>1, Zenon
  <2>3. \A u, v \in Workers : work'[u].kind = "sync" /\ work'[v].kind = "sync"
                             /\ work'[u].event = work'[v].event => u = v
    <3> SUFFICES ASSUME NEW u \in Workers, NEW v \in Workers, work'[u].kind = "sync",
                        work'[v].kind = "sync", work'[u].event = work'[v].event
                 PROVE  u = v
      BY Zenon
    <3>1. CASE u = w \/ v = w
      BY <2>2, <3>1, Zenon
    <3>2. CASE u # w /\ v # w
      <4>1. work'[u] = work[u] /\ work'[v] = work[v]
        BY <1>1, <3>2, Zenon
      <4> QED  BY <4>1, Zenon DEF OneInv
    <3> QED  BY <3>1, <3>2, Zenon
  <2>4. \A v \in Workers : work'[v].kind = "sync" => <<work'[v].event, "sync">> \notin wire'
    <3> SUFFICES ASSUME NEW v \in Workers, work'[v].kind = "sync"
                 PROVE  <<work'[v].event, "sync">> \notin wire'
      BY Zenon
    <3>1. CASE v = w
      BY <1>1, <3>1, Zenon
    <3>2. CASE v # w
      <4>1. work'[v] = work[v]
        BY <1>1, <3>2, Zenon
      <4> QED  BY <1>1, <4>1, Zenon DEF OneInv
    <3> QED  BY <3>1, <3>2, Zenon
  <2> QED  BY <1>1, <2>3, <2>4, Zenon DEF OneInv, Active
<1>6. SentInv'
  <2> SUFFICES ASSUME NEW u \in Threads, call'[u].pc = "found"
               PROVE  /\ \A m \in wire' : m[1] # call'[u].event
                      /\ \A v \in Workers : work'[v].kind # "none" =>
                            work'[v].event # call'[u].event
                      /\ \A j \in Pairs : msg_pair'[j].event_id # call'[u].event
    BY Zenon DEF SentInv
  <2>1. call' = call /\ msg_pair' = msg_pair /\ wire' \subseteq wire
    BY <1>1, Zenon
  <2>2. /\ \A m \in wire : m[1] # call[u].event
        /\ \A v \in Workers : work[v].kind # "none" => work[v].event # call[u].event
        /\ \A j \in Pairs : msg_pair[j].event_id # call[u].event
    BY <2>1, Zenon DEF SentInv
  <2>3. e # call[u].event
    BY <1>1, <2>2, Zenon
  <2>4. \A v \in Workers : work'[v].kind # "none" => work'[v].event # call[u].event
    BY <1>1, <2>2, <2>3, Zenon
  <2> QED  BY <2>1, <2>2, <2>4, Zenon
<1>7. ASSUME NEW j \in Pairs \ mixed, j # i  PROVE PairOK(j)'
  <2>1. \A t \in Threads : SameCall(t)
    BY <1>1, Zenon DEF SameCall
  <2>2. ~Works(w, j) /\ ~Works(w, j)'
    BY <1>1, <1>7, Zenon DEF Works
  <2>3. Apart(j)
    BY <1>1, <2>1, <2>2, WorksApart, Zenon
  <2> QED  BY <2>3, ApartOK, Zenon DEF PairInv
<1>8. ASSUME i \notin mixed  PROVE PairOK(i)'
  <2>1. PairOK(i)
    BY <1>8, Zenon DEF PairInv
  <2>2. /\ \A t \in Threads : At(t, i)' <=> At(t, i)
        /\ Times(i)' <=> Times(i)
        /\ \A v \in Workers \ {w} : Works(v, i)' <=> Works(v, i)
        /\ ~Works(w, i) /\ Works(w, i)'
    BY <1>1, <1>2, Zenon DEF At, Times, Works
  <2>3. kind = "sync" => Unanswered(e, i)
    BY <1>1, <2>1, Zenon DEF PairOK, AnswersAt
  <2>4. kind = "async" => \A t \in Threads : ~At(t, i)
    BY <1>1, <2>1, Zenon DEF PairOK, AnswersAt
  <2>5. \A t \in Threads : At(t, i) => kind = "sync" /\ call[t].pc = "wait"
    <3> SUFFICES ASSUME NEW t \in Threads, At(t, i)  PROVE kind = "sync" /\ call[t].pc = "wait"
      BY Zenon
    <3>1. kind = "sync"
      BY <2>4
    <3>2. PICK u \in Threads : At(u, i) /\ call[u].pc = "wait"
      BY <2>3, <3>1, Zenon DEF Unanswered
    <3>3. u = t
      BY <2>1, <3>2, Zenon DEF PairOK, AloneAt
    <3> QED  BY <3>1, <3>2, <3>3, Zenon
  <2>6. AloneAt(i)'
    <3> SUFFICES ASSUME NEW t \in Threads, At(t, i)
                 PROVE  /\ \A u \in Threads : At(u, i)' => u = t
                        /\ ~Times(i)'
                        /\ \A v \in Workers : Works(v, i)' =>
                              work'[v].kind = "sync" /\ call'[t].pc = "wait"
      BY <2>2, Zenon DEF AloneAt
    <3>1. /\ \A u \in Threads : At(u, i) => u = t
          /\ ~Times(i)
          /\ \A v \in Workers : Works(v, i) => work[v].kind = "sync" /\ call[t].pc = "wait"
      BY <2>1, Zenon DEF PairOK, AloneAt
    <3>2. work'[w].kind = "sync" /\ call'[t].pc = "wait"
      BY <1>1, <2>5, Zenon
    <3> QED  BY <1>1, <2>2, <3>1, <3>2, Zenon
  <2>7. WaitsAt(i)'
    BY <1>1, <2>1, <2>2, Zenon DEF PairOK, WaitsAt
  <2>8. \A f : Unanswered(f, i) => Unanswered(f, i)'
    BY <1>1, <2>2, Zenon DEF Unanswered
  <2>9. AnswersAt(i)'
    <3>1. \A v \in Workers : Works(v, i)' /\ work'[v].kind = "sync" =>
             \E f : f = work'[v].event /\ Unanswered(f, i)'
      BY <1>1, <2>1, <2>2, <2>3, <2>8, Zenon DEF PairOK, AnswersAt
    <3>2. \A f \in Calls : msg_pair'[i].event_id = f /\ <<f, "sync">> \in wire' =>
             Unanswered(f, i)'
      BY <1>1, <2>1, <2>8, Zenon DEF PairOK, AnswersAt
    <3>3. \A f \in Calls : msg_pair'[i].event_id = f /\ <<f, "async">> \in wire' =>
             \A t \in Threads : ~At(t, i)'
      BY <1>1, <2>1, <2>2, Zenon DEF PairOK, AnswersAt
    <3> QED  BY <3>1, <3>2, <3>3, Zenon DEF AnswersAt
  <2>10. GivenBackAt(i)'
    <3>1. WillClear(i) => WillClear(i)'
      BY <1>1, <2>2, Zenon DEF WillClear
    <3>2. WillComeBack(i) => WillComeBack(i)'
      BY <1>1, <2>2, Zenon DEF WillComeBack
    <3>3. \A v \in Workers : Works(v, i)' /\ work'[v].kind = "async" =>
             /\ work'[v].store \in {2, 3, 4} /\ msg_pair'[i].is_used => i = 1 /\ stray'
             /\ work'[v].store \in {3, 4} => msg_pair'[i].event_id = 0
      <4> SUFFICES ASSUME NEW v \in Workers, v # w, Works(v, i)', work'[v].kind = "async"
                   PROVE  /\ work'[v].store \in {2, 3, 4} /\ msg_pair'[i].is_used =>
                                i = 1 /\ stray'
                          /\ work'[v].store \in {3, 4} => msg_pair'[i].event_id = 0
        BY <1>2, Zenon
      <4>1. Works(v, i) /\ work'[v] = work[v]
        BY <1>1, <2>2, Zenon
      <4>2. /\ work[v].store \in {2, 3, 4} /\ msg_pair[i].is_used => i = 1 /\ stray
            /\ work[v].store \in {3, 4} => msg_pair[i].event_id = 0
        BY <2>1, <4>1, Zenon DEF PairOK, GivenBackAt
      <4> QED  BY <1>1, <4>1, <4>2, Zenon
    <3>4. \A t \in Threads : At(t, i)' /\ call'[t].pc = "release" /\ call'[t].store = 3 =>
             msg_pair'[i].event_id = 0
      BY <1>1, <2>1, <2>2, Zenon DEF PairOK, GivenBackAt
    <3>5. /\ msg_pair'[i].event_id # 0 => WillClear(i)'
          /\ msg_pair'[i].is_used => WillComeBack(i)' \/ (i = 1 /\ stray')
      BY <1>1, <2>1, <3>1, <3>2, Zenon DEF PairOK, GivenBackAt
    <3> QED  BY <3>3, <3>4, <3>5, Zenon DEF GivenBackAt
  <2> QED  BY <2>6, <2>7, <2>9, <2>10, Zenon DEF PairOK
<1>9. PairInv'
  BY <1>1, <1>7, <1>8, Zenon DEF PairInv
<1>10. OwnAnswer'
  BY Zenon DEF OwnAnswer, ReceiveEffect
<1> QED  BY <1>4, <1>5, <1>6, <1>9, <1>10, Zenon


\* A worker completes the call of pair i.
CompleteEffect(w, i, e) ==
    /\ work[w].kind = "sync" /\ work[w].at = i /\ work[w].event = e
    /\ work'[w].kind = "none"
    /\ \A v \in Workers \ {w} : work'[v] = work[v]
    /\ ~Locked(i)
    /\ \A t \in Threads : SameCall(t)
    /\ msg_pair'[i].is_used = msg_pair[i].is_used /\ msg_pair'[i].expire = msg_pair[i].expire
    /\ msg_pair'[i].event_id = msg_pair[i].event_id
    /\ msg_pair'[i].cond_true /\ msg_pair'[i].ret = e
    /\ \A j \in Pairs \ {i} : msg_pair'[j] = msg_pair[j]
    /\ UNCHANGED <<timer, index, wire, outcome, mixed, stray>>

LEMMA CompleteFacts ==
  ASSUME TypeOK, ScanInv, StoreInv, GivenInv, NEW w \in Workers, CompleteSync(w)
  PROVE  /\ TypeOK' /\ ScanInv' /\ StoreInv' /\ work[w].at \in Pairs /\ work[w].event \in Calls
         /\ CompleteEffect(w, work[w].at, work[w].event)
<1> DEFINE i == work[w].at
           e == work[w].event
           pair == [msg_pair[i] EXCEPT !.ret = e, !.cond_true = TRUE]
<1>1. /\ work[w].kind = "sync" /\ i \in Pairs /\ e \in Calls /\ ~Locked(i)
      /\ UNCHANGED <<timer, scanner, index, wire, outcome, mixed, stray>>
  <2>1. /\ work[w].kind = "sync" /\ ~Locked(i)
        /\ UNCHANGED <<timer, scanner, index, wire, outcome, mixed, stray>>
    BY Zenon DEF CompleteSync, history
  <2>2. work[w].kind # "none"
    BY <2>1
  <2> QED  BY <2>1, <2>2, Uses, Zenon
<1>2. msg_pair[i] \in MessagePair
  BY <1>1, Zenon DEF TypeOK
<1>3. /\ pair \in MessagePair /\ pair.cond_true /\ pair.ret = e
      /\ pair.is_used = msg_pair[i].is_used /\ pair.expire = msg_pair[i].expire
      /\ pair.event_id = msg_pair[i].event_id
  <2>1. pair \in MessagePair
    BY <1>1, <1>2, PairRecords, Zenon
  <2> QED  BY <1>2, <2>1, Zenon DEF MessagePair
<1>4. /\ msg_pair' = [msg_pair EXCEPT ![i] = pair] /\ work' = [work EXCEPT ![w] = NoWork]
      /\ call' \in Woken(i)
  BY Zenon DEF CompleteSync
<1> HIDE DEF pair
<1>5. /\ msg_pair' \in [Pairs -> MessagePair] /\ msg_pair'[i] = pair
      /\ \A j \in Pairs \ {i} : msg_pair'[j] = msg_pair[j]
  BY <1>1, <1>3, <1>4, Zenon DEF TypeOK
<1>6. /\ work' \in [Workers -> Work] /\ work'[w] = NoWork
      /\ \A v \in Workers \ {w} : work'[v] = work[v]
  BY <1>4, Records, Zenon DEF TypeOK
<1>7. call' \in [Threads -> Call] /\ \A t \in Threads : SameCall(t)
  <2>1. CASE call' = call
    BY <2>1, Zenon DEF TypeOK, SameCall
  <2>2. CASE \E t \in Threads : call' = [call EXCEPT ![t] = [@ EXCEPT !.woken = "signal"]]
    BY <2>2, WokenCalls, Zenon
  <2> QED  BY <1>4, <2>1, <2>2, Zenon DEF Woken, Sleepers
<1>8. TypeOK'
  BY <1>1, <1>5, <1>6, <1>7, Zenon DEF TypeOK
<1>9. ScanInv'
  BY <1>1, <1>7, Zenon DEF ScanInv, SameCall
<1>10. StoreInv'
  <2>1. work'[w].kind = "none"
    BY <1>6, Records, Zenon
  <2>2. \A v \in Workers : work'[v].kind # "none" => work'[v].store \in {1, 2, 3, 4}
    BY <1>6, <2>1, Zenon DEF StoreInv
  <2> QED  BY <1>7, <2>2, Zenon DEF StoreInv, SameCall
<1>11. CompleteEffect(w, i, e)
  BY <1>1, <1>3, <1>5, <1>6, <1>7, Records, Zenon DEF CompleteEffect
<1> QED  BY <1>1, <1>8, <1>9, <1>10, <1>11, Zenon

\* The call that is completed waits at the pair, and has no other answer under way.
LEMMA CompleteStep ==
  ASSUME TypeOK, GivenInv, OneInv, SentInv, PairInv, OwnAnswer,
         NEW w \in Workers, NEW i \in Pairs, NEW e \in Calls, CompleteEffect(w, i, e)
  PROVE  GivenInv' /\ OneInv' /\ SentInv' /\ PairInv' /\ OwnAnswer'
<1>1. /\ work[w].kind = "sync" /\ work[w].at = i /\ work[w].event = e /\ work'[w].kind = "none"
      /\ \A v \in Workers \ {w} : work'[v] = work[v]
      /\ \A t \in Threads : SameCall(t)
      /\ \A j \in Pairs \ {i} : msg_pair'[j] = msg_pair[j]
      /\ msg_pair'[i].event_id = msg_pair[i].event_id
      /\ UNCHANGED <<timer, index, wire, outcome, mixed, stray>>
  BY Zenon DEF CompleteEffect
<1>2. Shrinks
  <2>1. \A t \in Threads : Active(t)' =>
           /\ Active(t) /\ call'[t].at = call[t].at /\ call'[t].event = call[t].event
           /\ call'[t].pc = "found" => call[t].pc = "found"
    BY <1>1, Zenon DEF SameCall, Active
  <2>2. \A v \in Workers : work'[v].kind # "none" =>
           /\ work'[v].kind = work[v].kind /\ work'[v].event = work[v].event
           /\ work'[v].at = work[v].at
    BY <1>1, Zenon
  <2>3. \A j \in Pairs : msg_pair'[j].event_id \in {msg_pair[j].event_id, 0}
    BY <1>1, Zenon
  <2> QED  BY <1>1, <2>1, <2>2, <2>3, Zenon DEF Shrinks
<1>3. GivenInv' /\ OneInv' /\ SentInv'
  BY <1>2, ShrinksOK, Zenon
<1>4. Works(w, i) /\ ~Works(w, i)' /\ \A j \in Pairs \ {i} : ~Works(w, j) /\ ~Works(w, j)'
  BY <1>1 DEF Works
<1>5. ASSUME NEW j \in Pairs \ mixed, j # i  PROVE PairOK(j)'
  <2>1. Apart(j)
    BY <1>1, <1>4, <1>5, WorksApart, Zenon
  <2> QED  BY <2>1, ApartOK, Zenon DEF PairInv
<1>6. ASSUME i \notin mixed  PROVE PairOK(i)'
  <2>1. PairOK(i)
    BY <1>6, Zenon DEF PairInv
  <2>2. PICK t \in Threads : At(t, i) /\ call[t].pc = "wait" /\ call[t].event = e
    <3>1. Unanswered(e, i)
      BY <1>1, <1>4, <2>1, Zenon DEF PairOK, AnswersAt
    <3> QED  BY <3>1, Zenon DEF Unanswered
  <2>3. /\ \A u \in Threads : At(u, i) => u = t
        /\ ~Times(i)
        /\ \A v \in Workers : Works(v, i) => work[v].kind = "sync"
    BY <2>1, <2>2, Zenon DEF PairOK, AloneAt
  <2>4. \A v \in Workers : Works(v, i) => v = w
    <3> SUFFICES ASSUME NEW v \in Workers, Works(v, i)  PROVE v = w
      BY Zenon
    <3>1. work[v].kind = "sync"
      BY <2>3, Zenon
    <3>2. PICK u \in Threads : At(u, i) /\ call[u].event = work[v].event
      BY <2>1, <3>1, Zenon DEF PairOK, AnswersAt, Unanswered
    <3>3. work[v].event = e
      BY <2>2, <2>3, <3>2, Zenon
    <3> QED  BY <1>1, <3>1, <3>3, Zenon DEF OneInv
  <2>5. /\ \A u \in Threads : At(u, i)' => u = t
        /\ At(t, i)' /\ call'[t].pc = "wait" /\ call'[t].event = e
        /\ ~Times(i)'
        /\ \A v \in Workers : ~Works(v, i)'
    <3>1. \A u \in Threads : At(u, i)' <=> At(u, i)
      BY <1>1, Zenon DEF At, SameCall
    <3>2. \A v \in Workers : ~Works(v, i)'
      BY <1>1, <1>4, <2>4, Zenon DEF Works
    <3> QED  BY <1>1, <2>2, <2>3, <3>1, <3>2, Zenon DEF SameCall, Times
  <2>6. call'[t].woken # "sent" /\ call'[t].pc # "found" /\ call'[t].pc # "release"
    <3>1. call[t].woken # "sent"
      BY <2>2, Zenon DEF CompleteEffect, Locked, At
    <3>2. call'[t].woken # "sent"
      BY <1>1, <3>1, Zenon DEF SameCall
    <3> QED  BY <2>5, <3>2
  <2>7. /\ msg_pair[i].event_id = e /\ msg_pair[i].is_used /\ msg_pair[i].expire
    BY <2>1, <2>2, Zenon DEF PairOK, WaitsAt
  <2>8. AloneAt(i)'
    BY <2>5, Zenon DEF AloneAt
  <2>9. WaitsAt(i)'
    <3>1. /\ msg_pair'[i].event_id = e /\ msg_pair'[i].is_used /\ msg_pair'[i].expire
          /\ msg_pair'[i].ret = e
      BY <2>7, Zenon DEF CompleteEffect
    <3> QED  BY <2>5, <2>6, <3>1, Zenon DEF WaitsAt
  <2>10. AnswersAt(i)'
    <3>1. <<e, "sync">> \notin wire
      BY <1>1, Zenon DEF OneInv
    <3>2. <<e, "async">> \notin wire
      BY <2>1, <2>2, <2>7, Zenon DEF PairOK, AnswersAt
    <3>3. msg_pair'[i].event_id = e /\ wire' = wire
      BY <1>1, <2>7, Zenon
    <3> QED  BY <2>5, <3>1, <3>2, <3>3, Zenon DEF AnswersAt
  <2>11. GivenBackAt(i)'
    <3>1. WillClear(i)' /\ WillComeBack(i)'
      BY <2>5, <2>6, Zenon DEF WillClear, WillComeBack
    <3> QED  BY <2>5, <2>6, <3>1, Zenon DEF GivenBackAt
  <2> QED  BY <2>8, <2>9, <2>10, <2>11, Zenon DEF PairOK
<1>7. PairInv'
  BY <1>1, <1>5, <1>6, Zenon DEF PairInv
<1>8. OwnAnswer'
  BY <1>1, Zenon DEF OwnAnswer
<1> QED  BY <1>3, <1>7, <1>8, Zenon


\* At a pair with a worker or a timer of an asynchronous call nobody waits, and nobody
\* begins to when more of the pair is given back.
LEMMA NobodyWaits ==
  ASSUME NEW i \in Pairs, TypeOK, GivenInv, PairOK(i), \A t \in Threads : ~At(t, i),
         UNCHANGED <<call, wire>>,
         msg_pair'[i].event_id \in {msg_pair[i].event_id, 0},
         \A v \in Workers : Works(v, i)' => Works(v, i) /\ work'[v].kind = work[v].kind
  PROVE  AloneAt(i)' /\ WaitsAt(i)' /\ AnswersAt(i)' /\ \A t \in Threads : ~At(t, i)'
<1>1. \A t \in Threads : ~At(t, i)'
  BY Zenon DEF At
<1>2. AloneAt(i)' /\ WaitsAt(i)'
  BY <1>1, Zenon DEF AloneAt, WaitsAt
<1>3. \A f : ~Unanswered(f, i)
  BY Zenon DEF Unanswered
<1>4. \A v \in Workers : Works(v, i) => work[v].kind # "sync"
  BY <1>3, Zenon DEF PairOK, AnswersAt
<1>5. \A f \in Calls : msg_pair[i].event_id = f => <<f, "sync">> \notin wire
  BY <1>3, Zenon DEF PairOK, AnswersAt
<1>6. \A f \in Calls : msg_pair'[i].event_id = f => msg_pair[i].event_id = f
  BY Uses, Zenon
<1>7. \A v \in Workers : Works(v, i)' => work'[v].kind # "sync"
  BY <1>4, Zenon
<1>8. AnswersAt(i)'
  BY <1>1, <1>5, <1>6, <1>7, Zenon DEF AnswersAt
<1> QED  BY <1>1, <1>2, <1>8, Zenon

\* A worker gives pair i back, one store after the other.
AsyncEffect(w, i, n) ==
    /\ work[w].kind = "async" /\ work[w].at = i /\ work[w].store = n
    /\ work'[w].kind = "async" /\ work'[w].at = i /\ work'[w].store = n + 1
    /\ work'[w].event = work[w].event
    /\ \A v \in Workers \ {w} : work'[v] = work[v]
    /\ Cleared(msg_pair[i], msg_pair'[i], n)
    /\ \A j \in Pairs \ {i} : msg_pair'[j] = msg_pair[j]
    /\ UNCHANGED <<timer, call, index, wire, outcome, mixed, stray>>

LEMMA AsyncFacts ==
  ASSUME TypeOK, ScanInv, StoreInv, GivenInv, NEW w \in Workers, AsyncGivesBack(w)
  PROVE  /\ TypeOK' /\ ScanInv' /\ StoreInv' /\ work[w].at \in Pairs
         /\ work[w].store \in {1, 2, 3}
         /\ AsyncEffect(w, work[w].at, work[w].store)
<1> DEFINE i == work[w].at
           n == work[w].store
           next == [work[w] EXCEPT !.store = n + 1]
           pair == Reset(msg_pair[i], n)
<1>1. /\ work[w].kind = "async" /\ i \in Pairs /\ n \in {1, 2, 3} /\ n + 1 \in {1, 2, 3, 4}
      /\ UNCHANGED <<timer, call, scanner, index, wire, outcome, mixed, stray>>
  <2>1. /\ work[w].kind = "async" /\ n <= 3
        /\ UNCHANGED <<timer, call, scanner, index, wire, outcome, mixed, stray>>
    BY Zenon DEF AsyncGivesBack, history
  <2>2. work[w].kind # "none"
    BY <2>1
  <2>3. i \in Pairs /\ n \in {1, 2, 3, 4}
    BY <2>2, Uses, Zenon DEF StoreInv
  <2> QED  BY <2>1, <2>3
<1>2. msg_pair[i] \in MessagePair /\ work[w] \in Work
  BY <1>1, Zenon DEF TypeOK
<1>3. Cleared(msg_pair[i], pair, n) /\ pair \in MessagePair
  <2>1. Cleared(msg_pair[i], pair, n)
    BY <1>1, <1>2, ResetRecords, Zenon
  <2> QED  BY <2>1, Zenon DEF Cleared
<1>4. /\ next \in Work /\ next.kind = "async" /\ next.at = i /\ next.store = n + 1
      /\ next.event = work[w].event
  <2>1. n + 1 \in 0..4
    BY <1>1
  <2> QED  BY <1>1, <1>2, <2>1, Zenon DEF Work
<1>5. msg_pair' = [msg_pair EXCEPT ![i] = pair] /\ work' = [work EXCEPT ![w] = next]
  BY Zenon DEF AsyncGivesBack
<1> HIDE DEF next, pair
<1>6. /\ msg_pair' \in [Pairs -> MessagePair] /\ msg_pair'[i] = pair
      /\ \A j \in Pairs \ {i} : msg_pair'[j] = msg_pair[j]
      /\ work' \in [Workers -> Work] /\ work'[w] = next
      /\ \A v \in Workers \ {w} : work'[v] = work[v]
  BY <1>1, <1>3, <1>4, <1>5, Zenon DEF TypeOK
<1>7. TypeOK' /\ ScanInv'
  BY <1>1, <1>6, Zenon DEF TypeOK, ScanInv
<1>8. StoreInv'
  <2>1. \A v \in Workers : work'[v].kind # "none" => work'[v].store \in {1, 2, 3, 4}
    BY <1>1, <1>4, <1>6, Zenon DEF StoreInv
  <2> QED  BY <1>1, <2>1, Zenon DEF StoreInv
<1>9. AsyncEffect(w, i, n)
  BY <1>1, <1>3, <1>4, <1>6, Zenon DEF AsyncEffect
<1> QED  BY <1>1, <1>7, <1>8, <1>9, Zenon

\* Nobody is at the pair but workers and the timer of the same call.
LEMMA AsyncStep ==
  ASSUME TypeOK, GivenInv, OneInv, SentInv, PairInv, OwnAnswer,
         NEW w \in Workers, NEW i \in Pairs, NEW n \in {1, 2, 3}, AsyncEffect(w, i, n)
  PROVE  GivenInv' /\ OneInv' /\ SentInv' /\ PairInv' /\ OwnAnswer'
<1>1. /\ work[w].kind = "async" /\ work[w].at = i /\ work[w].store = n
      /\ work'[w].kind = "async" /\ work'[w].at = i /\ work'[w].store = n + 1
      /\ work'[w].event = work[w].event
      /\ \A v \in Workers \ {w} : work'[v] = work[v]
      /\ \A j \in Pairs \ {i} : msg_pair'[j] = msg_pair[j]
      /\ UNCHANGED <<timer, call, index, wire, outcome, mixed, stray>>
  BY Zenon DEF AsyncEffect
<1>2. /\ msg_pair'[i].event_id \in {msg_pair[i].event_id, 0}
      /\ n = 2 => msg_pair'[i].event_id = 0
      /\ n = 1 => ~msg_pair'[i].is_used
      /\ n # 1 => msg_pair'[i].is_used = msg_pair[i].is_used
  <2>1. Cleared(msg_pair[i], msg_pair'[i], n)
    BY Zenon DEF AsyncEffect
  <2> QED  BY <2>1, Zenon DEF Cleared
<1>3. Shrinks
  <2>1. \A j \in Pairs : msg_pair'[j].event_id \in {msg_pair[j].event_id, 0}
    BY <1>1, <1>2, Zenon
  <2>2. \A v \in Workers : work'[v].kind # "none" =>
           /\ work'[v].kind = work[v].kind /\ work'[v].event = work[v].event
           /\ work'[v].at = work[v].at
    BY <1>1, Zenon
  <2> QED  BY <1>1, <2>1, <2>2, Zenon DEF Shrinks, Active
<1>4. GivenInv' /\ OneInv' /\ SentInv'
  BY <1>3, ShrinksOK, Zenon
<1>5. /\ Works(w, i) /\ Works(w, i)' /\ \A v \in Workers : Works(v, i)' <=> Works(v, i)
      /\ \A j \in Pairs \ {i} : ~Works(w, j) /\ ~Works(w, j)'
  <2>1. Works(w, i) /\ Works(w, i)' /\ \A j \in Pairs \ {i} : ~Works(w, j) /\ ~Works(w, j)'
    BY <1>1 DEF Works
  <2> QED  BY <1>1, <2>1, Zenon DEF Works
<1>6. ASSUME NEW j \in Pairs \ mixed, j # i  PROVE PairOK(j)'
  <2>1. \A t \in Threads : SameCall(t)
    BY <1>1, Zenon DEF SameCall
  <2>2. Apart(j)
    BY <1>1, <1>5, <1>6, <2>1, WorksApart, Zenon
  <2> QED  BY <2>2, ApartOK, Zenon DEF PairInv
<1>7. ASSUME i \notin mixed  PROVE PairOK(i)'
  <2>1. PairOK(i)
    BY <1>7, Zenon DEF PairInv
  <2>2. \A t \in Threads : ~At(t, i)
    <3>1. work[w].kind # "sync"
      BY <1>1
    <3> QED  BY <1>5, <2>1, <3>1, Zenon DEF PairOK, AloneAt
  <2>3. AloneAt(i)' /\ WaitsAt(i)' /\ AnswersAt(i)' /\ \A t \in Threads : ~At(t, i)'
    <3>1. \A v \in Workers : Works(v, i)' => Works(v, i) /\ work'[v].kind = work[v].kind
      BY <1>1, <1>5, Zenon
    <3> QED  BY <1>1, <1>2, <2>1, <2>2, <3>1, NobodyWaits, Zenon
  <2>4. \A v \in Workers : Works(v, i) /\ work[v].kind = "async" =>
           /\ work[v].store \in {2, 3, 4} /\ msg_pair[i].is_used => i = 1 /\ stray
           /\ work[v].store \in {3, 4} => msg_pair[i].event_id = 0
    BY <2>1, Zenon DEF PairOK, GivenBackAt
  <2>5. /\ n # 1 => (msg_pair[i].is_used => i = 1 /\ stray)
        /\ n = 3 => msg_pair[i].event_id = 0
    BY <1>1, <1>5, <2>4
  <2>6. msg_pair'[i].is_used => i = 1 /\ stray'
    BY <1>1, <1>2, <2>5, Zenon
  <2>7. n # 1 => msg_pair'[i].event_id = 0
    BY <1>2, <2>5
  <2>8. GivenBackAt(i)'
    <3>1. n = 1 => WillClear(i)'
      <4>1. n = 1 => work'[w].store \in {1, 2}
        BY <1>1
      <4> QED  BY <1>1, <1>5, <4>1, Zenon DEF WillClear
    <3>2. \A v \in Workers : Works(v, i)' /\ work'[v].kind = "async" /\ work'[v].store \in {3, 4}
             => msg_pair'[i].event_id = 0
      <4>1. work'[w].store \in {3, 4} => msg_pair'[i].event_id = 0
        <5>1. work'[w].store \in {3, 4} => n # 1
          BY <1>1
        <5> QED  BY <2>7, <5>1, Zenon
      <4>2. msg_pair[i].event_id = 0 => msg_pair'[i].event_id = 0
        BY <1>2, Zenon
      <4> QED  BY <1>1, <1>5, <2>4, <4>1, <4>2, Zenon
    <3> QED  BY <2>3, <2>6, <2>7, <3>1, <3>2, Zenon DEF GivenBackAt
  <2> QED  BY <2>3, <2>8, Zenon DEF PairOK
<1>8. PairInv'
  BY <1>1, <1>6, <1>7, Zenon DEF PairInv
<1>9. OwnAnswer'
  BY <1>1, Zenon DEF OwnAnswer
<1> QED  BY <1>4, <1>8, <1>9, Zenon


\* A worker that has given the pair back cancels the timer.
CancelEffect(w, i) ==
    /\ work[w].kind = "async" /\ work[w].at = i /\ work[w].store = 4
    /\ work'[w].kind = "none"
    /\ \A v \in Workers \ {w} : work'[v] = work[v]
    /\ timer'[i].fired = timer[i].fired /\ timer'[i].store = timer[i].store
    /\ ~timer'[i].armed
    /\ \A j \in Pairs \ {i} : timer'[j] = timer[j]
    /\ UNCHANGED <<msg_pair, call, index, wire, outcome, mixed, stray>>

LEMMA CancelFacts ==
  ASSUME TypeOK, ScanInv, StoreInv, GivenInv, NEW w \in Workers, AsyncCancels(w)
  PROVE  /\ TypeOK' /\ ScanInv' /\ StoreInv' /\ work[w].at \in Pairs
         /\ CancelEffect(w, work[w].at)
<1> DEFINE i == work[w].at
           new == [timer[i] EXCEPT !.armed = FALSE]
<1>1. /\ work[w].kind = "async" /\ work[w].store = 4 /\ i \in Pairs
      /\ UNCHANGED <<msg_pair, call, scanner, index, wire, outcome, mixed, stray>>
  <2>1. /\ work[w].kind = "async" /\ work[w].store = 4
        /\ UNCHANGED <<msg_pair, call, scanner, index, wire, outcome, mixed, stray>>
    BY Zenon DEF AsyncCancels, history
  <2>2. work[w].kind # "none"
    BY <2>1
  <2> QED  BY <2>1, <2>2, Uses, Zenon
<1>2. timer[i] \in Timer
  BY <1>1, Zenon DEF TypeOK
<1>3. /\ new \in Timer /\ ~new.armed /\ new.fired = timer[i].fired
      /\ new.store = timer[i].store
  <2>1. new \in Timer
    BY <1>2, TimerRecords, Zenon
  <2> QED  BY <1>2, <2>1, Zenon DEF Timer
<1>4. timer' = [timer EXCEPT ![i] = new] /\ work' = [work EXCEPT ![w] = NoWork]
  BY Zenon DEF AsyncCancels
<1> HIDE DEF new
<1>5. /\ timer' \in [Pairs -> Timer] /\ timer'[i] = new
      /\ \A j \in Pairs \ {i} : timer'[j] = timer[j]
      /\ work' \in [Workers -> Work] /\ work'[w] = NoWork
      /\ \A v \in Workers \ {w} : work'[v] = work[v]
  BY <1>1, <1>3, <1>4, Records, Zenon DEF TypeOK
<1>6. TypeOK' /\ ScanInv'
  BY <1>1, <1>5, Zenon DEF TypeOK, ScanInv
<1>7. StoreInv'
  <2>1. \A v \in Workers : work'[v].kind # "none" => work'[v].store \in {1, 2, 3, 4}
    BY <1>5, Records, Zenon DEF StoreInv
  <2> QED  BY <1>1, <2>1, Zenon DEF StoreInv
<1>8. CancelEffect(w, i)
  BY <1>1, <1>3, <1>5, Records, Zenon DEF CancelEffect
<1> QED  BY <1>1, <1>6, <1>7, <1>8, Zenon

\* The timer that is cancelled is no longer needed: the pair has been given back.
LEMMA CancelStep ==
  ASSUME TypeOK, GivenInv, OneInv, SentInv, PairInv, OwnAnswer,
         NEW w \in Workers, NEW i \in Pairs, CancelEffect(w, i)
  PROVE  GivenInv' /\ OneInv' /\ SentInv' /\ PairInv' /\ OwnAnswer'
<1>1. /\ work[w].kind = "async" /\ work[w].at = i /\ work[w].store = 4 /\ work'[w].kind = "none"
      /\ \A v \in Workers \ {w} : work'[v] = work[v]
      /\ \A j \in Pairs \ {i} : timer'[j] = timer[j]
      /\ UNCHANGED <<msg_pair, call, index, wire, outcome, mixed, stray>>
  BY Zenon DEF CancelEffect
<1>2. Shrinks
  <2>1. \A v \in Workers : work'[v].kind # "none" =>
           /\ work'[v].kind = work[v].kind /\ work'[v].event = work[v].event
           /\ work'[v].at = work[v].at
    BY <1>1, Zenon
  <2> QED  BY <1>1, <2>1, Zenon DEF Shrinks, Active
<1>3. GivenInv' /\ OneInv' /\ SentInv'
  BY <1>2, ShrinksOK, Zenon
<1>4. /\ Works(w, i) /\ ~Works(w, i)' /\ \A v \in Workers \ {w} : Works(v, i)' => Works(v, i)
      /\ \A j \in Pairs \ {i} : ~Works(w, j) /\ ~Works(w, j)'
  <2>1. Works(w, i) /\ ~Works(w, i)' /\ \A j \in Pairs \ {i} : ~Works(w, j) /\ ~Works(w, j)'
    BY <1>1 DEF Works
  <2> QED  BY <1>1, <2>1, Zenon DEF Works
<1>5. ASSUME NEW j \in Pairs \ mixed, j # i  PROVE PairOK(j)'
  <2>1. \A t \in Threads : SameCall(t)
    BY <1>1, Zenon DEF SameCall
  <2>2. Apart(j)
    BY <1>1, <1>4, <1>5, <2>1, WorksApart, Zenon
  <2> QED  BY <2>2, ApartOK, Zenon DEF PairInv
<1>6. ASSUME i \notin mixed  PROVE PairOK(i)'
  <2>1. PairOK(i)
    BY <1>6, Zenon DEF PairInv
  <2>2. \A t \in Threads : ~At(t, i)
    <3>1. work[w].kind # "sync"
      BY <1>1
    <3> QED  BY <1>4, <2>1, <3>1, Zenon DEF PairOK, AloneAt
  <2>3. \A v \in Workers : Works(v, i)' => Works(v, i) /\ work'[v] = work[v]
    BY <1>1, <1>4, Zenon
  <2>4. AloneAt(i)' /\ WaitsAt(i)' /\ AnswersAt(i)' /\ \A t \in Threads : ~At(t, i)'
    BY <1>1, <2>1, <2>2, <2>3, NobodyWaits, Zenon
  <2>5. \A v \in Workers : Works(v, i) /\ work[v].kind = "async" =>
           /\ work[v].store \in {2, 3, 4} /\ msg_pair[i].is_used => i = 1 /\ stray
           /\ work[v].store \in {3, 4} => msg_pair[i].event_id = 0
    BY <2>1, Zenon DEF PairOK, GivenBackAt
  <2>6. msg_pair[i].event_id = 0 /\ (msg_pair[i].is_used => i = 1 /\ stray)
    <3>1. work[w].store \in {2, 3, 4} /\ work[w].store \in {3, 4}
      BY <1>1
    <3> QED  BY <1>1, <1>4, <2>5, <3>1, Zenon
  <2>7. GivenBackAt(i)'
    <3>1. \A v \in Workers : Works(v, i)' /\ work'[v].kind = "async" =>
             /\ work'[v].store \in {2, 3, 4} /\ msg_pair'[i].is_used => i = 1 /\ stray'
             /\ work'[v].store \in {3, 4} => msg_pair'[i].event_id = 0
      BY <1>1, <2>6, Zenon
    <3> QED  BY <1>1, <2>4, <2>6, <3>1, Zenon DEF GivenBackAt
  <2> QED  BY <2>4, <2>7, Zenon DEF PairOK
<1>7. PairInv'
  BY <1>1, <1>5, <1>6, Zenon DEF PairInv
<1>8. OwnAnswer'
  BY <1>1, Zenon DEF OwnAnswer
<1> QED  BY <1>3, <1>7, <1>8, Zenon

\* A step of the timer's handler: it starts, if the pair is used, or makes a store.
HandlerEffect(i) ==
    /\ Times(i)
    /\ timer'[i].armed = timer[i].armed
    /\ \/ /\ timer[i].store = 0
          /\ msg_pair[i].is_used => timer'[i].store = 1
          /\ ~msg_pair[i].is_used => timer'[i].store = 0
          /\ msg_pair'[i] = msg_pair[i]
       \/ /\ timer[i].store \in {1, 2, 3}
          /\ timer[i].store # 3 => timer'[i].store = timer[i].store + 1
          /\ timer'[i].fired = timer[i].fired
          /\ Cleared(msg_pair[i], msg_pair'[i], timer[i].store)
    /\ \A j \in Pairs \ {i} : timer'[j] = timer[j] /\ msg_pair'[j] = msg_pair[j]
    /\ UNCHANGED <<call, index, wire, work, outcome, mixed, stray>>

LEMMA HandlerFacts ==
  ASSUME TypeOK, ScanInv, StoreInv, NEW i \in Pairs, send_request_async_timeout_handle(i)
  PROVE  TypeOK' /\ ScanInv' /\ StoreInv' /\ HandlerEffect(i)
<1>1. PICK n \in {0, 1} :
         /\ n = 1 <=> msg_pair[i].is_used
         /\ timer' = [timer EXCEPT ![i] = [@ EXCEPT !.fired = FALSE, !.store = n]]
  BY Zenon DEF send_request_async_timeout_handle
<1> DEFINE new == [timer[i] EXCEPT !.fired = FALSE, !.store = n]
<1>2. /\ timer[i].fired /\ timer[i].store = 0
      /\ UNCHANGED <<msg_pair, call, scanner, index, wire, work, outcome, mixed, stray>>
  BY Zenon DEF send_request_async_timeout_handle, history
<1>3. timer[i] \in Timer /\ n \in 0..3
  <2>1. n \in 0..3
    BY <1>1
  <2> QED  BY <2>1, Zenon DEF TypeOK
<1>4. new \in Timer /\ new.armed = timer[i].armed /\ new.store = n
  <2>1. new \in Timer
    BY <1>3, TimerRecords, Zenon
  <2> QED  BY <1>3, <2>1, Zenon DEF Timer
<1>5. timer' = [timer EXCEPT ![i] = new]
  BY <1>1, Zenon
<1> HIDE DEF new
<1>6. /\ timer' \in [Pairs -> Timer] /\ timer'[i] = new
      /\ \A j \in Pairs \ {i} : timer'[j] = timer[j]
  BY <1>4, <1>5, Zenon DEF TypeOK
<1>7. TypeOK' /\ ScanInv' /\ StoreInv'
  BY <1>2, <1>6, Zenon DEF TypeOK, ScanInv, StoreInv
<1>8. /\ msg_pair[i].is_used => timer'[i].store = 1
      /\ ~msg_pair[i].is_used => timer'[i].store = 0
  <2>1. timer'[i].store = n
    BY <1>4, <1>6, Zenon
  <2> QED  BY <1>1, <2>1, Zenon
<1>9. HandlerEffect(i)
  BY <1>2, <1>4, <1>6, <1>8, Zenon DEF HandlerEffect, Times
<1> QED  BY <1>7, <1>9, Zenon

LEMMA TimeoutFacts ==
  ASSUME TypeOK, ScanInv, StoreInv, NEW i \in Pairs, TimeoutGivesBack(i)
  PROVE  TypeOK' /\ ScanInv' /\ StoreInv' /\ HandlerEffect(i)
<1> DEFINE n == timer[i].store
           m == IF n = 3 THEN 0 ELSE n + 1
           new == [timer[i] EXCEPT !.store = m]
           pair == Reset(msg_pair[i], n)
<1>1. n # 0 /\ UNCHANGED <<call, scanner, index, wire, work, outcome, mixed, stray>>
  BY Zenon DEF TimeoutGivesBack, history
<1>2. timer[i] \in Timer /\ msg_pair[i] \in MessagePair
  BY Zenon DEF TypeOK
<1>3. n \in {1, 2, 3} /\ m \in 0..3 /\ (n # 3 => m = n + 1)
  <2>1. n \in 0..3
    BY <1>2, Zenon DEF Timer
  <2> QED  BY <1>1, <2>1
<1>4. Cleared(msg_pair[i], pair, n) /\ pair \in MessagePair
  <2>1. Cleared(msg_pair[i], pair, n)
    BY <1>2, <1>3, ResetRecords, Zenon
  <2> QED  BY <2>1, Zenon DEF Cleared
<1>5. timer' = [timer EXCEPT ![i] = new] /\ msg_pair' = [msg_pair EXCEPT ![i] = pair]
  BY Zenon DEF TimeoutGivesBack
<1> HIDE DEF m, pair
<1>6. /\ new \in Timer /\ new.armed = timer[i].armed /\ new.fired = timer[i].fired
      /\ new.store = m
  <2>1. new \in Timer
    BY <1>2, <1>3, TimerRecords, Zenon
  <2> QED  BY <1>2, <2>1, Zenon DEF Timer
<1> HIDE DEF new
<1>7. /\ timer' \in [Pairs -> Timer] /\ timer'[i] = new
      /\ \A j \in Pairs \ {i} : timer'[j] = timer[j]
      /\ msg_pair' \in [Pairs -> MessagePair] /\ msg_pair'[i] = pair
      /\ \A j \in Pairs \ {i} : msg_pair'[j] = msg_pair[j]
  BY <1>4, <1>5, <1>6, Zenon DEF TypeOK
<1>8. TypeOK' /\ ScanInv' /\ StoreInv'
  BY <1>1, <1>7, Zenon DEF TypeOK, ScanInv, StoreInv
<1>9. timer[i].store # 3 => timer'[i].store = timer[i].store + 1
  BY <1>3, <1>6, <1>7, Zenon
<1>10. HandlerEffect(i)
  BY <1>1, <1>3, <1>4, <1>6, <1>7, <1>9, Zenon DEF HandlerEffect, Times
<1> QED  BY <1>8, <1>10, Zenon

\* Nobody waits at a pair with a timer, and the pair is given back to the end.
LEMMA HandlerStep ==
  ASSUME TypeOK, GivenInv, OneInv, SentInv, PairInv, OwnAnswer, NEW i \in Pairs, HandlerEffect(i)
  PROVE  GivenInv' /\ OneInv' /\ SentInv' /\ PairInv' /\ OwnAnswer'
<1>1. /\ Times(i) /\ timer'[i].armed = timer[i].armed
      /\ \A j \in Pairs \ {i} : timer'[j] = timer[j] /\ msg_pair'[j] = msg_pair[j]
      /\ UNCHANGED <<call, index, wire, work, outcome, mixed, stray>>
  BY Zenon DEF HandlerEffect
<1>2. /\ msg_pair'[i].event_id \in {msg_pair[i].event_id, 0}
      /\ msg_pair'[i].is_used => msg_pair[i].is_used
  <2>1. CASE msg_pair'[i] = msg_pair[i]
    BY <2>1, Zenon
  <2>2. CASE timer[i].store \in {1, 2, 3} /\ Cleared(msg_pair[i], msg_pair'[i], timer[i].store)
    BY <2>2, Zenon DEF Cleared
  <2> QED  BY <2>1, <2>2, Zenon DEF HandlerEffect
<1>3. Shrinks
  <2>1. \A j \in Pairs : msg_pair'[j].event_id \in {msg_pair[j].event_id, 0}
    BY <1>1, <1>2, Zenon
  <2> QED  BY <1>1, <2>1, Zenon DEF Shrinks, Active
<1>4. GivenInv' /\ OneInv' /\ SentInv'
  BY <1>3, ShrinksOK, Zenon
<1>5. ASSUME NEW j \in Pairs \ mixed, j # i  PROVE PairOK(j)'
  <2>1. \A t \in Threads : SameCall(t)
    BY <1>1, Zenon DEF SameCall
  <2>2. Apart(j)
    BY <1>1, <1>5, <2>1, WorksApart, Zenon
  <2> QED  BY <2>2, ApartOK, Zenon DEF PairInv
<1>6. ASSUME i \notin mixed  PROVE PairOK(i)'
  <2>1. PairOK(i)
    BY <1>6, Zenon DEF PairInv
  <2>2. \A t \in Threads : ~At(t, i)
    BY <1>1, <2>1, Zenon DEF PairOK, AloneAt
  <2>3. \A v \in Workers : (Works(v, i)' <=> Works(v, i)) /\ work'[v] = work[v]
    BY <1>1, Zenon DEF Works
  <2>4. AloneAt(i)' /\ WaitsAt(i)' /\ AnswersAt(i)' /\ \A t \in Threads : ~At(t, i)'
    BY <1>1, <1>2, <2>1, <2>2, <2>3, NobodyWaits, Zenon
  <2>5. \A v \in Workers : Works(v, i) /\ work[v].kind = "async" =>
           /\ work[v].store \in {2, 3, 4} /\ msg_pair[i].is_used => i = 1 /\ stray
           /\ work[v].store \in {3, 4} => msg_pair[i].event_id = 0
    BY <2>1, Zenon DEF PairOK, GivenBackAt
  <2>6. \A v \in Workers : Works(v, i)' /\ work'[v].kind = "async" =>
           /\ work'[v].store \in {2, 3, 4} /\ msg_pair'[i].is_used => i = 1 /\ stray'
           /\ work'[v].store \in {3, 4} => msg_pair'[i].event_id = 0
    BY <1>1, <1>2, <2>3, <2>5, Zenon
  <2>7. /\ msg_pair[i].event_id # 0 => WillClear(i)
        /\ msg_pair[i].is_used => WillComeBack(i) \/ (i = 1 /\ stray)
    BY <2>1, Zenon DEF PairOK, GivenBackAt
  <2>8. ASSUME \E w \in Workers : Works(w, i) /\ work[w].kind = "async" /\ work[w].store \in {1, 2}
        PROVE  WillClear(i)'
    BY <2>3, <2>8, Zenon DEF WillClear
  <2>9. ASSUME \E w \in Workers : Works(w, i) /\ work[w].kind = "async" /\ work[w].store = 1
        PROVE  WillComeBack(i)'
    BY <2>3, <2>9, Zenon DEF WillComeBack
  <2>10. CASE /\ timer[i].store = 0
              /\ msg_pair[i].is_used => timer'[i].store = 1
              /\ ~msg_pair[i].is_used => timer'[i].store = 0
              /\ msg_pair'[i] = msg_pair[i]
    <3>1. msg_pair[i].is_used => WillClear(i)' /\ WillComeBack(i)'
      <4>1. 1 \in {1, 2}
        OBVIOUS
      <4> QED  BY <2>10, <4>1, Zenon DEF WillClear, WillComeBack
    <3>2. ~msg_pair[i].is_used /\ msg_pair[i].event_id # 0 => WillClear(i)'
      <4>1. timer[i].store \notin {1, 2}
        BY <2>10
      <4> QED  BY <2>2, <2>7, <2>8, <4>1, Zenon DEF WillClear
    <3> QED  BY <2>4, <2>6, <2>10, <3>1, <3>2, Zenon DEF PairOK, GivenBackAt
  <2>11. CASE /\ timer[i].store \in {1, 2, 3}
              /\ timer[i].store # 3 => timer'[i].store = timer[i].store + 1
              /\ timer'[i].fired = timer[i].fired
              /\ Cleared(msg_pair[i], msg_pair'[i], timer[i].store)
    <3>1. /\ timer[i].store = 1 => ~msg_pair'[i].is_used /\ timer'[i].store \in {1, 2}
          /\ timer[i].store = 2 => msg_pair'[i].event_id = 0
          /\ timer[i].store # 1 => msg_pair'[i].is_used = msg_pair[i].is_used
      <4>1. timer[i].store = 1 => timer'[i].store \in {1, 2}
        BY <2>11
      <4> QED  BY <2>11, <4>1, Zenon DEF Cleared
    <3>2. msg_pair'[i].event_id # 0 => WillClear(i)'
      <4>1. CASE timer[i].store = 1
        BY <3>1, <4>1, Zenon DEF WillClear
      <4>2. CASE timer[i].store = 2
        BY <3>1, <4>2, Zenon
      <4>3. CASE timer[i].store = 3
        <5>1. timer[i].store \notin {1, 2} /\ timer[i].store # 1
          BY <4>3
        <5>2. ASSUME msg_pair[i].is_used, timer[i].armed \/ timer[i].fired
              PROVE  WillClear(i)'
          BY <1>1, <2>11, <3>1, <5>1, <5>2, Zenon DEF WillClear
        <5>3. msg_pair[i].event_id # 0 => WillClear(i)'
          BY <2>2, <2>7, <2>8, <5>1, <5>2, Zenon DEF WillClear
        <5> QED  BY <1>2, <5>3, Zenon
      <4> QED  BY <2>11, <4>1, <4>2, <4>3, Zenon
    <3>3. msg_pair'[i].is_used => WillComeBack(i)' \/ (i = 1 /\ stray')
      <4> SUFFICES ASSUME msg_pair'[i].is_used  PROVE WillComeBack(i)' \/ (i = 1 /\ stray')
        BY Zenon
      <4>1. timer[i].store # 1 /\ msg_pair[i].is_used
        BY <1>2, <3>1, Zenon
      <4>2. ASSUME timer[i].armed \/ timer[i].fired  PROVE WillComeBack(i)'
        BY <1>1, <2>11, <4>2, Zenon DEF WillComeBack
      <4> QED  BY <1>1, <2>2, <2>7, <2>9, <4>1, <4>2, Zenon DEF WillComeBack
    <3> QED  BY <2>4, <2>6, <3>2, <3>3, Zenon DEF PairOK, GivenBackAt
  <2> QED  BY <2>10, <2>11, Zenon DEF HandlerEffect
<1>7. PairInv'
  BY <1>1, <1>5, <1>6, Zenon DEF PairInv
<1>8. OwnAnswer'
  BY <1>1, Zenon DEF OwnAnswer
<1> QED  BY <1>4, <1>7, <1>8, Zenon


-----------------------------------------------------------------------------
(***************************************************************************)
(* The invariant, and what follows from it.                                *)
(***************************************************************************)
ClientInv ==
    ScanInv /\ StoreInv /\ GivenInv /\ OneInv /\ SentInv /\ PairInv /\ OwnAnswer

LEMMA InitClient == Init => TypeOK /\ ClientInv
<1> SUFFICES ASSUME Init  PROVE TypeOK /\ ClientInv
  BY Zenon
<1>1. /\ \A i \in Pairs : msg_pair[i] = Idle /\ timer[i] = NoTimer
      /\ \A t \in Threads : call[t] = NoCall
      /\ \A w \in Workers : work[w] = NoWork
      /\ \A e \in Calls : outcome[e] = 0
      /\ wire = {} /\ mixed = {} /\ scanner = {} /\ index = 1 /\ stray = FALSE
  BY Zenon DEF Init
<1>2. TypeOK
  <2>1. index \in 1 .. MaxCalls + 1
    BY <1>1, ClientAssumption
  <2>2. /\ msg_pair \in [Pairs -> MessagePair] /\ timer \in [Pairs -> Timer]
        /\ call \in [Threads -> Call] /\ work \in [Workers -> Work]
        /\ outcome \in [Calls -> Results \cup {0}]
    BY Records, Zenon DEF Init
  <2> QED  BY <1>1, <2>1, <2>2, Zenon DEF TypeOK
<1>3. \A t \in Threads : /\ call[t].pc # "scan" /\ call[t].pc # "found"
                         /\ call[t].pc # "wait" /\ call[t].pc # "release"
  BY <1>1, Records
<1>4. \A t \in Threads : ~Active(t) /\ \A i \in Pairs : ~At(t, i)
  BY <1>3, Zenon DEF Active, At
<1>5. \A w \in Workers : work[w].kind = "none" /\ work[w].kind # "sync"
  BY <1>1, Records
<1>6. \A i \in Pairs : /\ msg_pair[i].event_id = 0 /\ ~msg_pair[i].is_used
                       /\ \A w \in Workers : ~Works(w, i)
  <2>1. Idle.event_id = 0 /\ ~Idle.is_used
    BY DEF Idle
  <2> QED  BY <1>1, <1>5, <2>1, Zenon DEF Works
<1>7. ScanInv /\ StoreInv /\ OneInv /\ SentInv /\ OwnAnswer
  BY <1>1, <1>3, <1>4, <1>5, Zenon DEF ScanInv, StoreInv, OneInv, SentInv, OwnAnswer
<1>8. GivenInv
  BY <1>1, <1>4, <1>5, <1>6, Zenon DEF GivenInv
<1>9. ASSUME NEW i \in Pairs  PROVE PairOK(i)
  <2>1. AloneAt(i) /\ WaitsAt(i)
    BY <1>4, Zenon DEF AloneAt, WaitsAt
  <2>2. AnswersAt(i)
    BY <1>1, <1>6, Zenon DEF AnswersAt
  <2>3. GivenBackAt(i)
    BY <1>4, <1>6, Zenon DEF GivenBackAt
  <2> QED  BY <2>1, <2>2, <2>3, Zenon DEF PairOK
<1> QED  BY <1>2, <1>7, <1>8, <1>9, Zenon DEF ClientInv, PairInv

\* A quiet step keeps the invariants.
LEMMA QuietStep ==
  ASSUME TypeOK, GivenInv, OneInv, SentInv, PairInv, OwnAnswer, Quiet
  PROVE  GivenInv' /\ OneInv' /\ SentInv' /\ PairInv' /\ OwnAnswer'
<1>1. GivenInv' /\ OneInv' /\ SentInv'
  BY ShrinksOK, Zenon DEF Quiet
<1>2. PairInv'
  BY ApartOK, Zenon DEF Quiet, PairInv
<1>3. OwnAnswer'
  BY Zenon DEF Quiet, OwnAnswer
<1> QED  BY <1>1, <1>2, <1>3, Zenon

\* So does a step that changes nothing.
LEMMA StutterStep ==
  ASSUME TypeOK, ScanInv, StoreInv, UNCHANGED vars
  PROVE  TypeOK' /\ ScanInv' /\ StoreInv' /\ Quiet
<1>1. UNCHANGED <<msg_pair, timer, call, scanner, index, wire, work, outcome, mixed, stray>>
  BY Zenon DEF vars
<1>2. call' \in [Threads -> Call] /\ \A u \in Threads : SameCall(u)
  BY <1>1, Zenon DEF TypeOK, SameCall
<1> QED  BY <1>1, <1>2, SameCalls, Zenon

LEMMA NextClient == TypeOK /\ ClientInv /\ [Next]_vars => TypeOK' /\ ClientInv'
<1> SUFFICES ASSUME TypeOK, ClientInv, [Next]_vars  PROVE TypeOK' /\ ClientInv'
  BY Zenon
<1> USE DEF ClientInv
<1>1. ASSUME TypeOK', ScanInv', StoreInv', Quiet  PROVE TypeOK' /\ ClientInv'
  BY <1>1, QuietStep, Zenon
<1>2. ASSUME NEW t \in Threads, NEW kind \in {"sync", "async"}, Begin(t, kind)
      PROVE  TypeOK' /\ ClientInv'
  BY <1>1, <1>2, BeginFacts, Zenon
<1>3. ASSUME NEW t \in Threads, Found(t)  PROVE TypeOK' /\ ClientInv'
  <2>1. /\ TypeOK' /\ ScanInv' /\ StoreInv' /\ call[t].at \in Pairs
        /\ FoundEffect(t, call[t].at)
    BY <1>3, FoundFacts, Zenon
  <2> QED  BY <2>1, FoundStep, Zenon
<1>4. ASSUME NEW t \in Threads, NotFound(t)  PROVE TypeOK' /\ ClientInv'
  BY <1>1, <1>4, NotFoundFacts, Zenon
<1>5. ASSUME NEW t \in Threads, SendSync(t)  PROVE TypeOK' /\ ClientInv'
  <2>1. /\ TypeOK' /\ ScanInv' /\ StoreInv' /\ call[t].at \in Pairs /\ call[t].event \in Calls
        /\ SendSyncEffect(t, call[t].at, call[t].event)
    BY <1>5, SendSyncFacts, Zenon
  <2> QED  BY <2>1, SendSyncStep, Zenon
<1>6. ASSUME NEW t \in Threads, SendAsync(t)  PROVE TypeOK' /\ ClientInv'
  <2>1. /\ TypeOK' /\ ScanInv' /\ StoreInv' /\ call[t].at \in Pairs /\ call[t].event \in Calls
        /\ SendAsyncEffect(t, call[t].at, call[t].event)
    BY <1>6, SendAsyncFacts, Zenon
  <2> QED  BY <2>1, SendAsyncStep, Zenon
<1>7. ASSUME NEW t \in Threads, Resume(t)  PROVE TypeOK' /\ ClientInv'
  <2>1. /\ TypeOK' /\ ScanInv' /\ StoreInv'
        /\ \/ Quiet
           \/ /\ call[t].at \in Pairs /\ call[t].event \in Calls
              /\ EndEffect(t, call[t].at, call[t].event)
    BY <1>7, ResumeFacts, Zenon
  <2> QED  BY <1>1, <2>1, EndStep, Zenon
<1>8. ASSUME NEW t \in Threads, GiveBack(t)  PROVE TypeOK' /\ ClientInv'
  <2>1. /\ TypeOK' /\ ScanInv' /\ StoreInv' /\ call[t].at \in Pairs
        /\ GiveBackEffect(t, call[t].at, call[t].store)
    BY <1>8, GiveBackFacts, Zenon
  <2>2. call[t].store \in {1, 2, 3}
    BY <2>1, Zenon DEF StoreInv, GiveBackEffect
  <2> QED  BY <2>1, <2>2, GiveBackStep, Zenon
<1>9. ASSUME NEW t \in Threads, NEW why \in {"timeout", "signal"}, Wake(t, why)
      PROVE  TypeOK' /\ ClientInv'
  <2>1. /\ call' = [call EXCEPT ![t] = [@ EXCEPT !.woken = why]]
        /\ UNCHANGED <<msg_pair, timer, scanner, index, wire, work, outcome, mixed, stray>>
    BY <1>9, Zenon DEF Wake, history
  <2>2. why \in {"no", "signal", "timeout"}
    BY <1>9, Zenon
  <2>3. call' \in [Threads -> Call] /\ \A u \in Threads : SameCall(u)
    BY <2>1, <2>2, WokenCalls, Zenon
  <2> QED  BY <1>1, <2>1, <2>3, SameCalls, Zenon
<1>10. ASSUME NEW w \in Workers, Receive(w)  PROVE TypeOK' /\ ClientInv'
  <2>1. /\ TypeOK' /\ ScanInv' /\ StoreInv'
        /\ \/ Quiet
           \/ \E i \in Pairs, e \in Calls, kind \in {"sync", "async"} :
                 ReceiveEffect(w, i, e, kind)
    BY <1>10, ReceiveFacts, Zenon
  <2> QED  BY <1>1, <2>1, ReceiveStep, Zenon
<1>11. ASSUME NEW w \in Workers, CompleteSync(w)  PROVE TypeOK' /\ ClientInv'
  <2>1. /\ TypeOK' /\ ScanInv' /\ StoreInv' /\ work[w].at \in Pairs /\ work[w].event \in Calls
        /\ CompleteEffect(w, work[w].at, work[w].event)
    BY <1>11, CompleteFacts, Zenon
  <2> QED  BY <2>1, CompleteStep, Zenon
<1>12. ASSUME NEW w \in Workers, AsyncGivesBack(w)  PROVE TypeOK' /\ ClientInv'
  <2>1. /\ TypeOK' /\ ScanInv' /\ StoreInv' /\ work[w].at \in Pairs
        /\ work[w].store \in {1, 2, 3}
        /\ AsyncEffect(w, work[w].at, work[w].store)
    BY <1>12, AsyncFacts, Zenon
  <2> QED  BY <2>1, AsyncStep, Zenon
<1>13. ASSUME NEW w \in Workers, AsyncCancels(w)  PROVE TypeOK' /\ ClientInv'
  <2>1. /\ TypeOK' /\ ScanInv' /\ StoreInv' /\ work[w].at \in Pairs
        /\ CancelEffect(w, work[w].at)
    BY <1>13, CancelFacts, Zenon
  <2> QED  BY <2>1, CancelStep, Zenon
<1>14. ASSUME NEW i \in Pairs, Fire(i)  PROVE TypeOK' /\ ClientInv'
  BY <1>1, <1>14, FireFacts, Zenon
<1>15. ASSUME NEW i \in Pairs, send_request_async_timeout_handle(i) \/ TimeoutGivesBack(i)
       PROVE  TypeOK' /\ ClientInv'
  <2>1. TypeOK' /\ ScanInv' /\ StoreInv' /\ HandlerEffect(i)
    BY <1>15, HandlerFacts, TimeoutFacts, Zenon
  <2> QED  BY <2>1, HandlerStep, Zenon
<1>16. ASSUME UNCHANGED vars  PROVE TypeOK' /\ ClientInv'
  BY <1>1, <1>16, StutterStep, Zenon
<1> HIDE DEF ClientInv
<1>17. CASE \E t \in Threads :
              \/ \E kind \in {"sync", "async"} : Begin(t, kind)
              \/ Found(t) \/ NotFound(t) \/ SendSync(t) \/ SendAsync(t) \/ Resume(t) \/ GiveBack(t)
              \/ \E why \in {"timeout", "signal"} : Wake(t, why)
  BY <1>2, <1>3, <1>4, <1>5, <1>6, <1>7, <1>8, <1>9, <1>17, Zenon
<1>18. CASE \E w \in Workers :
              Receive(w) \/ CompleteSync(w) \/ AsyncGivesBack(w) \/ AsyncCancels(w)
  BY <1>10, <1>11, <1>12, <1>13, <1>18, Zenon
<1>19. CASE \E i \in Pairs :
              Fire(i) \/ send_request_async_timeout_handle(i) \/ TimeoutGivesBack(i)
  BY <1>14, <1>15, <1>19, Zenon
<1> QED  BY <1>16, <1>17, <1>18, <1>19, Zenon DEF Next

\* Every variable of the client keeps its type, and a search for a pair stays within
\* the pairs.
THEOREM TypeCorrect == Spec => []TypeOK
  BY InitClient, NextClient, PTL DEF Spec

\* The invariant holds in every behaviour.
LEMMA ClientInvariant == Spec => [](TypeOK /\ ClientInv)
  BY InitClient, NextClient, PTL DEF Spec

\* A pair that is marked as used has a call or a timer that will give it back, unless
\* it was taken while someone was still at it, or is the first one, marked for nobody.
THEOREM PairsComeBackThm == Spec => []PairsComeBack
<1>1. ClientInv => PairsComeBack
  BY Zenon DEF ClientInv, PairInv, PairOK, GivenBackAt, PairsComeBack
<1> QED  BY <1>1, ClientInvariant, PTL

\* As long as no pair was taken while someone was still at it, a call returns its own
\* answer or a timeout.
THEOREM OwnAnswerThm == Spec => []OwnAnswer
<1>1. ClientInv => OwnAnswer
  BY Zenon DEF ClientInv
<1> QED  BY <1>1, ClientInvariant, PTL

\* At a pair that was never taken while someone was still at it, the store of nobody
\* else can end a wait, or keep the answer from finding it.
THEOREM WaiterIsFoundThm == Spec => []WaiterIsFound
<1>1. ASSUME TypeOK, ClientInv  PROVE WaiterIsFound
  <2> SUFFICES ASSUME NEW t \in Threads, call[t].pc = "wait", call[t].at \notin mixed
               PROVE  /\ msg_pair[call[t].at].event_id = call[t].event
                      /\ msg_pair[call[t].at].is_used /\ msg_pair[call[t].at].expire
    BY Zenon DEF WaiterIsFound
  <2>1. Active(t) /\ At(t, call[t].at)
    BY Zenon DEF Active, At
  <2>2. call[t].at \in Pairs
    BY <1>1, <2>1, Uses, Zenon DEF ClientInv
  <2>3. WaitsAt(call[t].at)
    BY <1>1, <2>2, Zenon DEF ClientInv, PairInv, PairOK
  <2> QED  BY <2>1, <2>3, Zenon DEF WaitsAt
<1> QED  BY <1>1, ClientInvariant, PTL

=============================================================================
