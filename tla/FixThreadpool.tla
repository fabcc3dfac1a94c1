---------------------------- MODULE FixThreadpool ----------------------------
(***************************************************************************)
(* The thread pool of base/src/utility/threadpool.c on its task queue:     *)
(* workers that pop tasks and run them, threads that add tasks, and the    *)
(* owner that creates and destroys the pool.  The queue is the one of      *)
(* ThreadBoundedQueue, a task is a value that fits a node.                 *)
(*                                                                         *)
(* Nothing keeps a thread from adding a task while the pool is destroyed   *)
(* or after it was freed.                                                  *)
(***************************************************************************)
EXTENDS ThreadBoundedQueue, FiniteSets

CONSTANTS
    Workers,   \* the threads of the pool
    Adders,    \* threads that add tasks
    Batches    \* what one call may add: sequences of tasks, of length 1 for addtask;
               \* a task that is added again is another task

ASSUME PoolAssumption ==
    /\ Threads = Workers \cup Adders
    /\ Workers \cap Adders = {}
    /\ Workers \subseteq Patient
    /\ \A v \in Values : Size[v] <= NodeSize /\ \A w \in Workers : Size[v] <= Buffer[w]
    /\ \A b \in Batches : /\ b \in Seq(Values) /\ b # <<>>
                          /\ \A m, n \in 1..Len(b) : b[m] = b[n] => m = n

VARIABLES
    run,        \* is_run of the pool
    owner,      \* where the owner is
    worker,     \* where each worker is
    doing,      \* the task it has
    batch,      \* the tasks an adder has still to push
    accepted,   \* tasks that were pushed (history)
    ran         \* tasks that were run (history)

queue == <<is_run, ring, call, got>>
pool == <<run, owner, worker, doing, batch, accepted, ran>>
poolVars == <<vars, pool>>

PoolInit ==
    /\ Init
    /\ run = TRUE
    /\ owner = "creating"
    /\ worker = [w \in Workers |-> "none"]
    /\ doing = [w \in Workers |-> None]
    /\ batch = [a \in Adders |-> <<>>]
    /\ accepted = {}
    /\ ran = {}

-----------------------------------------------------------------------------
(***************************************************************************)
(* fix_threadpool_create, once the memory and the queue are there.         *)
(***************************************************************************)
Spawn(w) ==
    /\ owner = "creating"
    /\ worker[w] = "none"
    /\ worker' = [worker EXCEPT ![w] = "test"]
    /\ UNCHANGED <<queue, run, owner, doing, batch, accepted, ran>>

Created ==
    /\ owner = "creating"
    /\ \A w \in Workers : worker[w] # "none"
    /\ owner' = "live"
    /\ UNCHANGED <<queue, run, worker, doing, batch, accepted, ran>>

\* pthread_create fails: the queue is freed and the pointer to it set to NULL, the
\* flag is cleared, and only then are the workers joined that were created.
CreateFails ==
    /\ owner = "creating"
    /\ \E w \in Workers : worker[w] = "none"
    /\ threadboundedqueue_uninit
    /\ owner' = "failed"
    /\ UNCHANGED <<run, worker, doing, batch, accepted, ran>>

Unwind ==
    /\ owner = "failed"
    /\ run' = FALSE
    /\ owner' = "unwinding"
    /\ UNCHANGED <<queue, worker, doing, batch, accepted, ran>>

Unwound ==
    /\ owner = "unwinding"
    /\ \A w \in Workers : worker[w] \in {"none", "done"}
    /\ owner' = "none"
    /\ UNCHANGED <<queue, run, worker, doing, batch, accepted, ran>>

-----------------------------------------------------------------------------
(***************************************************************************)
(* fix_threadworker.                                                       *)
(***************************************************************************)
QueueFreed == owner \in {"failed", "unwinding", "none", "gone"}

\* Without a queue the pop returns an error, and the worker tests the flag again
\* a second later.
Test(w) ==
    /\ worker[w] = "test"
    /\ \/ /\ run
          /\ ~QueueFreed
          /\ worker' = [worker EXCEPT ![w] = "pop"]
          /\ Enter(w, "pop", None)
       \/ /\ ~run
          /\ worker' = [worker EXCEPT ![w] = "done"]
          /\ UNCHANGED queue
    /\ UNCHANGED <<run, owner, doing, batch, accepted, ran>>

\* One pass through threadboundedqueue_pop_block, without a timeout.
Pop(w) ==
    /\ worker[w] = "pop"
    /\ ~QueueFreed
    /\ threadboundedqueue_pop_block(w)
    /\ \/ /\ call'[w] # NoCall
          /\ UNCHANGED <<worker, doing>>
       \/ /\ call'[w] = NoCall
          /\ is_run
          /\ worker' = [worker EXCEPT ![w] = "run"]
          /\ doing' = [doing EXCEPT ![w] = got']
       \/ /\ call'[w] = NoCall
          /\ ~is_run
          /\ worker' = [worker EXCEPT ![w] = "done"]
          /\ UNCHANGED doing
    /\ UNCHANGED <<run, owner, batch, accepted, ran>>

Run(w) ==
    /\ worker[w] = "run"
    /\ ran' = ran \cup {doing[w]}
    /\ doing' = [doing EXCEPT ![w] = None]
    /\ worker' = [worker EXCEPT ![w] = "test"]
    /\ UNCHANGED <<queue, run, owner, batch, accepted>>

\* A worker that was in the pop when the queue was freed: it may return, as from
\* a stopped queue or with an error, or never (undefined in the code).
Astray(w) ==
    /\ worker[w] = "pop"
    /\ QueueFreed
    /\ call' = Finished(w)
    /\ \E pc \in {"test", "done"} : worker' = [worker EXCEPT ![w] = pc]
    /\ UNCHANGED <<is_run, ring, got, run, owner, doing, batch, accepted, ran>>

Stir(w) ==
    /\ ~QueueFreed
    /\ SpuriousWakeup(w)
    /\ UNCHANGED pool

-----------------------------------------------------------------------------
(***************************************************************************)
(* fix_threadpool_addtask and fix_threadpool_addtasks.                     *)
(***************************************************************************)
Tasks(b) == {b[k] : k \in 1..Len(b)}
Given == accepted \cup UNION {Tasks(batch[a]) : a \in Adders}

\* The flag of a pool that was freed reads as anything.
Add(a, b) ==
    /\ owner \in {"live", "stopped", "joining", "gone"}
    /\ batch[a] = <<>>
    /\ Tasks(b) \cap Given = {}
    /\ run \/ owner = "gone"
    /\ batch' = [batch EXCEPT ![a] = b]
    /\ UNCHANGED <<queue, run, owner, worker, doing, accepted, ran>>

M_Push(a) ==
    /\ batch[a] # <<>>
    /\ ~QueueFreed
    /\ \/ /\ threadboundedqueue_push_nonblock(a, Head(batch[a]))
          /\ accepted' = accepted \cup {Head(batch[a])}
          /\ UNCHANGED batch
       \/ /\ ~is_run \/ Full
          /\ batch' = [batch EXCEPT ![a] = <<>>]
          /\ UNCHANGED <<queue, accepted>>
    /\ UNCHANGED <<run, owner, worker, doing, ran>>

\* One push; at a full or a stopped queue the rest of the batch is given up.
Push(a) ==
    /\ batch[a] # <<>>
    /\ ~QueueFreed
    /\ \/ /\ threadboundedqueue_push_nonblock(a, Head(batch[a]))
          /\ accepted' = accepted \cup {Head(batch[a])}
          /\ batch' = [batch EXCEPT ![a] = Tail(@)]
       \/ /\ ~is_run \/ Full
          /\ batch' = [batch EXCEPT ![a] = <<>>]
          /\ UNCHANGED <<queue, accepted>>
    /\ UNCHANGED <<run, owner, worker, doing, ran>>

\* A push into a queue that was freed: it may fail, seem to succeed though there is
\* no node, or never return (undefined in the code).
PushFreed(a) ==
    /\ batch[a] # <<>>
    /\ QueueFreed
    /\ \/ batch' = [batch EXCEPT ![a] = <<>>] /\ UNCHANGED accepted
       \/ /\ accepted' = accepted \cup {Head(batch[a])}
          /\ batch' = [batch EXCEPT ![a] = Tail(@)]
    /\ UNCHANGED <<queue, run, owner, worker, doing, ran>>

-----------------------------------------------------------------------------
(***************************************************************************)
(* fix_threadpool_destroy: the queue is stopped, the flag cleared, the     *)
(* workers joined, the queue freed with the tasks that are left in it, and  *)
(* the pool after it.                                                      *)
(***************************************************************************)
StopTasks ==
    /\ owner = "live"
    /\ run
    /\ threadboundedqueue_stop
    /\ owner' = "stopped"
    /\ UNCHANGED <<run, worker, doing, batch, accepted, ran>>

ClearFlag ==
    /\ owner = "stopped"
    /\ run' = FALSE
    /\ owner' = "joining"
    /\ UNCHANGED <<queue, worker, doing, batch, accepted, ran>>

JoinAndFree ==
    /\ owner = "joining"
    /\ \A w \in Workers : worker[w] = "done"
    /\ threadboundedqueue_uninit
    /\ owner' = "gone"
    /\ UNCHANGED <<run, worker, doing, batch, accepted, ran>>

Work(w) == Test(w) \/ Pop(w) \/ Run(w)
Destroy == ClearFlag \/ JoinAndFree

PoolNext ==
    \/ \E w \in Workers : Spawn(w) \/ Work(w) \/ Stir(w) \/ Astray(w)
    \/ \E a \in Adders : Push(a) \/ PushFreed(a) \/ \E b \in Batches : Add(a, b)
    \/ Created \/ CreateFails \/ Unwind \/ Unwound \/ StopTasks \/ Destroy

\* The threads run, and the tasks come to their end.
PoolSpec ==
    /\ PoolInit /\ [][PoolNext]_poolVars
    /\ \A w \in Workers : WF_poolVars(Work(w))
    /\ \A a \in Adders : WF_poolVars(Push(a))
    /\ WF_poolVars(Destroy)

-----------------------------------------------------------------------------
(***************************************************************************)
(* Properties.                                                             *)
(***************************************************************************)
\* The types; a worker has a task exactly while it runs it, and only tasks that the
\* queue has accepted are run.
PoolTypeOK ==
    /\ TypeOK
    /\ run \in BOOLEAN
    /\ owner \in {"creating", "live", "failed", "unwinding", "none", "stopped", "joining", "gone"}
    /\ worker \in [Workers -> {"none", "test", "pop", "run", "done"}]
    /\ doing \in [Workers -> Values \cup {None}]
    /\ \A a \in Adders : Tasks(batch[a]) \subseteq Values
    /\ accepted \subseteq Values /\ ran \subseteq accepted
    /\ \A w \in Workers : worker[w] = "run" <=> doing[w] # None

Queued(v) == {i \in Slots : nodes[i].len > 0 /\ Content(nodes[i]) = v}
HeldBy(v) == {w \in Workers : doing[w] = v}

\* As long as the queue is not freed, an accepted task is in one place, the queue or a
\* worker's hands, until it was run, and in none afterwards: it is neither run twice
\* nor lost, batches that the queue cut short or a destroy overtook included.  With
\* the queue the tasks go that no worker has taken.
TaskInOnePlace ==
    ~QueueFreed => \A v \in accepted :
       Cardinality(Queued(v)) + Cardinality(HeldBy(v)) = IF v \in ran THEN 0 ELSE 1

\* An accepted task is run, unless the pool is destroyed first.
AcceptedIsRun == \A v \in Values : v \in accepted ~> (v \in ran \/ ~is_run)

\* fix_threadpool_destroy returns: no worker that sleeps on the queue, tests the
\* flag or runs a task at the time keeps it from joining.
DestroyReturns == owner = "stopped" ~> owner = "gone"

\* "Uninitialize queue (stop queue before and ensure waiting threads are joined)"
\* (threadqueue.h:103): no worker waits in a queue that was freed.
UninitAfterJoin == QueueFreed => \A w \in Workers : worker[w] # "pop"
=============================================================================
