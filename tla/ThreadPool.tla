----------------------------- MODULE ThreadPool -----------------------------
(***************************************************************************)
(* base/ThreadPool: a std::deque of tasks under one mutex and one         *)
(* condition variable, served by threadSize_ worker threads that run      *)
(* runInThread.  One client thread owns the pool: it may add tasks before *)
(* start() (they run inline, threads_ being empty), start it, add more,   *)
(* stop it, and destroy it (~ThreadPool: stop() if running_, then join    *)
(* every thread).                                                         *)
(*                                                                         *)
(* A worker's program counter follows runInThread:                        *)
(*   "idle"   the thread does not exist yet (before start())              *)
(*   "top"    at while(running_), a read outside the mutex (line 82)      *)
(*   "lock"   blocked on mutex_, first time or woken from cond_.wait      *)
(*   "check"  holding mutex_ at while(queue_.empty()) (lines 85-92)       *)
(*   "wait"   in cond_.wait, mutex_ released                              *)
(*   "run"    running its task outside the mutex (lines 94-96)            *)
(*   "exited" runInThread has returned                                    *)
(* cond_.wait may return without a notify (a spurious wakeup); the model  *)
(* lets it, with no fairness.                                             *)
(*                                                                         *)
(* threadSize_ is set only by setThreadSize; the constructor leaves it    *)
(* uninitialised, so start() without setThreadSize() reads an             *)
(* indeterminate value: any number of threads up to |Workers| (a value    *)
(* too large for the vector, which throws from reserve(), is left out).   *)
(***************************************************************************)
EXTENDS Naturals, Sequences, FiniteSets

CONSTANTS
    Workers,    \* the threads start() creates (threadSize_ of them)
    Tasks,      \* task identities; each is added at most once
    NoOne,      \* mutex_ free
    NoTask,     \* a worker's `task` holds nothing
    Unset       \* threadSize_ never assigned

VARIABLES
    running,    \* running_
    queue,      \* queue_
    mtx,        \* the thread holding mutex_, or NoOne
    pc,         \* pc[w]: where worker w is in runInThread
    held,       \* held[w]: worker w's local `task`
    size,       \* threadSize_: a number of threads, or Unset
    client,     \* where the owning thread is: "new", "started", "stopped",
                \* "joining" (in ~ThreadPool's joins), "gone"
    added,      \* tasks handed to addTask so far
    done        \* tasks run, in the order they ran

vars == <<running, queue, mtx, pc, held, size, client, added, done>>

WorkerStates == {"idle", "top", "lock", "check", "wait", "run", "exited"}

\* threads_ is not empty: start() has created at least one worker.
HasThreads == \E w \in Workers : pc[w] # "idle"

TypeOK ==
    /\ running \in BOOLEAN
    /\ queue \in Seq(Tasks)
    /\ mtx \in Workers \cup {NoOne}
    /\ pc \in [Workers -> WorkerStates]
    /\ held \in [Workers -> Tasks \cup {NoTask}]
    /\ size \in 0..Cardinality(Workers) \cup {Unset}
    /\ client \in {"new", "started", "stopped", "joining", "gone"}
    /\ added \in SUBSET Tasks
    /\ done \in Seq(Tasks)
    /\ mtx # NoOne => pc[mtx] = "check"

\* The constructor: running_(false), nothing queued, no threads.
Init ==
    /\ running = FALSE
    /\ queue = <<>>
    /\ mtx = NoOne
    /\ pc = [w \in Workers |-> "idle"]
    /\ held = [w \in Workers |-> NoTask]
    /\ size = Unset
    /\ client = "new"
    /\ added = {}
    /\ done = <<>>

-----------------------------------------------------------------------------
(* The condition variable.                                               *)

\* cond_.notify_one(): one waiter, if any, goes back to the mutex.
NotifyOne ==
    IF \E w \in Workers : pc[w] = "wait"
    THEN \E w \in {v \in Workers : pc[v] = "wait"} : pc' = [pc EXCEPT ![w] = "lock"]
    ELSE UNCHANGED pc

\* cond_.notify_all().
NotifyAll == pc' = [w \in Workers |-> IF pc[w] = "wait" THEN "lock" ELSE pc[w]]

-----------------------------------------------------------------------------
(* The client thread.                                                    *)

\* Mutant: addTask queues the task without notify_one.
AddTaskNoNotify(t) ==
    /\ client \in {"new", "started", "stopped"}
    /\ t \notin added
    /\ added' = added \cup {t}
    /\ \/ /\ ~HasThreads
          /\ done' = Append(done, t)
          /\ UNCHANGED <<queue, pc>>
       \/ /\ HasThreads
          /\ mtx = NoOne
          /\ queue' = Append(queue, t)
          /\ UNCHANGED <<done, pc>>
    /\ UNCHANGED <<running, mtx, held, size, client>>

\* addTask(task): with threads_ empty the caller runs it; otherwise, under
\* the lock_guard, push_back and notify_one.
AddTask(t) ==
    /\ client \in {"new", "started", "stopped"}
    /\ t \notin added
    /\ added' = added \cup {t}
    /\ \/ /\ ~HasThreads
          /\ done' = Append(done, t)
          /\ UNCHANGED <<queue, pc>>
       \/ /\ HasThreads
          /\ mtx = NoOne
          /\ queue' = Append(queue, t)
          /\ NotifyOne
          /\ UNCHANGED done
    /\ UNCHANGED <<running, mtx, held, size, client>>

\* setThreadSize(numThreads), before start().
SetThreadSize(n) ==
    /\ client = "new"
    /\ size' = n
    /\ UNCHANGED <<running, queue, mtx, pc, held, client, added, done>>

\* The number of threads start() creates: threadSize_, whatever an
\* uninitialised one holds.
ThreadCounts == IF size = Unset THEN 0..Cardinality(Workers) ELSE {size}

\* start(): running_ = true, then threadSize_ Threads are created and
\* started; the semaphore in Thread::start returns once the new thread
\* runs, and the thread goes on to runInThread's while(running_).
Start ==
    /\ client = "new"
    /\ running' = TRUE
    /\ \E n \in ThreadCounts : \E S \in SUBSET Workers :
          /\ Cardinality(S) = n
          /\ pc' = [w \in Workers |-> IF w \in S THEN "top" ELSE "idle"]
    /\ client' = "started"
    /\ UNCHANGED <<queue, mtx, held, size, added, done>>

\* stop(): under the lock, running_ = false and notify_all.
StopPool ==
    /\ mtx = NoOne
    /\ running' = FALSE
    /\ NotifyAll

Stop ==
    /\ client = "started"
    /\ StopPool
    /\ client' = "stopped"
    /\ UNCHANGED <<queue, mtx, held, size, added, done>>

\* ~ThreadPool(): stop() if running_, then join the threads in order.
Destroy ==
    /\ client \in {"new", "started", "stopped"}
    /\ \/ running /\ StopPool
       \/ ~running /\ UNCHANGED <<running, pc>>
    /\ client' = "joining"
    /\ UNCHANGED <<queue, mtx, held, size, added, done>>

\* Every join() has returned: each thread left runInThread.  With no
\* threads (never started) there is nothing to join.
Joined ==
    /\ client = "joining"
    /\ \A w \in Workers : pc[w] \in {"idle", "exited"}
    /\ client' = "gone"
    /\ UNCHANGED <<running, queue, mtx, pc, held, size, added, done>>

-----------------------------------------------------------------------------
(* A worker thread in runInThread.                                       *)

\* while(running_): read without the mutex.
Top(w) ==
    /\ pc[w] = "top"
    /\ pc' = [pc EXCEPT ![w] = IF running THEN "lock" ELSE "exited"]
    /\ UNCHANGED <<running, queue, mtx, held, size, client, added, done>>

\* unique_lock, or the re-acquisition inside cond_.wait.
Lock(w) ==
    /\ pc[w] = "lock"
    /\ mtx = NoOne
    /\ mtx' = w
    /\ pc' = [pc EXCEPT ![w] = "check"]
    /\ UNCHANGED <<running, queue, held, size, client, added, done>>

\* Mutant: the task is copied out of front() but never popped.
TakeNoPop(w) ==
    /\ queue # <<>>
    /\ held' = [held EXCEPT ![w] = Head(queue)]
    /\ UNCHANGED queue

\* Mutant: the task is taken from the back, back() and pop_back().
TakeBack(w) ==
    /\ queue # <<>>
    /\ held' = [held EXCEPT ![w] = queue[Len(queue)]]
    /\ queue' = SubSeq(queue, 1, Len(queue) - 1)

\* task = queue_.front(); queue_.pop_front().
Take(w) ==
    /\ queue # <<>>
    /\ held' = [held EXCEPT ![w] = Head(queue)]
    /\ queue' = Tail(queue)

\* Mutant: waits whenever the queue is empty, never testing running_.
CheckNoRunningTest(w) ==
    /\ pc[w] = "check"
    /\ mtx' = NoOne
    /\ \/ /\ Take(w)
          /\ pc' = [pc EXCEPT ![w] = "run"]
       \/ /\ queue = <<>>
          /\ pc' = [pc EXCEPT ![w] = "wait"]
          /\ UNCHANGED <<queue, held>>
    /\ UNCHANGED <<running, size, client, added, done>>

\* Mutant: the task is run inside the locked block.
CheckRunUnderLock(w) ==
    /\ pc[w] = "check"
    /\ \/ /\ Take(w)
          /\ pc' = [pc EXCEPT ![w] = "run"]
          /\ UNCHANGED mtx
       \/ /\ queue = <<>>
          /\ mtx' = NoOne
          /\ pc' = [pc EXCEPT ![w] = IF running THEN "wait" ELSE "exited"]
          /\ UNCHANGED <<queue, held>>
    /\ UNCHANGED <<running, size, client, added, done>>

\* Holding the mutex: with an empty queue, return if !running_ (the
\* unique_lock unlocks) or cond_.wait (which unlocks); otherwise take the
\* front task and leave the block, unlocking.
Check(w) ==
    /\ pc[w] = "check"
    /\ mtx' = NoOne
    /\ \/ /\ Take(w)
          /\ pc' = [pc EXCEPT ![w] = "run"]
       \/ /\ queue = <<>>
          /\ pc' = [pc EXCEPT ![w] = IF running THEN "wait" ELSE "exited"]
          /\ UNCHANGED <<queue, held>>
    /\ UNCHANGED <<running, size, client, added, done>>

\* cond_.wait returns without a notify.
SpuriousWakeup(w) ==
    /\ pc[w] = "wait"
    /\ pc' = [pc EXCEPT ![w] = "lock"]
    /\ UNCHANGED <<running, queue, mtx, held, size, client, added, done>>

\* if(task != nullptr) task(); back to while(running_).  `task` keeps its
\* value in the C++ (it is not reset); NoTask here only marks that the
\* copy was consumed, as the next front() overwrites it.
RunTask(w) ==
    /\ pc[w] = "run"
    /\ done' = Append(done, held[w])
    /\ held' = [held EXCEPT ![w] = NoTask]
    /\ pc' = [pc EXCEPT ![w] = "top"]
    /\ UNCHANGED <<running, queue, mtx, size, client, added>>

\* The owner's object is gone and every thread joined: nothing moves.
Finished ==
    /\ client = "gone"
    /\ UNCHANGED vars

WorkerStep(w) == Top(w) \/ Lock(w) \/ Check(w) \/ RunTask(w)

Next ==
    \/ \E t \in Tasks : AddTask(t)
    \/ \E n \in 0..Cardinality(Workers) : SetThreadSize(n)
    \/ Start \/ Stop \/ Destroy \/ Joined
    \/ \E w \in Workers : WorkerStep(w) \/ SpuriousWakeup(w)
    \/ Finished

\* Every runnable thread is eventually scheduled: the workers, and the
\* owner blocked in join() once the joined thread has exited.  The owner's
\* own calls (addTask, start, stop, destruction) are not forced.
Fairness ==
    /\ \A w \in Workers : WF_vars(WorkerStep(w))
    /\ WF_vars(Joined)

Spec == Init /\ [][Next]_vars /\ Fairness

-----------------------------------------------------------------------------
(* Properties.                                                           *)

\* How many copies of task t exist: queued, in a worker's hands, or run.
Copies(t) ==
    Cardinality({i \in DOMAIN queue : queue[i] = t})
    + Cardinality({w \in Workers : held[w] = t})
    + Cardinality({i \in DOMAIN done : done[i] = t})

\* How often task t has been handed out: taken by a worker, or run.
HandedOut(t) ==
    Cardinality({w \in Workers : held[w] = t})
    + Cardinality({i \in DOMAIN done : done[i] = t})

\* The pool seen as the FIFO dispatcher of TaskDispatch.tla: queue_ is
\* its queue, and a task is out once a worker holds it or it has run.
Dispatch == INSTANCE TaskDispatch WITH out <- [t \in Tasks |-> HandedOut(t)]

\* ThreadPool implements TaskDispatch: addTask either runs the task inline
\* (threads_ empty) or appends it, and the workers, racing for mutex_,
\* take tasks strictly in the order they were queued, each once; a task
\* finishing (RunTask) changes nothing the abstraction sees.
DispatchSpec == Dispatch!Spec

\* Every task handed to addTask exists exactly once: it is queued, taken
\* by exactly one worker, or has run exactly once.  The front()/pop_front()
\* pair under mutex_ in runInThread is what keeps two workers from
\* running the same task, whatever order the workers and addTask take.
TaskConservation == \A t \in Tasks : Copies(t) = IF t \in added THEN 1 ELSE 0

\* While the pool runs, a queued task is eventually run: addTask's
\* notify_one and the wait loop in runInThread never leave a task in the
\* queue with every worker asleep.
QueuedTasksRun ==
    \A t \in Tasks :
        (running /\ \E i \in DOMAIN queue : queue[i] = t)
            ~> (\E i \in DOMAIN done : done[i] = t) \/ ~running

\* ~ThreadPool returns: once the owner is joining, every worker leaves
\* runInThread, whether it was asleep in cond_.wait, about to read
\* running_ outside the mutex, or running a task when stop() came.
DestructorReturns == client = "joining" ~> client = "gone"
=============================================================================
