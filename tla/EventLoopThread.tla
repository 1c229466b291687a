--------------------------- MODULE EventLoopThread ---------------------------
(***************************************************************************)
(* net/EventLoopThread around the loops of EventLoop.tla: the owner of    *)
(* each EventLoopThread (the EventLoopThreadPool's thread) starts it with *)
(* startLoop, which waits on cond_ until threadFunc has built its         *)
(* EventLoop and published it in loop_; later ~EventLoopThread reads      *)
(* loop_, calls quit() and joins.  threadFunc runs loop() (the actions of *)
(* EventLoop.tla, enabled only while it runs) and, once loop() returns,   *)
(* sets loop_ to nullptr under mutex_; its EventLoop then goes out of     *)
(* scope.                                                                  *)
(*                                                                         *)
(* Until startLoop has returned nobody else holds the loop's pointer, so  *)
(* the foreign threads and the I/O channel of EventLoop.tla act on a loop *)
(* only once its owner has it (own[l] = "got"); the owner is not one of   *)
(* the Foreign threads.                                                    *)
(***************************************************************************)
EXTENDS EventLoop

VARIABLES
    thr,    \* thr[l]: the thread of l's EventLoopThread: "unstarted",
            \* "init" (running, before loop_ is set), "entering" (loop_
            \* published, loop() not yet entered), "looping" (in
            \* loop(), as lpc[l] says), "exiting" (loop_ reset, mutex_
            \* still held, its EventLoop not yet destroyed), "gone"
            \* (threadFunc returned)
    ptr,    \* ptr[l]: loop_ != nullptr
    own     \* own[l]: the owner: "new", "starting" (in Thread::start),
            \* "waiting" (startLoop, about to test loop_ under mutex_),
            \* "asleep" (in cond_.wait), "got" (startLoop returned),
            \* "quitting" (destructor, about to call quit()), "joining",
            \* "done" (destructor returned)

threadVars == <<thr, ptr, own>>
allVars == <<vars, thr, ptr, own>>

OwnerPcs == {"new", "starting", "waiting", "asleep", "got", "quitting",
             "joining", "done"}

ThreadTypeOK ==
    /\ TypeOK
    /\ thr \in [Loops -> {"unstarted", "init", "entering", "looping",
                                 "exiting", "gone"}]
    /\ ptr \in [Loops -> BOOLEAN]
    /\ own \in [Loops -> OwnerPcs]

\* The EventLoopThread constructor: loop_(nullptr), the Thread not started.
ThreadInit ==
    /\ Init
    /\ thr = [l \in Loops |-> "unstarted"]
    /\ ptr = [l \in Loops |-> FALSE]
    /\ own = [l \in Loops |-> "new"]

-----------------------------------------------------------------------------
(* The owner.                                                            *)

\* startLoop(): thread_.start(), which creates the std::thread and blocks
\* on the semaphore.
OwnerStart(l) ==
    /\ own[l] = "new"
    /\ own' = [own EXCEPT ![l] = "starting"]
    /\ UNCHANGED <<vars, thr, ptr>>

\* The new thread sets tid_ and posts the semaphore: Thread::start
\* returns, and the thread goes on into threadFunc.
ThreadBegin(l) ==
    /\ thr[l] = "unstarted" /\ own[l] = "starting"
    /\ thr' = [thr EXCEPT ![l] = "init"]
    /\ own' = [own EXCEPT ![l] = "waiting"]
    /\ UNCHANGED <<vars, ptr>>

\* Holding mutex_: while (loop_ == nullptr) cond_.wait(lock); then
\* loop = loop_, unlock and return it.
StartLoopCheck(l) ==
    /\ own[l] = "waiting"
    /\ own' = [own EXCEPT ![l] = IF ptr[l] THEN "got" ELSE "asleep"]
    /\ UNCHANGED <<vars, thr, ptr>>

\* cond_.wait returns without a notify.
SpuriousWakeup(l) ==
    /\ own[l] = "asleep"
    /\ own' = [own EXCEPT ![l] = "waiting"]
    /\ UNCHANGED <<vars, thr, ptr>>

\* ~EventLoopThread(): exiting_ = true; if (loop_ != nullptr) { quit;
\* join }.  loop_ is read without mutex_: once threadFunc has written
\* nullptr the read races that write, and may still see the old pointer.
\* Seeing nullptr, it returns without join() while threadFunc may still
\* be unlocking mutex_ and destroying its EventLoop; ~Thread detaches.
Dtor(l) ==
    /\ own[l] = "got"
    /\ \E seen \in {ptr[l]} \cup (IF thr[l] \in {"exiting", "gone"} THEN {TRUE} ELSE {}) :
          own' = [own EXCEPT ![l] = IF seen THEN "quitting" ELSE "done"]
    /\ UNCHANGED <<vars, thr, ptr>>

\* Mutant: quit() from the owner without the wakeup() a caller off the
\* loop thread needs.
OwnerQuitNoWakeup(l) ==
    /\ own[l] = "quitting"
    /\ quit' = [quit EXCEPT ![l] = TRUE]
    /\ own' = [own EXCEPT ![l] = "joining"]
    /\ UNCHANGED <<lpc, pending, batch, bnext, calling, wakeupCnt, owed,
                   ioReady, ioLeft, nextId, done, thr, ptr>>

\* loop_->quit() from the owner's thread: quit_ = true, then wakeup(),
\* as the owner is not the loop's thread.
OwnerQuit(l) ==
    /\ own[l] = "quitting"
    /\ quit' = [quit EXCEPT ![l] = TRUE]
    /\ wakeupCnt' = Wakeup(wakeupCnt, l)
    /\ own' = [own EXCEPT ![l] = "joining"]
    /\ UNCHANGED <<lpc, pending, batch, bnext, calling, owed, ioReady, ioLeft,
                   nextId, done, thr, ptr>>

\* thread_.join() returns once threadFunc has.
Join(l) ==
    /\ own[l] = "joining" /\ thr[l] = "gone"
    /\ own' = [own EXCEPT ![l] = "done"]
    /\ UNCHANGED <<vars, thr, ptr>>

-----------------------------------------------------------------------------
(* threadFunc.                                                           *)

\* Mutant: loop_ is published without notify_one.
ThreadPublishNoNotify(l) ==
    /\ thr[l] = "init"
    /\ thr' = [thr EXCEPT ![l] = "entering"]
    /\ ptr' = [ptr EXCEPT ![l] = TRUE]
    /\ UNCHANGED <<vars, own>>

\* EventLoop loop; callback_(&loop) if set; under mutex_, loop_ = &loop
\* and cond_.notify_one().
ThreadPublish(l) ==
    /\ thr[l] = "init"
    /\ thr' = [thr EXCEPT ![l] = "entering"]
    /\ ptr' = [ptr EXCEPT ![l] = TRUE]
    /\ own' = [own EXCEPT ![l] = IF @ = "asleep" THEN "waiting" ELSE @]
    /\ UNCHANGED vars

\* loop.loop() is entered: looping_ = true; quit_ = false.  A quit() made
\* once startLoop returned but before this step is undone.
ThreadEnterLoop(l) ==
    /\ thr[l] = "entering"
    /\ thr' = [thr EXCEPT ![l] = "looping"]
    /\ quit' = [quit EXCEPT ![l] = FALSE]
    /\ UNCHANGED <<lpc, pending, batch, bnext, calling, wakeupCnt, owed,
                   ioReady, ioLeft, nextId, done, ptr, own>>

\* loop() has returned: the lock_guard takes mutex_ and loop_ = nullptr.
ThreadExit(l) ==
    /\ thr[l] = "looping" /\ lpc[l] = "stopped"
    /\ thr' = [thr EXCEPT ![l] = "exiting"]
    /\ ptr' = [ptr EXCEPT ![l] = FALSE]
    /\ UNCHANGED <<vars, own>>

\* threadFunc returns: the lock_guard unlocks mutex_, then its EventLoop
\* is destroyed; the thread ends and join() can return.
ThreadReturn(l) ==
    /\ thr[l] = "exiting"
    /\ thr' = [thr EXCEPT ![l] = "gone"]
    /\ UNCHANGED <<vars, ptr, own>>

\* A step of EventLoop.tla's loop thread, inside loop.loop().
InLoop(l) == thr[l] = "looping" /\ LoopStep(l) /\ UNCHANGED threadVars

\* The steps of l's thread.
ThreadStep(l) ==
    \/ ThreadBegin(l) \/ ThreadPublish(l) \/ ThreadEnterLoop(l) \/ InLoop(l)
    \/ ThreadExit(l) \/ ThreadReturn(l)

\* The steps the owner takes once it is blocked in startLoop or in the
\* destructor.
OwnerBlocked(l) == StartLoopCheck(l) \/ OwnerQuit(l) \/ Join(l)

ThreadNext ==
    \/ \E l \in Loops :
          \/ ThreadStep(l) \/ OwnerBlocked(l)
          \/ OwnerStart(l) \/ SpuriousWakeup(l) \/ Dtor(l)
          \/ own[l] = "got" /\ IoArrives(l) /\ UNCHANGED threadVars
    \/ \E t \in Foreign : ForeignWakeup(t) /\ UNCHANGED threadVars
    \/ \E t \in Foreign, l \in Loops :
          own[l] = "got" /\ (ForeignQueueInLoop(t, l) \/ ForeignQuit(t, l))
          /\ UNCHANGED threadVars
    \/ Idle /\ UNCHANGED threadVars

\* The OS schedules each runnable thread: l's thread, the owner blocked in
\* startLoop or in the destructor, and a foreign thread owing a wakeup.
\* When the owner starts or destroys an EventLoopThread is its own choice,
\* and a spurious wakeup is never owed.
ThreadFairness ==
    /\ \A l \in Loops : WF_allVars(ThreadStep(l)) /\ WF_allVars(OwnerBlocked(l))
    /\ \A t \in Foreign : WF_allVars(ForeignWakeup(t) /\ UNCHANGED threadVars)

ThreadSpec == ThreadInit /\ [][ThreadNext]_allVars /\ ThreadFairness

-----------------------------------------------------------------------------
(* Properties.                                                           *)

\* startLoop returns: threadFunc's notify_one under mutex_ reaches an
\* owner already asleep in cond_.wait.
StartLoopReturns == \A l \in Loops : own[l] = "starting" ~> own[l] = "got"

\* ~EventLoopThread returns once its quit() comes after threadFunc entered
\* loop(): quit() wakes the loop wherever its thread is (in epoll_wait,
\* dispatching, or running functors), the loop returns, and join()
\* completes.
QuitAfterEntryReturns ==
    \A l \in Loops : own[l] = "quitting" /\ thr[l] = "looping" ~> own[l] = "done"

\* ~EventLoopThread returns, whenever it runs after startLoop: violated,
\* as loop() begins with quit_ = false and so drops a quit() made between
\* threadFunc's publication of loop_ and its call of loop.loop().
DestructorReturns ==
    \A l \in Loops : own[l] \in {"quitting", "joining"} ~> own[l] = "done"
=============================================================================
