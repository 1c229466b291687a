----------------------------- MODULE EventLoop -----------------------------
(***************************************************************************)
(* The reactor loop of src/src/net/EventLoop.cpp and its cross-thread     *)
(* functor queue: EventLoop::loop, runInLoop, queueInLoop, wakeup,        *)
(* handleRead (the eventfd channel) and doPendingFunctors.                *)
(*                                                                         *)
(* Each loop thread is a small program counter lpc[l]:                    *)
(*   "check"    -- the test while(!quit_) at the top of the loop body      *)
(*   "poll"     -- blocked in epoll_wait until a descriptor is ready       *)
(*   "pending"  -- about to call doPendingFunctors()                       *)
(*   "functors" -- running the swapped-out vector one functor at a time    *)
(*   "stopped"  -- loop() has returned                                     *)
(* Foreign threads call runInLoop/queueInLoop/quit.  queueInLoop pushes   *)
(* under mutex_ and writes the eventfd after releasing it: two steps,     *)
(* the second recorded in owed[t].  The epoll timeout (kPollTimeMs) is    *)
(* left out: a loop that is woken only by its timeout has lost a wakeup,  *)
(* which is what NoLostWakeup looks for.                                  *)
(* A generic I/O channel per loop stands for the connection, acceptor    *)
(* and timer channels: its callback may runInLoop or queueInLoop a        *)
(* functor on its own loop.  Functors are numbered 0..MaxFunctors-1.      *)
(***************************************************************************)
EXTENDS Naturals, Sequences

CONSTANTS
    Loops,        \* the EventLoop objects, one thread each
    Foreign,      \* threads that are not the thread of any loop
    MaxFunctors,  \* how many functors are created in a behaviour
    MaxIoEvents   \* how many times the generic I/O channel becomes ready

ASSUME MaxFunctors \in Nat /\ MaxIoEvents \in Nat

VARIABLES
    lpc,        \* lpc[l]: where the thread of loop l is
    pending,    \* pending[l]: pendingFunctors_
    batch,      \* batch[l]: the local vector `functors` of doPendingFunctors
    bnext,      \* bnext[l]: index in batch[l] of the next functor to call
    calling,    \* calling[l]: callingPendingFunctors_
    wakeupCnt,  \* wakeupCnt[l]: the counter of the eventfd wakeupFd_
    quit,       \* quit[l]: quit_
    owed,       \* owed[t]: loops thread t has pushed to and not yet woken
    ioReady,    \* ioReady[l]: the generic I/O channel of l is readable
    ioLeft,     \* I/O events still to come
    nextId,     \* id of the next functor created
    done        \* done[l]: ids of the functors loop l has run, in order

vars == <<lpc, pending, batch, bnext, calling, wakeupCnt, quit, owed,
          ioReady, ioLeft, nextId, done>>

Ids == 0..(MaxFunctors - 1)

LoopPcs == {"check", "poll", "pending", "functors", "stopped"}

-----------------------------------------------------------------------------
(* Helpers shared with the modules that compose EventLoop.               *)

\* Mutant: the functor put at the front of pendingFunctors_.
EnqueueFront(pend, l, f) == [pend EXCEPT ![l] = <<f>> \o @]

\* pendingFunctors_.push_back(cb) on loop l, under mutex_.
Enqueue(pend, l, f) == [pend EXCEPT ![l] = Append(@, f)]

\* Mutant: queueInLoop that wakes only for callers off the loop thread.
QueueNeedsWakeupNoCalling(inLoopThread, callingNow) == ~inLoopThread

\* The test of queueInLoop that decides whether to call wakeup():
\* a caller off the loop thread, or the loop thread while it is
\* inside doPendingFunctors.
QueueNeedsWakeup(inLoopThread, callingNow) == ~inLoopThread \/ callingNow

\* wakeup(): write 1 to the eventfd, adding to its counter.
Wakeup(cnt, l) == [cnt EXCEPT ![l] = @ + 1]

\* The functors a swap has taken and not yet called.
Unrun(l) == SubSeq(batch[l], bnext[l], Len(batch[l]))

-----------------------------------------------------------------------------
TypeOK ==
    /\ lpc \in [Loops -> LoopPcs]
    /\ pending \in [Loops -> Seq(Ids)]
    /\ batch \in [Loops -> Seq(Ids)]
    /\ \A l \in Loops : bnext[l] \in 1..(Len(batch[l]) + 1)
    /\ calling \in [Loops -> BOOLEAN]
    /\ wakeupCnt \in [Loops -> Nat]
    /\ quit \in [Loops -> BOOLEAN]
    /\ owed \in [Foreign -> SUBSET Loops]
    /\ ioReady \in [Loops -> BOOLEAN]
    /\ ioLeft \in 0..MaxIoEvents
    /\ nextId \in 0..MaxFunctors
    /\ done \in [Loops -> Seq(Ids)]

\* The constructor has run: the eventfd channel is enabled for reading and
\* loop() has been entered with quit_ = false.
Init ==
    /\ lpc = [l \in Loops |-> "check"]
    /\ pending = [l \in Loops |-> <<>>]
    /\ batch = [l \in Loops |-> <<>>]
    /\ bnext = [l \in Loops |-> 1]
    /\ calling = [l \in Loops |-> FALSE]
    /\ wakeupCnt = [l \in Loops |-> 0]
    /\ quit = [l \in Loops |-> FALSE]
    /\ owed = [t \in Foreign |-> {}]
    /\ ioReady = [l \in Loops |-> FALSE]
    /\ ioLeft = MaxIoEvents
    /\ nextId = 0
    /\ done = [l \in Loops |-> <<>>]

-----------------------------------------------------------------------------
(* Foreign threads.                                                      *)

\* runInLoop/queueInLoop from a thread that is not l's: push under mutex_.
ForeignQueueInLoop(t, l) ==
    /\ owed[t] = {}
    /\ nextId < MaxFunctors
    /\ pending' = Enqueue(pending, l, nextId)
    /\ nextId' = nextId + 1
    /\ owed' = [owed EXCEPT ![t] = IF QueueNeedsWakeup(FALSE, calling[l])
                                    THEN {l} ELSE {}]
    /\ UNCHANGED <<lpc, batch, bnext, calling, wakeupCnt, quit, ioReady,
                   ioLeft, done>>

\* quit() from a foreign thread: set quit_, then wakeup().  Asked once.
ForeignQuit(t, l) ==
    /\ owed[t] = {}
    /\ ~quit[l]
    /\ quit' = [quit EXCEPT ![l] = TRUE]
    /\ owed' = [owed EXCEPT ![t] = {l}]
    /\ UNCHANGED <<lpc, pending, batch, bnext, calling, wakeupCnt, ioReady,
                   ioLeft, nextId, done>>

\* The write to wakeupFd_ that follows, once mutex_ is released.
ForeignWakeup(t) ==
    /\ \E l \in owed[t] : wakeupCnt' = Wakeup(wakeupCnt, l)
    /\ owed' = [owed EXCEPT ![t] = {}]
    /\ UNCHANGED <<lpc, pending, batch, bnext, calling, quit, ioReady, ioLeft,
                   nextId, done>>

\* The peer side of the generic I/O channel makes it readable.
IoArrives(l) ==
    /\ ioLeft > 0
    /\ ~ioReady[l]
    /\ ioReady' = [ioReady EXCEPT ![l] = TRUE]
    /\ ioLeft' = ioLeft - 1
    /\ UNCHANGED <<lpc, pending, batch, bnext, calling, wakeupCnt, quit, owed,
                   nextId, done>>

-----------------------------------------------------------------------------
(* The loop thread.                                                      *)

\* while(!quit_) { ... }  looping_ = false;
CheckQuit(l) ==
    /\ lpc[l] = "check"
    /\ lpc' = [lpc EXCEPT ![l] = IF quit[l] THEN "stopped" ELSE "poll"]
    /\ UNCHANGED <<pending, batch, bnext, calling, wakeupCnt, quit, owed,
                   ioReady, ioLeft, nextId, done>>

\* epoll_wait has something to return: the eventfd counter is non-zero
\* (wakeupChannel_ is enabled for reading from the constructor on) or
\* the I/O channel is ready.
Readable(l) == wakeupCnt[l] > 0 \/ ioReady[l]

\* epoll_wait returns the ready channels and each handleEvent runs: the
\* eventfd channel's handleRead reads and so clears the counter; the I/O
\* callback runs on the loop thread, outside doPendingFunctors, and may
\* runInLoop (call at once) or queueInLoop (push, no wakeup) a functor.
PollAndDispatch(l) ==
    /\ lpc[l] = "poll"
    /\ Readable(l)
    /\ ioReady' = [ioReady EXCEPT ![l] = FALSE]
    /\ LET cleared == [wakeupCnt EXCEPT ![l] = 0] IN
       \/ /\ ioReady[l]
          /\ nextId < MaxFunctors
          /\ \/ /\ done' = [done EXCEPT ![l] = Append(@, nextId)]
                /\ UNCHANGED pending
                /\ wakeupCnt' = cleared
             \/ /\ pending' = Enqueue(pending, l, nextId)
                /\ wakeupCnt' = IF QueueNeedsWakeup(TRUE, calling[l])
                                 THEN Wakeup(cleared, l) ELSE cleared
                /\ UNCHANGED done
          /\ nextId' = nextId + 1
       \/ /\ wakeupCnt' = cleared
          /\ UNCHANGED <<pending, nextId, done>>
    /\ lpc' = [lpc EXCEPT ![l] = "pending"]
    /\ UNCHANGED <<batch, bnext, calling, quit, owed, ioLeft>>

\* Mutant: the walk over the swapped vector indexed from 0.
SwapPendingFunctorsFromZero(l) ==
    /\ lpc[l] = "pending"
    /\ calling' = [calling EXCEPT ![l] = TRUE]
    /\ batch' = [batch EXCEPT ![l] = pending[l]]
    /\ pending' = [pending EXCEPT ![l] = <<>>]
    /\ bnext' = [bnext EXCEPT ![l] = 0]
    /\ lpc' = [lpc EXCEPT ![l] = "functors"]
    /\ UNCHANGED <<wakeupCnt, quit, owed, ioReady, ioLeft, nextId, done>>

\* doPendingFunctors: callingPendingFunctors_ = true, then swap under mutex_.
SwapPendingFunctors(l) ==
    /\ lpc[l] = "pending"
    /\ calling' = [calling EXCEPT ![l] = TRUE]
    /\ batch' = [batch EXCEPT ![l] = pending[l]]
    /\ pending' = [pending EXCEPT ![l] = <<>>]
    /\ bnext' = [bnext EXCEPT ![l] = 1]
    /\ lpc' = [lpc EXCEPT ![l] = "functors"]
    /\ UNCHANGED <<wakeupCnt, quit, owed, ioReady, ioLeft, nextId, done>>

\* functor(): it may runInLoop (nested call), queueInLoop (pushed; the
\* loop is calling functors, so it wakes itself) or quit() on its loop.
CallFunctor(l) ==
    /\ lpc[l] = "functors"
    /\ bnext[l] <= Len(batch[l])
    /\ bnext' = [bnext EXCEPT ![l] = @ + 1]
    /\ LET f == batch[l][bnext[l]] IN
       \/ /\ done' = [done EXCEPT ![l] = Append(@, f)]
          /\ UNCHANGED <<pending, wakeupCnt, quit, nextId>>
       \/ /\ nextId < MaxFunctors
          /\ done' = [done EXCEPT ![l] = (@ \o <<f>>) \o <<nextId>>]
          /\ nextId' = nextId + 1
          /\ UNCHANGED <<pending, wakeupCnt, quit>>
       \/ /\ nextId < MaxFunctors
          /\ done' = [done EXCEPT ![l] = Append(@, f)]
          /\ pending' = Enqueue(pending, l, nextId)
          /\ wakeupCnt' = IF QueueNeedsWakeup(TRUE, calling[l])
                          THEN Wakeup(wakeupCnt, l) ELSE wakeupCnt
          /\ nextId' = nextId + 1
          /\ UNCHANGED quit
       \/ /\ ~quit[l]
          /\ done' = [done EXCEPT ![l] = Append(@, f)]
          /\ quit' = [quit EXCEPT ![l] = TRUE]
          /\ UNCHANGED <<pending, wakeupCnt, nextId>>
    /\ UNCHANGED <<lpc, batch, calling, owed, ioReady, ioLeft>>

\* The vector is exhausted: callingPendingFunctors_ = false; it goes out
\* of scope, and the loop returns to the top of its body.
FinishFunctors(l) ==
    /\ lpc[l] = "functors"
    /\ bnext[l] > Len(batch[l])
    /\ calling' = [calling EXCEPT ![l] = FALSE]
    /\ batch' = [batch EXCEPT ![l] = <<>>]
    /\ bnext' = [bnext EXCEPT ![l] = 1]
    /\ lpc' = [lpc EXCEPT ![l] = "check"]
    /\ UNCHANGED <<pending, wakeupCnt, quit, owed, ioReady, ioLeft, nextId,
                   done>>

-----------------------------------------------------------------------------
\* Every loop has stopped, or sits in epoll_wait with nothing queued and
\* nothing left to arrive: the program is idle, which is not a deadlock.
Idle ==
    /\ \A l \in Loops : lpc[l] = "stopped" \/ (lpc[l] = "poll" /\ pending[l] = <<>>)
    /\ \A t \in Foreign : owed[t] = {}
    /\ UNCHANGED vars

LoopStep(l) ==
    \/ CheckQuit(l)
    \/ PollAndDispatch(l)
    \/ SwapPendingFunctors(l)
    \/ CallFunctor(l)
    \/ FinishFunctors(l)

Next ==
    \/ \E l \in Loops : LoopStep(l) \/ IoArrives(l)
    \/ \E t \in Foreign : ForeignWakeup(t)
    \/ \E t \in Foreign, l \in Loops : ForeignQueueInLoop(t, l) \/ ForeignQuit(t, l)
    \/ Idle

\* Each loop thread is scheduled by the OS while it is runnable, and a
\* thread that has pushed a functor goes on to write the eventfd.  Users
\* and peers are not obliged to do anything.
Fairness ==
    /\ \A l \in Loops : WF_vars(LoopStep(l))
    /\ \A t \in Foreign : WF_vars(ForeignWakeup(t))

Spec == Init /\ [][Next]_vars /\ Fairness

-----------------------------------------------------------------------------
(* Properties.                                                           *)

\* No lost wakeup (queueInLoop, doPendingFunctors): whenever a loop sits in
\* epoll_wait with functors queued, its eventfd is already readable or a
\* thread that pushed one is about to write it, so the loop does not sleep
\* until its timeout with work pending.
NoLostWakeup ==
    \A l \in Loops :
        (lpc[l] = "poll" /\ pending[l] # <<>>)
            => (wakeupCnt[l] > 0 \/ \E t \in Foreign : l \in owed[t])

\* The loop is a first-in first-out executor: seen through the mapping
\* "swapped but not yet called, then still pending", the functors are
\* run in the order they were queued, each once, none dropped.
Abstract == INSTANCE TaskQueue WITH
    queue <- [l \in Loops |-> Unrun(l) \o pending[l]],
    done <- done

AbstractSpec == Abstract!Spec
=============================================================================
