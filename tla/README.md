# TLA+ models of TinyWebLib

This directory holds TLA+ specifications of the multi-threaded reactor in
`src/`: the per-thread `EventLoop` with its cross-thread functor queue, and
the `TcpServer` / `TcpConnection` / `Channel` / `EPollPoller` / `Acceptor`
lifecycle built on it, the byte `Buffer`, the `TimerQueue`, the worker
`ThreadPool` and the double-buffered `AsyncLogging` back end with its `LogFile`, and the
`EventLoopThread` that starts and stops each loop. TLC checks them. Every action is translated from the
C++ source. `PROJECT.json` maps each definition to the lines it models.

## 1. The system

| Part | Source | State | Operations | Interacts with |
|---|---|---|---|---|
| EventLoop | `src/src/net/EventLoop.cpp` | `quit_`, `callingPendingFunctors_`, `pendingFunctors_` (mutex), eventfd counter | `loop`, `quit`, `runInLoop`, `queueInLoop`, `wakeup`, `handleRead`, `doPendingFunctors` | every other part: all work for a loop runs on its thread |
| Channel | `src/src/net/Channel.cpp`, `.h` | interest mask `events_`, `revents_`, `index_`, weak `tie_` | `enable*/disable*` (-> `update`), `remove`, `handleEvent` (tie guard), `handleEventWithGuard` (HUP/ERR/IN/OUT) | Poller, TcpConnection |
| EPollPoller | `src/src/net/poller/EpollPoller.cpp` | `channels_` map, the kernel interest list | `poll`/`fillActiveChannels`, `updateChannel` (kNew/kAdded/kDeleted), `removeChannel` | EventLoop, Channel |
| Acceptor | `src/src/net/Acceptor.cpp` | listening socket | `listen`, `handleRead` (one accept per readiness) | TcpServer::newConnection |
| TcpConnection | `src/src/net/TcpConnection.cpp` | `state_` (Connecting/Connected/Disconnecting/Disconnected), `outputBuffer_`, socket | `send` (two overloads), `sendInLoop`, `shutdown`, `shutdownInLoop`, `connectEstablished`, `connectDestroyed`, `handleRead/Write/Close/Error` | its loop, TcpServer, application callbacks |
| TcpServer | `src/src/net/TcpServer.cpp` | `connections_` (base loop only), `nextConnId_` | `start`, `newConnection`, `removeConnection`, `removeConnectionInLoop` | Acceptor, the thread pool, TcpConnection |
| EventLoopThreadPool / EventLoopThread | `EventLoopThread.cpp`, `EventLoopThreadPool.h` (the pool's .cpp is not in the repository) | `next_`, `loops_`, `loop_` under `mutex_`/`cond_` | `getNextLoop` (round robin), `startLoop`/`threadFunc` hand-off | TcpServer |
| Buffer | `src/src/net/Buffer.cpp`, `Buffer.h` | `buffer_`, `readerIndex_`, `writerIndex_` | `append`, `retrieve*`, `makeSpace`, `readFd`, `writeFd` | TcpConnection |
| TimerQueue / Timer | `src/src/time/*` | ordered set of (expiration, Timer*), timerfd | `addTimer`, `handleRead`, `getExpired`, `reset` | EventLoop |
| Thread / ThreadPool / CurrentThread | `src/src/base/*` | thread ids, a task queue with condition variables | `start`, `add`, worker loop | EventLoopThread |
| Logging | `src/src/log/*` | stream buffers, the async double buffer | `Logger`, `AsyncLogging::append`/`threadFunc` | everything (LOG_*) |
| MySQL pool | `src/src/mysql/*` | connection queue, idle reaper | `getConnection`, producer/recycler threads | the application |
| HttpServer | `src/src/http/HttpServer.cpp` | none of its own | `onMessage`, `onRequest`: reply with `send()` on the loop thread, then `shutdown()` | TcpServer, TcpConnection |

**How they interact.** The base loop runs the Acceptor. `newConnection`
picks a worker loop with `getNextLoop` and stores the connection in
`connections_`. It then asks the worker to run `connectEstablished`, which
enables reading through `Channel::update -> EPollPoller::updateChannel`.

Readiness comes back through `poll`, `Channel::handleEvent` (which takes the
weak `tie_` first) and `handleEventWithGuard`. Closing runs
`handleClose -> removeConnection -> (base loop) removeConnectionInLoop ->
(worker loop) connectDestroyed -> Channel::remove`.

A connection is owned through `shared_ptr`. The owners are `connections_`,
any handle the application keeps, and every functor bound to the shared
pointer, for as long as the functor is queued or in the vector that
`doPendingFunctors` is walking. The one exception is the `send()` /
`shutdown()` functors, which are bound to a raw `this`.

**What is hard to test.**
- Cross-thread hand-offs through `queueInLoop`, and the wakeup rule
  `!isInLoopThread() || callingPendingFunctors_`.
- Object lifetime across those hand-offs: shared, weak and raw pointers.
- The order of the removal hops across two loops.
- `send()` / `shutdown()` called from a thread that is not the loop's.
- Peer FIN/RST racing the server's own shutdown.
- A kernel send buffer that takes only part of a write.

The hazards are listed one by one in `PROJECT.json`.

## 2. Modules

### `TaskQueue.tla`: what a loop promises
This is an abstract first-in first-out executor per loop, not code.
- `Submit` appends a functor.
- `RunHead` runs the head of the queue; while it runs, that functor may run
  one more functor directly and queue one more.
- `RunDirect` models a callback outside the queue that runs a functor with
  `runInLoop`.

Nothing runs twice, out of order, or is dropped without running.

### `EventLoop.tla`: one loop and its functor queue
Source: `EventLoop.cpp`.

Each loop thread has a program counter `lpc`:
- `CheckQuit` is `while(!quit_)`.
- `PollAndDispatch` is `epoll_wait` plus `handleEvent`: the eventfd
  `handleRead` clears the counter, and one generic I/O callback may
  `runInLoop` or `queueInLoop`.
- `SwapPendingFunctors` sets `callingPendingFunctors_` and swaps the vector.
- `CallFunctor` runs one functor. The functor may run a nested functor,
  queue another one, or call `quit()`.
- `FinishFunctors` ends the walk.

Foreign threads act in two steps, because `queueInLoop` writes the eventfd
after releasing the mutex:
- `ForeignQueueInLoop` pushes and records a wakeup it owes in `owed`.
- `ForeignWakeup` performs the wakeup.
- `ForeignQuit` sets `quit_`.

`Readable` is the test that makes `epoll_wait` return. The eventfd channel
is registered by the constructor. The epoll timeout (`kPollTimeMs`, 10 s) is
left out on purpose: a loop that only its timeout wakes has lost a wakeup.

The module defines helpers that `TcpServer.tla` instantiates: `Enqueue`,
`QueueNeedsWakeup` and `Wakeup`.

### `EventLoopThread.tla`: the thread that owns a loop
Source: `EventLoopThread.cpp`, `Thread.cpp`. It EXTENDS `EventLoop.tla`,
so the loop's own steps (`InLoop`) run only while `threadFunc` is inside
`loop.loop()`. Per loop it adds:
- `thr`, the thread: `unstarted`, `init` (before `loop_` is set),
  `entering` (`loop_` published, `loop.loop()` not yet called),
  `looping`, `exiting`, `gone` (threadFunc returned, its `EventLoop` destroyed);
- `ptr`, `loop_ != nullptr`;
- `own`, the owner (the pool's thread) in `startLoop` and the destructor.

Actions of the owner: `OwnerStart` (`thread_.start()`), `ThreadBegin`
(the new thread posts the semaphore), `StartLoopCheck` (the
`while (loop_ == nullptr)` test under `mutex_`), `SpuriousWakeup`, `Dtor`
(reads `loop_` without the mutex), `OwnerQuit` (`quit()` plus `wakeup()`,
the owner not being the loop thread) and `Join`. Actions of the thread:
`ThreadPublish` (`loop_ = &loop; notify_one()` under the mutex),
`ThreadEnterLoop` (the first lines of `loop()`: `looping_ = true;
quit_ = false`), `InLoop`, `ThreadExit` (`loop_ = nullptr` under the mutex) and
`ThreadReturn` (the mutex released and the `EventLoop` destroyed). `Dtor`
may read a stale non-null `loop_` after `ThreadExit`, the unlocked read
racing the write. Reading `nullptr` instead (possible only once someone
else quit the loop), it returns without `join()` while the thread is
still between `ThreadExit` and `ThreadReturn`: the model reaches that
state, and no run checks it (see section 4).
Foreign threads and I/O act on a loop only once `startLoop` has returned
it: nobody else holds the pointer before.

### `TcpServer.tla`: the connection lifecycle across loops
It instantiates `EventLoop` for the queue operators. Its state:
- The per-loop variables of EventLoop: `lpc`, `pending`, `batch`, `bnext`,
  `calling`, `wakeupCnt`.
- The ready list `active`, and the channel being dispatched with its
  remaining flags (`cur`, `rev`).
- One record per connection in `tc`: `state_`, the interest mask `ev`, the
  poller `idx`, membership of `channels_` (`mapped`) and of the kernel
  interest list (`epoll`), `outputBuffer_` length (`out`), bytes accepted by
  `send()` and bytes written to the kernel, `wrShut` (`shutdownWrite` done),
  kernel send-buffer `space`, unread input (`inData`), the peer state and a
  pending socket error.
- `loopOf`, `inMap` (`connections_`), `nextConnId_`, the pool's `next_`,
  the listen backlog, and the user thread's call in progress with the
  handle it holds.

Actions, each a whole handler:
- `Poll`, `HandleWakeup`.
- `HandleAccept`: `Acceptor::handleRead` plus `newConnection`, which runs
  `connectEstablished` at once when the chosen loop is the base loop.
- `HandleConnEvent`: the tie guard.
- `ConnHup`, `ConnError`, `ConnRead`, `ConnWrite`: the flags in
  `handleEventWithGuard`'s order. `ConnHup` runs `handleClose` when
  EPOLLHUP comes without EPOLLIN. `Revents` reports EPOLLHUP and EPOLLERR
  for a registered socket whatever its interest mask, as the kernel does:
  HUP on a reset, or on a FIN once our write side is shut.
- `ConnRead` covers `handleRead` with the error branch, the data branch and
  the EOF branch. In the data branch the message callback either does
  nothing or replies with `send()` and optionally calls `shutdown()`,
  exactly as `HttpServer::onMessage`/`onRequest` do.
- `SwapPendingFunctors`, `CallFunctor` (one case per bound functor:
  `connectEstablished`, `sendInLoop`, `shutdownInLoop`,
  `removeConnectionInLoop`, `connectDestroyed`, and the application's
  write-complete callback), `FinishFunctors`.
- `RemoveAbort`: the next functor is `connectDestroyed` and the interest
  mask is not empty when it reaches `channel_->remove()`. The
  `assert(isNoneEvent())` there (`Channel.cpp:41`) fails. `src/` has no
  build file that defines `NDEBUG`, so the process aborts: `aborted`
  becomes TRUE, and from then on the only step is `Aborted`, which
  changes nothing. `CallFunctor` runs `connectDestroyed` only when the
  assert holds (`RemoveAllowed`).
- The user thread: `UserSend` / `UserShutdown` (the `state_` test),
  `UserFinish` (the rest of the call, queued with the raw `this`), and
  `UserDrop`.
- The environment: `PeerConnect`, `PeerSend`, `PeerClose` (FIN),
  `PeerReset` (RST) and `PeerDrain`.

The TcpConnection internals are operators on one record:
`UpdateChannel`/`RemoveChannel` (EPollPoller), `SendInLoop`, `WriteResult`
(`::write`), `ShutdownInLoop`, `ShutdownOnLoop` (in-loop `shutdown()`),
`ConnectEstablished`, `CloseChannel` (the first half of `handleClose`),
`DestroyClose` (`connectDestroyed` up to `remove()`), `ConnectDestroyed`
and `HandleWrite`.

`Freed(c)` holds when no owner is left: the map, the user's handle, an
owning functor queued or in a walked vector, or the dispatch guard.

Payload bytes are counted, not named. `getNextLoop` is modelled from spec
§4.8 because `EventLoopThreadPool.cpp` is not in the repository.

### `Buffer.tla`: the byte buffer and how connections drain it

`b` is the `std::vector<char>` (`cells`, where C++ cell i is `cells[i+1]`)
together with `readerIndex_` and `writerIndex_`, which keep their C++ values.
Each byte that enters is numbered 1, 2, 3, ... in arrival order. Zero
stands for a cell that the constructor or `resize()` zero-filled. `pushed`
holds every byte that entered and `taken` every byte a consumer got.

The operators are one per method: `MakeSpace` (grow with `resize`, or
slide the readable bytes to `kCheapPrepend`), `EnsureWritableBytes`,
`AppendTo`, `Retrieve`/`RetrieveAll`, and `ReadInto`, which is `readFd`'s
split between the writable tail and `extrabuf`. The actions are
`AppendBytes`, `RetrieveAsString` (which also covers `retrieveAllAsString`
and `retrieveUntil`), `ReadFd` and `WriteFd`.

Two more actions model the code that drains a Buffer from `beginWrite()`:
- `HandleWriteDrain` is `TcpConnection::handleWrite` on `outputBuffer_`.
- `SendBuffer` is the in-loop `send(Buffer*)`, which every `HttpServer`
  reply takes.

`TailBytes` is the content at `beginWrite()`. Bytes past the end of the
vector are an out-of-bounds read, so they take any value.

`RoundTrip` is spec §8's law: the bytes taken out, followed by the readable
region, are exactly the bytes that entered, in order.

### `ThreadPool.tla`: the worker pool
Source: `ThreadPool.cpp`, `Thread.cpp` (`join`).

State: `running_`, `queue_`, the holder of `mutex_` (`mtx`), each worker's
place in `runInThread` (`pc`, `idle` for a thread `start()` did not
create) and its local `task` (`held`), `threadSize_` (`size`, or `Unset`),
and the owning thread's phase (`client`). `added` and `done` record which tasks were
handed in and the order they ran.

Actions: `AddTask` (run inline while `threads_` is empty, else push and
`notify_one`), `SetThreadSize`, `Start` (creates `threadSize_` threads),
`Stop`, `Destroy` (`stop()` if running, then the
joins), `Joined`; per worker `Top` (the unlocked `while(running_)` read),
`Lock`, `Check` (the locked block: take the front task, return, or
`cond_.wait`), `SpuriousWakeup` and `RunTask`.

`TaskDispatch.tla` is what the pool promises, with the threads left out:
one FIFO `queue` and a count `out[t]` of how often task `t` was handed
out. `Submit` appends, `RunInline` is the caller running a task itself,
and `HandOut` gives out the head of the queue. `ThreadPool` instantiates it
with `out[t]` mapped to the number of workers holding `t` plus the number
of times `t` appears in `done`. `AddTask` is then `Submit` or `RunInline`,
and `Check`'s take is `HandOut`. Every other step, `RunTask` included,
is a stutter.

### `TimerQueue.tla`: timers on the loop thread
Source: `TimerQueue.cpp`, `Timer.h`, `EventLoop.cpp` (the poll).

Time is kept relative to now: `rel[t]` is a timer's expiration minus now
and `dl` what is left of the armed timerfd's delay, in units of
`resetTimerfd`'s 100 us floor (`Clamp`). Every comparison the code makes
is a comparison of these numbers, so time runs for ever in a finite state
space. `Tick` is one unit; past `MaxLate` units overdue, `rel` saturates.

Actions: `AddTimerInLoop` (insert, re-arm when `earliestChanged`), `Tick`
(the kernel timer going off), `Poll` (epoll reports the timerfd),
`HandleRead` (read the timerfd, `getExpired`, run the callbacks, `reset`).
`ResetTimerfd` is the 100 us floor. `SetTimerfd` is `timerfd_settime`:
- a positive delay arms the timerfd;
- a zero `it_value` disarms it;
- a negative one fails with EINVAL and changes nothing;
- re-arming clears an expiration count not yet read.

Fault: `ClockStepBack(k)`. Expirations come from `TimeStamp::now()`
(`gettimeofday`, the wall clock) while the timerfd counts
`CLOCK_MONOTONIC`. Setting the wall clock back by `k` units moves every
expiration `k` further from now and leaves the armed delay alone, so the
timerfd goes off, `handleRead` finds nothing expired, and `reset` must
re-arm for the (now later) earliest timer. At most `MaxClockSteps` steps
of at most `MaxStepBack` units happen. A step forward is left out: the
timerfd still fires at the monotonic time it was set for and
`getExpired` then finds the timers due, so it delays nothing. Without
clock steps `handleRead` always finds a timer expired, so the re-arm
after an empty `handleRead` is reached only through this fault.

### `AsyncLogging.tla`: the double-buffered log back end
Source: `AsyncLogging.cpp`, `AsyncLogging.h`, `FixedBuffer.h`, and the
`LogFile.cpp` / `FileUtil.cpp` it writes through.

A `FixedBuffer` is the sequence of the lines in it; lines are numbered in
the order they took `mutex_` and each takes one unit of a `Cap`-unit
buffer; a null buffer pointer is `NoBuf`. State: `running_`,
`currentBuffer_` (`cur`), `nextBuffer_` (`next`), `buffers_` (`bufs`), the
back end's `pc`, its spares `newBuffer1/2` (`nb1`, `nb2`) and
`buffersToWrite` (`toWrite`) with the index `wi` of the next one to write,
the `LogFile` (`lf`), the number of lines appended (`appended`),
and the thread in `stop()` (`stopper`). Each critical section of `mutex_`
is one step.

Actions: `AppendLine` (front end), `Stop` and `Join` (the owner), and the
back end's `Top`, `Lock`, `Timeout` (`wait_for` returning without a
notify), `Relock` (the swap after the wait), `Write` and `Refill`
(`resize(2)`, the spares taken back from `buffersToWrite`, `clear`).

The `LogFile` record `lf` keeps the lines of the files already rolled
(`closed`), of the current file on disk (`disk`) and in its stdio buffer
(`stdio`), `writtenBytes` (`written`), `count_` and three flags for what
the clock allows: a roll this second (`rollDue`, `lastRoll_` being an
earlier second), a new day (`dayDue`) and a flush (`flushDue`; the back
end passes `flushInterval = 0`). `Tick` advances the clock.
`AppendInLock` is `append_unlocked`: `fwrite` may pass any prefix of the
stdio buffer to the kernel (`FileAppends`), then the file rolls past
`RollSize`, or every `CheckEveryN` appends checks the day and the flush.
Lines are compared in `Logged` (everything) and `OnDisk` (what reached
the kernel).

## 3. Runs

| Run | cfg | Expect | Shows |
|---|---|---|---|
| eventloop | `MCEventLoop.cfg` | pass | These hold for one loop, two foreign threads, 4 functors and 2 I/O events. `NoLostWakeup`: a loop never sleeps with functors queued unless a wakeup is pending or owed. `AbstractSpec`: the loop refines `TaskQueue`, with queue = unrun part of the swapped vector followed by `pendingFunctors_`. The loop runs inside an `EventLoopThread`: `StartLoopReturns` (`startLoop` does return), `QuitAfterEntryReturns` (`~EventLoopThread`'s `quit()` and `join()` return when the `quit()` comes after `threadFunc` entered `loop()`). |
| tcp_lifecycle | `MCTcpServer_lifecycle.cfg` | pass | HttpServer-style in-loop use: one connection on a worker loop, 2 requests, 2 sends of 2 bytes into a 1-byte kernel buffer, FIN and RST, and a write-complete callback that may shut down. Checks `NoFunctorOnFreedConnection`, `ChannelUnregisteredBeforeFree`, `ShutdownFlushesOutput` (half-close only after every accepted byte reached the kernel), `MapMatchesLifecycle` (in `connections_` until exactly one removal, and only once Disconnected), and the liveness properties `ClosedConnectionsReclaimed` and `AcceptedConnectionsEstablished`. |
| tcp_user | `MCTcpServer_user.cfg` | pass | Adds a user thread with a handle calling `send()` / `shutdown()`, and peers that may reset. `ChannelUnregisteredBeforeFree` still holds. This includes the paths where a second `handleClose` (EPOLLHUP without EPOLLIN) queues `connectDestroyed` twice, and the paths that end in `aborted`. |
| tcp_user_remove_with_interest | `MCTcpServer_user_ChannelRemovedWithoutInterest.cfg` | violation | `ChannelRemovedWithoutInterest` fails in 22 states. 1. The user thread's `send()` queues a `sendInLoop` on the raw `this`. 2. Its `shutdown()` passes the `kConnected` test. 3. The peer's FIN runs `handleClose`, which sets `kDisconnected` and calls `disableAll()`. 4. `shutdown()` sets `kDisconnecting`. 5. `sendInLoop` writes one byte of two and calls `enableWriting()`. 6. `connectDestroyed` calls `remove()` on a channel with write interest, and the assert aborts the process. |
| tcp_user_use_after_free | `MCTcpServer_user_NoFunctorOnFreedConnection.cfg` | violation | A foreign `send()` passes its `kConnected` test, the loop closes, removes and destroys the connection, and the `sendInLoop` functor bound to `this` is still queued. |
| eventloop_quit_before_loop | `MCEventLoop_quit.cfg` | violation | `DestructorReturns` without the condition: the owner's `startLoop` returns once `loop_` is published, its destructor calls `quit()` (and `wakeup()`) before `threadFunc` calls `loop.loop()`, `loop()` sets `quit_ = false`, consumes the wakeup and sleeps in `epoll_wait`; `join()` never returns. |
| tcp_user_send_after_shutdown | `MCTcpServer_user_ShutdownFlushesOutput.cfg` | violation | A foreign `send()` is queued while the loop replies and calls `shutdown()`. `sendInLoop` then writes to a shut socket (EPIPE; SIGPIPE is never ignored in `src/`). |
| buffer | `MCBuffer.cfg` | pass | kCheapPrepend 2, initial size 2, extrabuf 2, up to 8 bytes in chunks of at most 3. Every mix of `append`, `readFd`, `retrieve*` and `writeFd` keeps `kCheapPrepend <= reader <= writer <= size()` (`TypeOK`) and satisfies `RoundTrip`. This covers both branches of `makeSpace` and `readFd`'s overflow into `extrabuf`. |
| threadpool | `MCThreadPool.cfg` | pass | Three workers, three tasks, spurious wakeups, any `threadSize_` (set or uninitialised), and the owner adding, starting, stopping and destroying in any order. `TaskConservation`: every added task is queued, held by one worker, or has run, exactly once. `QueuedTasksRun`: while the pool runs a queued task is run. `DestructorReturns`: `~ThreadPool`'s joins return. `DispatchSpec`: the pool refines `TaskDispatch`, so workers racing for `mutex_` take tasks in the order they were queued (a `back()`/`pop_back()` slip breaks it, while `TaskConservation` still holds). |
| timerqueue | `MCTimerQueue.cfg` | pass | A one-shot timer and a repeating one, added at expirations from one unit overdue to three ahead, with the wall clock set back up to twice by up to two units. `NoStrandedTimer`: while `timers_` is non-empty the timerfd is readable or armed no later than the earliest expiration (or the 100 us floor). Its mutant drops that floor, and `timerfd_settime` then disarms the timerfd for a zero delay or rejects a negative one. `TimersFire`: each one-shot timer fires, each repeating timer fires again and again. |
| asynclogging | `MCAsyncLogging.cfg` | pass | Six lines into buffers that hold two, racing the back end's swaps and `wait_for` timeouts, `LogFile` rolls (`RollSize` 2, `CheckEveryN` 2) and flushes, and `stop()` at any point. `WrittenInOrder`: the files, in order, hold lines 1..k, no gap, no duplicate. `BackendAssertions`: the `assert`s of `threadFunc` hold. `LinesWritten`: while logging runs, every line reaches the kernel (not only the stdio buffer). `StopReturns`: `stop()` returns. It does so even when its unlocked `notify_one` is lost, because the back end had tested `running_` and not yet reached `wait_for`; `wait_for`'s timeout then brings the back end back. |
| asynclogging_stop_loses_lines | `MCAsyncLogging_stop.cfg` | violation | A line is appended, `stop()` sets `running_ = false` while the back end is at `while (running_)`, the back end leaves the loop without a last swap, and `join()` returns with the line never written. |

Every property of a passing run has a mutant in `PROJECT.json`, a plausible
slip in the code that TLC then catches. Examples:
- `queueInLoop` without its `callingPendingFunctors_` test.
- `shutdownInLoop` without its `isWriting()` test.
- `handleClose` without `disableAll()`.
- `connectDestroyed` bound to a raw pointer.

Three mutants show a real difference between configurations:
- `reset` re-arming the timerfd only when something expired is caught
  only with the clock set back (`MaxClockSteps` > 0): otherwise every
  `handleRead` finds a timer due and re-arms anyway.
- The missing-`disableAll()` mutant is caught only with a worker loop: on
  a single loop `connectDestroyed` would run in the same iteration as
  `handleClose`, so no second readiness report could arrive. The runs
  therefore use a worker loop.
- `MapMatchesLifecycle` does not hold when a user thread calls
  `shutdown()`: a removed connection can be set back to `kDisconnecting`
  (the state regression of `StateMonotonic`, section 4). `tcp_user` therefore leaves it out.
- `ChannelUnregisteredBeforeFree`, checked by `tcp_user`, holds only
  because the model aborts where the code does. With `RemoveAbort` left
  out, `connectDestroyed` would free a connection that still has write
  interest.

**Buffer bounds.** The bounds are small versions of the real sizes
(8, 1024 and 65536 in the code). What matters is how a chunk compares with
the room left:
- chunks of up to 3 against a 2-byte tail and a 2-byte `extrabuf` make
  `readFd` overflow;
- a partly retrieved buffer makes `makeSpace` slide the bytes down instead
  of growing.

`TailBytes` reads past the vector only in the violation runs.

**Bounds.** Each bound is a named constant: `MaxConns`, `MaxRequests`,
`MaxSends`, `MsgLen`, `SockBuf` and `MaxFunctors`. With `MsgLen = 2`
against `SockBuf = 1`, a direct write takes one byte and queues the other.
That enables write interest, which makes the partial-write and
shutdown-while-writing paths happen. Two requests let a reply be followed by
a second one or by a FIN. One connection on a worker loop already crosses
every hop between loops. `setThreadNum(0)` (the base loop serving its
own connections) is not a run of its own; `newConnection`'s in-line
`connectEstablished` and `removeConnection`'s direct call are the same
handlers without the hop.

**Bounds of the other modules.**
- ThreadPool: three workers and three tasks. Two workers are needed for
  a task to be fought over and for one worker to sleep while another
  runs; the third lets `notify_one` pick one of two sleepers while a
  running worker will find the queue emptied. `threadSize_` is set to any
  of 0..3 by `setThreadSize`, or left uninitialised, in which case
  `start()` creates any number of threads from none to three (the
  indeterminate value; one too large for `reserve()` is left out). With
  none, `addTask` runs tasks inline even after `start()`.
- TimerQueue: a one-shot timer (interval 0) and a repeating one
  (interval 2), expirations -1..3, `Clamp` 1, `MaxLate` 2. This covers a
  timer added already overdue (clamped), a new earliest timer re-arming
  the fd, a later one not re-arming it, two timers expiring in one
  `handleRead`, and the repeating timer re-inserted after it. Two clock
  steps back of up to two units (`MaxStepBack` is at most `MaxLate`, so
  a saturated `rel` stays overdue after a step) reach an empty
  `handleRead` with a timer still queued, and a step while a readiness is
  reported but not yet handled.
- AsyncLogging: buffers of `Cap` 3 (two lines, since `append` needs
  `avail() > len`) and six lines. Six lines fill three buffers, so a front
  end uses `nextBuffer_`, then a fresh buffer, and `buffersToWrite` holds
  more than two so `resize(2)` cuts it.

**Fairness.** Weak fairness on each loop thread's `LoopStep`: a runnable
loop thread is scheduled by the OS, and a thread in `epoll_wait` with
nothing ready is not enabled. Weak fairness also on the user thread
finishing a call it has begun (`UserFinish`). No fairness for peers or for
the user starting calls: they may stop at any time.

In `ThreadPool.tla` each worker's steps (`WorkerStep`) and the owner's
return from `join()` are weakly fair; a spurious wakeup has no fairness,
and the owner's own calls are not forced. In `TimerQueue.tla` time passes
(`Tick`), and the loop thread reports and handles a readable timerfd
(`Poll`, `HandleRead`), weakly fairly; adding timers is up to the program.
In `EventLoopThread.tla` each thread's steps (`ThreadStep`), the owner
once blocked in `startLoop` or the destructor (`OwnerBlocked`), and a
foreign thread's owed wakeup are weakly fair; a spurious wakeup is not,
and when the owner starts or destroys the object is its own choice.
In `AsyncLogging.tla` the back end (`BackEnd`) and `Join` are weakly fair:
the back end is a thread the OS schedules, and `wait_for` returns after
`flushInterval_` at the latest, which is why `Timeout` is part of it.
Front ends may stop logging at any time.

## 4. Not modelled (yet), and why

- **Buffer contents inside `TcpServer.tla`.** The lifecycle model counts
  bytes. `Buffer.tla` checks what they are, and the two models share no
  state. `TcpServer.tla` assumes the right bytes go out.
- **The `beginWrite()` drain has no run.** `handleWrite` on
  `outputBuffer_`, and the `send(&buf)` that every `HttpServer` reply
  makes, send `readableBytes()` bytes starting at `beginWrite()`
  (`TcpConnection.cpp:221` and `:77`). The peer gets the zero-filled
  tail, and the queued bytes are then retrieved unsent. `Buffer.tla`
  models both drains (`HandleWriteDrain`, `SendBuffer`).
  `tlc -config MCBuffer_drain.cfg MCBuffer` reproduces the loss as a
  `RoundTrip` violation two steps after the first append. A unit test
  that compares the bytes sent reaches it too, so the project's runs go
  to the interleavings instead.
- **`Buffer::findCRLF` and the const accessors.** They change nothing.
- **The MySQL pool.** `ConnectionPool` is a collaborator outside the
  reactor; reading it shows `currentSize_` incremented twice per new
  connection (`addConnection` and its callers), a deleter that pushes
  without `notify`, and a producer that spins at the maximum. It is a
  planned module.
- **`StateMonotonic` has no run.** `TcpServer.tla` states it (spec §8:
  the connection state only moves forward), and TLC finds it violated
  under `MCTcpServer_user.cfg`'s behaviours: a foreign `shutdown()`
  passes its `kConnected` test, `handleClose` sets `kDisconnected`, and
  `shutdown()` then sets `kDisconnecting` (`TcpConnection.cpp:160`). The
  crash this regression leads to has its own run,
  `tcp_user_remove_with_interest`.
- **`LogStream` and `Logger`.** Reading them shows defects a unit test
  reaches directly, with no interleaving for a model checker to add:
  `formatInteger` writes nothing for 0 (its loop is `while (v > 0)`)
  and negates `INT_MIN` (undefined behaviour); `FixedBuffer::append`
  needs `avail() > len`, so a record that fills the buffer loses its
  trailing newline; `formatTime` calls the non-reentrant `localtime()`
  from every logging thread.
- **`~EventLoopThread` skipping `join()`.** After an outside `quit()`,
  the destructor can read `nullptr`, return and free `mutex_` while
  `threadFunc` still holds it (`EventLoopThread.cpp:59`). The model
  reaches this state in the eventloop run; it is listed as a hazard
  rather than checked, as no caller in `src/` quits a worker loop.
- **A stale `loop_` in `~EventLoopThread` used on a destroyed loop.** The
  model lets the destructor's unlocked read see the old pointer, but only
  a `quit()` from outside the destructor could make the loop exit first,
  and no caller in this program makes one.
- **`ThreadPool`'s queue bound.** The comment on `threadSize_`
  (`ThreadPool.h:51`) calls it the queue's maximum length, but it is only
  the number of threads `start()` creates: nothing bounds `queue_` and
  `addTask` never blocks, so there is no bound to check.
- **`Logger`, `LogStream`, the file names of `LogFile`.** `LogFile`'s
  append, roll and flush and `FileUtil`'s stdio buffer are in
  `AsyncLogging.tla`; the rest is formatting and I/O.
- **Timer cancellation.** `TimerQueue` has no `cancel`; a Timer lives
  until it fires (one-shot) or for ever (repeating).
- **Accept failures (EMFILE), `LOG_FATAL` aborts, the high-water-mark
  callback, and `TcpServer`'s destructor.** No state worth checking, or
  never configured by this code.
- **HTTP parsing, log formatting, `InetAddress` / `TimeStamp`
  formatting.** String handling with no concurrency.

## 5. Plan

The order below follows the risk of each module: concurrency first, and
then the parts the reactor depends on.
1. **Done:** `TaskQueue`, `EventLoop`, `TcpServer`, `Buffer`,
   `TimerQueue`, `ThreadPool` (with its abstraction `TaskDispatch`),
   `AsyncLogging` (with `LogFile`), `EventLoopThread`.
2. **MySQL `ConnectionPool`:** the producer, the recycler and the timed
   wait in `getConnection`. The questions are the pool size bound and
   whether a waiter starves. Both defects in section 4 are visible from
   the source. A model would confirm how far `currentSize_` drifts and
   whether a waiter can time out with connections idle.
3. **Two connections in the lifecycle run.** `MaxConns = 2` with the
   lifecycle bounds had not finished after 15 minutes, by which point TLC
   had found more than 1.3 million distinct states. It needs smaller send bounds to fit, and those bounds
   would lose the two-send cases `ShutdownFlushesOutput` relies on.
