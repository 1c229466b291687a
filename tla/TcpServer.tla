----------------------------- MODULE TcpServer -----------------------------
(***************************************************************************)
(* The connection lifecycle of the reactor core, across threads:          *)
(*   TcpServer (newConnection, removeConnection, removeConnectionInLoop),  *)
(*   Acceptor::handleRead, EventLoopThreadPool::getNextLoop,               *)
(*   TcpConnection (connectEstablished, send, sendInLoop, shutdown,        *)
(*   shutdownInLoop, handleRead, handleWrite, handleClose, handleError,    *)
(*   connectDestroyed), Channel (tie, enable/disable, handleEvent, remove) *)
(*   and EPollPoller (poll, updateChannel, removeChannel),                 *)
(* driven by the loops and functor queues of EventLoop.                   *)
(*                                                                         *)
(* The base loop runs the Acceptor and owns connections_; each connection *)
(* lives on the loop getNextLoop() gave it.  A loop thread blocks in      *)
(* epoll_wait, takes the ready channels (active[l]), calls handleEvent on *)
(* them one by one -- a connection channel's handleEventWithGuard one     *)
(* flag at a time, in its order HUP, ERR, IN, OUT -- then runs its        *)
(* pending functors.  The peer, the kernel socket buffers and, when there *)
(* is one, a user thread that keeps a TcpConnectionPtr and calls          *)
(* send/shutdown from outside the loops, act in between.  Payload bytes   *)
(* are counted, not named; Buffer.tla models their contents.  A failed    *)
(* assert aborts the process: `aborted`, after which nothing moves.       *)
(*                                                                         *)
(* Ownership (shared_ptr<TcpConnection>): a connection is owned by        *)
(* connections_, by the user's handle, by every functor bound to the      *)
(* shared pointer that sits in a queue or in the vector doPendingFunctors *)
(* is walking (that vector lives until the walk ends), and by the guard   *)
(* Channel::handleEvent takes through its tie while it dispatches.  When  *)
(* none is left the object, its Channel and its Socket are destroyed.     *)
(* sendInLoop and shutdownInLoop are bound to the raw `this`: they do not *)
(* own.                                                                   *)
(***************************************************************************)
EXTENDS Integers, Sequences, FiniteSets

CONSTANTS
    Base,          \* the loop the server and its Acceptor run on
    Workers,       \* the loops of the EventLoopThreadPool, in order
    Users,         \* threads off the loops holding handles ({} or one)
    MaxConns,      \* connections accepted in a behaviour
    MaxRequests,   \* messages the peers send in a behaviour
    MaxSends,      \* send() calls in a behaviour
    MsgLen,        \* bytes in one sent message
    SockBuf,       \* bytes the kernel send buffer holds
    MayReset,      \* whether a peer may reset its connection
    HasWriteComplete \* whether a WriteCompleteCallback is registered

ASSUME /\ MaxConns \in Nat /\ MsgLen \in Nat \ {0} /\ SockBuf \in Nat
       /\ MayReset \in BOOLEAN /\ HasWriteComplete \in BOOLEAN

Loops == {Base} \cup {Workers[i] : i \in DOMAIN Workers}
Conns == 1..MaxConns

VARIABLES
    lpc, pending, batch, bnext, calling, wakeupCnt,  \* as in EventLoop
    active,     \* active[l]: channels and revents epoll_wait returned
    cur,        \* cur[l]: connection whose handleEvent is running, or 0
    rev,        \* rev[l]: flags of cur[l] not yet handled
    tc,         \* tc[c]: connection c, its Channel and its socket
    loopOf,     \* loopOf[c]: TcpConnection::loop_
    inMap,      \* inMap[c]: c is in TcpServer::connections_
    nextConn,   \* TcpServer::nextConnId_
    rrNext,     \* EventLoopThreadPool::next_
    backlog,    \* completed connections waiting in the listen queue
    requests,   \* messages the peers have sent
    sends,      \* send() calls made
    upc,        \* the user thread's call in progress
    userHold,   \* userHold[c]: the user thread holds a TcpConnectionPtr
    removals,   \* removals[c]: times removeConnectionInLoop ran for c
    aborted     \* an assert failed and the process aborted

vars == <<lpc, pending, batch, bnext, calling, wakeupCnt, active, cur, rev,
          tc, loopOf, inMap, nextConn, rrNext, backlog, requests, sends,
          upc, userHold, removals, aborted>>

EL == INSTANCE EventLoop WITH Foreign <- Users, MaxFunctors <- 0,
        MaxIoEvents <- 0, quit <- [l \in Loops |-> FALSE], owed <- {},
        ioReady <- {}, ioLeft <- 0, nextId <- 0, done <- {}

States == {"Unborn", "Connecting", "Connected", "Disconnecting", "Disconnected"}
Rank == [s \in States |-> CASE s = "Unborn" -> 0 [] s = "Connecting" -> 1
                          [] s = "Connected" -> 2 [] s = "Disconnecting" -> 3
                          [] s = "Disconnected" -> 4]

Ops == {"connectEstablished", "sendInLoop", "shutdownInLoop",
        "removeConnectionInLoop", "connectDestroyed", "writeComplete"}

\* A bound functor: `own` when it holds a TcpConnectionPtr, not when it
\* holds the raw this.
Functor(op, c, own, len) == [op |-> op, conn |-> c, own |-> own, len |-> len]

Idx == {"kNew", "kAdded", "kDeleted"}
Peers == {"open", "fin", "rst"}

Conn == [state: States, ev: SUBSET {"read", "write"}, idx: Idx,
         mapped: BOOLEAN, epoll: BOOLEAN, out: Nat, accepted: Nat,
         written: Nat, wrShut: BOOLEAN, space: Nat, inData: BOOLEAN,
         peer: Peers, err: BOOLEAN]

\* A connection not yet made; its Channel as the constructor leaves it:
\* events_ 0, index_ -1 (kNew), not in the poller.
Unborn == [state |-> "Unborn", ev |-> {}, idx |-> "kNew", mapped |-> FALSE,
           epoll |-> FALSE, out |-> 0, accepted |-> 0, written |-> 0,
           wrShut |-> FALSE, space |-> SockBuf, inData |-> FALSE,
           peer |-> "open", err |-> FALSE]

-----------------------------------------------------------------------------
(* Ownership.                                                            *)

Queued(l) == {pending[l][i] : i \in DOMAIN pending[l]}
Walked(l) == {batch[l][i] : i \in DOMAIN batch[l]}
Unrun(l) == {batch[l][i] : i \in bnext[l]..Len(batch[l])}

Owned(c) ==
    \/ inMap[c]
    \/ userHold[c]
    \/ \E l \in Loops :
          \/ cur[l] = c
          \/ \E f \in Queued(l) \cup Walked(l) : f.own /\ f.conn = c

Freed(c) == tc[c].state # "Unborn" /\ ~Owned(c)

-----------------------------------------------------------------------------
(* EPollPoller and Channel, on the record of one connection.             *)

\* EPollPoller::updateChannel, reached from Channel::update after the
\* interest mask changed to ev.
UpdateChannel(r, ev) ==
    IF r.idx \in {"kNew", "kDeleted"}
    THEN [r EXCEPT !.ev = ev, !.idx = "kAdded", !.mapped = TRUE, !.epoll = TRUE]
    ELSE IF ev = {}
         THEN [r EXCEPT !.ev = ev, !.idx = "kDeleted", !.epoll = FALSE]
         ELSE [r EXCEPT !.ev = ev]

\* Channel's interest setters: change events_, then update().
EnableReading(r) == UpdateChannel(r, r.ev \cup {"read"})
EnableWriting(r) == UpdateChannel(r, r.ev \cup {"write"})
DisableWriting(r) == UpdateChannel(r, r.ev \ {"write"})
DisableAll(r) == UpdateChannel(r, {})

\* Channel::remove -> EPollPoller::removeChannel.
RemoveChannel(r) == [r EXCEPT !.mapped = FALSE, !.epoll = FALSE, !.idx = "kNew"]

\* The revents epoll reports for a registered connection socket.  EPOLLHUP
\* and EPOLLERR come whatever the mask: HUP once both directions are shut
\* (our SHUT_WR and the peer's FIN) or the peer reset the connection.
Revents(r) ==
    IF ~r.epoll THEN {}
    ELSE (IF r.err THEN {"err"} ELSE {})
         \cup (IF r.peer = "rst" \/ (r.peer = "fin" /\ r.wrShut)
               THEN {"hup"} ELSE {})
         \cup (IF "read" \in r.ev /\ (r.inData \/ r.peer # "open")
               THEN {"in"} ELSE {})
         \cup (IF "write" \in r.ev /\ (r.space > 0 \/ r.peer = "rst")
               THEN {"out"} ELSE {})

-----------------------------------------------------------------------------
(* TcpConnection, on the record of one connection.                      *)

\* Mutant: ::write assumed to take all n bytes whenever it does not fail.
WriteResultWhole(r, n) ==
    IF r.wrShut \/ r.peer = "rst" THEN -2
    ELSE IF r.space = 0 THEN -1
    ELSE n

\* ::write(fd, .., n): bytes taken, -1 for EWOULDBLOCK, -2 for EPIPE or
\* ECONNRESET.
WriteResult(r, n) ==
    IF r.wrShut \/ r.peer = "rst" THEN -2
    ELSE IF r.space = 0 THEN -1
    ELSE IF n < r.space THEN n ELSE r.space

Wrote(r, k) == [r EXCEPT !.space = @ - k, !.written = @ + k]

\* sendInLoop(message, len): give up when Disconnected; write directly
\* when nothing is queued and write interest is off; queue the rest in
\* outputBuffer_ and enable writing, unless the write failed with EPIPE or
\* ECONNRESET.
SendInLoop(r, len) ==
    IF r.state = "Disconnected" THEN r
    ELSE LET direct == "write" \notin r.ev /\ r.out = 0
             res == IF direct THEN WriteResult(r, len) ELSE -1
             nwrote == IF res >= 0 THEN res ELSE 0
             fault == res = -2
             remaining == len - nwrote
             r1 == IF nwrote > 0 THEN Wrote(r, nwrote) ELSE r
         IN IF ~fault /\ remaining > 0
            THEN LET r2 == [r1 EXCEPT !.out = @ + remaining]
                 IN IF "write" \in r2.ev THEN r2
                    ELSE EnableWriting(r2)
            ELSE r1

\* Whether that sendInLoop queues writeCompleteCallback_.
SendCompletes(r, len) ==
    /\ HasWriteComplete
    /\ r.state # "Disconnected"
    /\ "write" \notin r.ev /\ r.out = 0
    /\ WriteResult(r, len) = len

\* Mutant: shutdownInLoop without its isWriting() test.
\* Socket::shutdownWrite: ::shutdown(fd, SHUT_WR), the write side closed.
ShutdownWrite(r) == [r EXCEPT !.wrShut = TRUE]

ShutdownInLoopWhileWriting(r) == [r EXCEPT !.wrShut = TRUE]

\* shutdownInLoop: half-close only when nothing is waiting to be written.
ShutdownInLoop(r) ==
    IF "write" \notin r.ev THEN ShutdownWrite(r) ELSE r

\* shutdown() on the loop thread: setState(kDisconnecting), then
\* runInLoop(shutdownInLoop) which runs at once.
ShutdownOnLoop(r) ==
    IF r.state = "Connected"
    THEN ShutdownInLoop([r EXCEPT !.state = "Disconnecting"])
    ELSE r

\* connectEstablished: kConnected, tie, enableReading.
ConnectEstablished(r) ==
    EnableReading([r EXCEPT !.state = "Connected"])

\* Mutant: handleClose that sets kDisconnected but forgets disableAll().
CloseChannelKeepInterest(r) == [r EXCEPT !.state = "Disconnected"]

\* handleClose up to the close callback: kDisconnected, disableAll.
CloseChannel(r) == DisableAll([r EXCEPT !.state = "Disconnected"])

\* connectDestroyed up to channel_->remove(): the close path if still
\* kConnected.
DestroyClose(r) == IF r.state = "Connected" THEN CloseChannel(r) ELSE r

\* Channel::remove's assert(isNoneEvent()): the interest mask is empty.
RemoveAllowed(r) == r.ev = {}

\* Mutant: connectDestroyed that forgets channel_->remove().
ConnectDestroyedNoRemove(r) == DestroyClose(r)

\* connectDestroyed: the close path, then remove() (its assert holding).
ConnectDestroyed(r) == RemoveChannel(DestroyClose(r))

\* handleWrite: write outputBuffer_; once it is empty disable writing and,
\* if a shutdown is pending, half-close.
HandleWrite(r) ==
    IF "write" \notin r.ev THEN r
    ELSE LET n == WriteResult(r, r.out) IN
         IF n <= 0 THEN r
         ELSE LET r1 == [Wrote(r, n) EXCEPT !.out = @ - n] IN
              IF r1.out > 0 THEN r1
              ELSE LET r2 == DisableWriting(r1) IN
                   IF r2.state = "Disconnecting" THEN ShutdownInLoop(r2) ELSE r2

HandleWriteCompletes(r) ==
    /\ HasWriteComplete
    /\ "write" \in r.ev
    /\ WriteResult(r, r.out) = r.out
    /\ r.out > 0

-----------------------------------------------------------------------------
(* The functors one step puts on the queues, and how they are pushed.   *)

\* Mutant: queueInLoop that never calls wakeup().
PushNoWakeup(pend, wk, from, l, f) == <<EL!Enqueue(pend, l, f), wk>>

\* Mutant: queueInLoop whose isInLoopThread() asks whether the caller runs
\* some loop rather than this one, so a push from another loop does not wake.
PushAsLoopThread(pend, wk, from, l, f) ==
    <<EL!Enqueue(pend, l, f),
      IF EL!QueueNeedsWakeup(from \in Loops, calling[l]) THEN EL!Wakeup(wk, l) ELSE wk>>

\* queueInLoop(f) on loop l, called from the thread of loop `from` (or a
\* user thread when `from` is not a loop): push, and wakeup() when the
\* test of queueInLoop says so.
Push(pend, wk, from, l, f) ==
    <<EL!Enqueue(pend, l, f),
      IF EL!QueueNeedsWakeup(from = l, calling[l]) THEN EL!Wakeup(wk, l) ELSE wk>>

\* Fold a sequence of (loop, functor) pushes made by one step.
RECURSIVE PushAll(_, _, _, _)
PushAll(pw, from, ls, fs) ==
    IF fs = <<>> THEN pw
    ELSE PushAll(Push(pw[1], pw[2], from, Head(ls), Head(fs)), from, Tail(ls), Tail(fs))

\* The step on thread `from` pushes functors fs to loops ls, in order.
Pushes(from, ls, fs) ==
    LET pw == PushAll(<<pending, wakeupCnt>>, from, ls, fs) IN
    /\ pending' = pw[1]
    /\ wakeupCnt' = pw[2]

\* EventLoopThreadPool::getNextLoop: round robin over the workers, or the
\* base loop when there are none.
NextLoop == IF Workers = <<>> THEN Base ELSE Workers[rrNext]
AdvanceRR == IF Workers = <<>> THEN rrNext ELSE (rrNext % Len(Workers)) + 1

-----------------------------------------------------------------------------
TypeOK ==
    /\ lpc \in [Loops -> {"poll", "dispatch", "functors"}]
    /\ \A l \in Loops : \A f \in Queued(l) \cup Walked(l) :
          f \in [op: Ops, conn: Conns, own: BOOLEAN, len: 0..MsgLen]
    /\ bnext \in [Loops -> Nat \ {0}]
    /\ calling \in [Loops -> BOOLEAN]
    /\ wakeupCnt \in [Loops -> Nat]
    /\ active \in [Loops -> SUBSET [ch: {"wakeup", "accept", "conn"},
                                    conn: 0..MaxConns,
                                    rev: SUBSET {"hup", "err", "in", "out"}]]
    /\ cur \in [Loops -> 0..MaxConns]
    /\ rev \in [Loops -> SUBSET {"hup", "err", "in", "out"}]
    /\ tc \in [Conns -> Conn]
    /\ loopOf \in [Conns -> Loops]
    /\ inMap \in [Conns -> BOOLEAN]
    /\ nextConn \in 1..(MaxConns + 1)
    /\ rrNext \in 1..(IF Workers = <<>> THEN 1 ELSE Len(Workers))
    /\ backlog \in 0..MaxConns
    /\ requests \in 0..MaxRequests
    /\ sends \in 0..MaxSends
    /\ upc \in [Users -> [op: {"idle", "send", "shutdown"}, conn: 0..MaxConns]]
    /\ userHold \in [Conns -> BOOLEAN]
    /\ removals \in [Conns -> Nat]
    /\ aborted \in BOOLEAN

\* TcpServer::start has run on the base loop thread before loop(): the
\* Acceptor listens, every loop is in epoll_wait, nothing is connected.
Init ==
    /\ lpc = [l \in Loops |-> "poll"]
    /\ pending = [l \in Loops |-> <<>>]
    /\ batch = [l \in Loops |-> <<>>]
    /\ bnext = [l \in Loops |-> 1]
    /\ calling = [l \in Loops |-> FALSE]
    /\ wakeupCnt = [l \in Loops |-> 0]
    /\ active = [l \in Loops |-> {}]
    /\ cur = [l \in Loops |-> 0]
    /\ rev = [l \in Loops |-> {}]
    /\ tc = [c \in Conns |-> Unborn]
    /\ loopOf = [c \in Conns |-> Base]
    /\ inMap = [c \in Conns |-> FALSE]
    /\ nextConn = 1
    /\ rrNext = 1
    /\ backlog = 0
    /\ requests = 0
    /\ sends = 0
    /\ upc = [u \in Users |-> [op |-> "idle", conn |-> 0]]
    /\ userHold = [c \in Conns |-> FALSE]
    /\ removals = [c \in Conns |-> 0]
    /\ aborted = FALSE

-----------------------------------------------------------------------------
(* The loop threads: epoll_wait and dispatch.                            *)

\* The channels of loop l that epoll_wait reports, with their revents.
Ready(l) ==
    {[ch |-> "wakeup", conn |-> 0, rev |-> {"in"}] : x \in {y \in {l} : wakeupCnt[y] > 0}}
    \cup {[ch |-> "accept", conn |-> 0, rev |-> {"in"}] : x \in {y \in {l} : y = Base /\ backlog > 0}}
    \cup {[ch |-> "conn", conn |-> c, rev |-> Revents(tc[c])] :
            c \in {d \in Conns : loopOf[d] = l /\ Revents(tc[d]) # {}}}

\* EPollPoller::poll: epoll_wait returns and fillActiveChannels.
Poll(l) ==
    /\ lpc[l] = "poll"
    /\ Ready(l) # {}
    /\ active' = [active EXCEPT ![l] = Ready(l)]
    /\ lpc' = [lpc EXCEPT ![l] = "dispatch"]
    /\ UNCHANGED <<pending, batch, bnext, calling, wakeupCnt, cur, rev, tc,
                   loopOf, inMap, nextConn, rrNext, backlog, requests, sends,
                   upc, userHold, removals>>

\* The wakeup channel: EventLoop::handleRead drains the eventfd.
HandleWakeup(l) ==
    /\ lpc[l] = "dispatch" /\ cur[l] = 0
    /\ \E e \in active[l] :
          /\ e.ch = "wakeup"
          /\ active' = [active EXCEPT ![l] = @ \ {e}]
    /\ wakeupCnt' = [wakeupCnt EXCEPT ![l] = 0]
    /\ UNCHANGED <<lpc, pending, batch, bnext, calling, cur, rev, tc, loopOf,
                   inMap, nextConn, rrNext, backlog, requests, sends, upc,
                   userHold, removals>>

\* Acceptor::handleRead: one accept4 per readiness report takes a completed
\* connection from the listen queue (connfd >= 0) and hands it to
\* newConnectionCallback_.  accept4 failing (EMFILE) is not modelled.
AcceptConnection == backlog > 0 /\ backlog' = backlog - 1

\* Acceptor::handleRead -> TcpServer::newConnection: pick the next loop,
\* name the connection, put it in connections_, and runInLoop its
\* connectEstablished on its loop (at once when that is the base loop, in
\* which case the connection callback hands the user its handle).
HandleAccept(l) ==
    /\ lpc[l] = "dispatch" /\ cur[l] = 0
    /\ \E e \in active[l] :
          /\ e.ch = "accept"
          /\ active' = [active EXCEPT ![l] = @ \ {e}]
    /\ AcceptConnection
    /\ LET c == nextConn
           io == NextLoop
           born == [Unborn EXCEPT !.state = "Connecting"]
       IN /\ nextConn' = nextConn + 1
          /\ rrNext' = AdvanceRR
          /\ loopOf' = [loopOf EXCEPT ![c] = io]
          /\ inMap' = [inMap EXCEPT ![c] = TRUE]
          /\ IF io = l
             THEN /\ tc' = [tc EXCEPT ![c] = ConnectEstablished(born)]
                  /\ userHold' = [userHold EXCEPT ![c] = Users # {}]
                  /\ UNCHANGED <<pending, wakeupCnt>>
             ELSE /\ tc' = [tc EXCEPT ![c] = born]
                  /\ Pushes(l, <<io>>, <<Functor("connectEstablished", c, TRUE, 0)>>)
                  /\ UNCHANGED userHold
    /\ UNCHANGED <<lpc, batch, bnext, calling, cur, rev, requests, sends, upc,
                   removals>>

\* Channel::handleEvent on a connection channel: the tie is locked and,
\* when the connection is gone, nothing is dispatched.
HandleConnEvent(l) ==
    /\ lpc[l] = "dispatch" /\ cur[l] = 0
    /\ \E e \in active[l] :
          /\ e.ch = "conn"
          /\ active' = [active EXCEPT ![l] = @ \ {e}]
          /\ IF Freed(e.conn)
             THEN UNCHANGED <<cur, rev>>
             ELSE /\ cur' = [cur EXCEPT ![l] = e.conn]
                  /\ rev' = [rev EXCEPT ![l] = e.rev]
    /\ UNCHANGED <<lpc, pending, batch, bnext, calling, wakeupCnt, tc, loopOf,
                   inMap, nextConn, rrNext, backlog, requests, sends, upc,
                   userHold, removals>>

\* Leave flag `flag` of the current event handled.
Handled(l, flag) ==
    /\ rev' = [rev EXCEPT ![l] = @ \ {flag}]
    /\ cur' = [cur EXCEPT ![l] = IF rev[l] \ {flag} = {} THEN 0 ELSE @]

\* Mutant: connectDestroyed bound to the raw pointer instead of conn.
DestroyFunctorRaw(c) == Functor("connectDestroyed", c, FALSE, 0)

\* The functor removeConnectionInLoop queues on the connection's loop, bound
\* to the shared pointer.
DestroyFunctor(c) == Functor("connectDestroyed", c, TRUE, 0)

\* TcpServer::removeConnectionInLoop on the base loop: erase from
\* connections_ and queueInLoop connectDestroyed on the connection's loop.
RemoveConnectionInLoop(l, c) ==
    /\ inMap' = [inMap EXCEPT ![c] = FALSE]
    /\ removals' = [removals EXCEPT ![c] = @ + 1]
    /\ Pushes(l, <<loopOf[c]>>, <<DestroyFunctor(c)>>)

\* Mutant: handleClose of a connection whose closeCallback_ newConnection
\* never set: nothing asks the server to remove it.
HandleCloseNoCallback(l, c, r) ==
    /\ tc' = [tc EXCEPT ![c] = CloseChannel(r)]
    /\ UNCHANGED <<pending, wakeupCnt, inMap, removals>>

\* handleClose from the record r it finds: kDisconnected, disableAll, the
\* connection callback, then the close callback TcpServer::removeConnection,
\* which runInLoop's removeConnectionInLoop on the base loop: at once when
\* this is the base loop (erase, then queueInLoop connectDestroyed), or
\* queued there.
HandleClose(l, c, r) ==
    /\ tc' = [tc EXCEPT ![c] = CloseChannel(r)]
    /\ IF l = Base
       THEN RemoveConnectionInLoop(l, c)
       ELSE /\ Pushes(l, <<Base>>, <<Functor("removeConnectionInLoop", c, TRUE, 0)>>)
            /\ UNCHANGED <<inMap, removals>>

\* handleEventWithGuard, EPOLLHUP: handleClose when EPOLLIN is not also
\* reported (with it, the read that returns 0 closes instead).
ConnHup(l) ==
    /\ lpc[l] = "dispatch" /\ cur[l] # 0
    /\ "hup" \in rev[l]
    /\ IF "in" \notin rev[l]
       THEN HandleClose(l, cur[l], tc[cur[l]])
       ELSE UNCHANGED <<tc, pending, wakeupCnt, inMap, removals>>
    /\ Handled(l, "hup")
    /\ UNCHANGED <<lpc, batch, bnext, calling, active, loopOf, nextConn,
                   rrNext, backlog, requests, sends, upc, userHold>>

\* handleEventWithGuard, EPOLLERR: handleError reads SO_ERROR, clearing it.
ConnError(l) ==
    /\ lpc[l] = "dispatch" /\ cur[l] # 0
    /\ "hup" \notin rev[l] /\ "err" \in rev[l]
    /\ tc' = [tc EXCEPT ![cur[l]].err = FALSE]
    /\ Handled(l, "err")
    /\ UNCHANGED <<lpc, pending, batch, bnext, calling, wakeupCnt, active,
                   loopOf, inMap, nextConn, rrNext, backlog, requests, sends,
                   upc, userHold, removals>>

\* send() on the loop thread of a kConnected connection: sendInLoop now.
SendOnLoop(r) == SendInLoop([r EXCEPT !.accepted = @ + MsgLen], MsgLen)

\* HttpServer::onMessage -> onRequest on a parsed request (or the 400
\* reply to a bad one): send(&buf) the response, then shutdown() when it
\* closes the connection (Connection: close, HTTP/1.0, the 404 default).
OnRequest(r, close) ==
    IF close THEN ShutdownOnLoop(SendOnLoop(r)) ELSE SendOnLoop(r)

\* What the write-complete callback queues.
CompleteFunctor(c) == Functor("writeComplete", c, TRUE, 0)

\* handleEventWithGuard, EPOLLIN|EPOLLPRI: handleRead.  readv returns the
\* pending socket error (handleError), data (the message callback, which
\* as in HttpServer::onMessage may send a reply and then shutdown()), 0
\* at end of stream (handleClose).  EAGAIN (handleError, logged) cannot
\* follow a readable report here: only this thread reads the socket.
ConnRead(l) ==
    /\ lpc[l] = "dispatch" /\ cur[l] # 0
    /\ rev[l] \cap {"hup", "err"} = {} /\ "in" \in rev[l]
    /\ LET c == cur[l]
           r == tc[c]
           rr == [r EXCEPT !.inData = FALSE]
       IN \/ /\ r.err
             /\ tc' = [tc EXCEPT ![c].err = FALSE]
             /\ UNCHANGED <<pending, wakeupCnt, inMap, removals, sends>>
          \/ /\ ~r.err /\ r.inData
             /\ \/ /\ tc' = [tc EXCEPT ![c] = rr]
                   /\ UNCHANGED <<pending, wakeupCnt, sends>>
                \/ /\ rr.state = "Connected" /\ sends < MaxSends
                   /\ sends' = sends + 1
                   /\ \E closeAfter \in BOOLEAN :
                         tc' = [tc EXCEPT ![c] = OnRequest(rr, closeAfter)]
                   /\ IF SendCompletes(rr, MsgLen)
                      THEN Pushes(l, <<l>>, <<CompleteFunctor(c)>>)
                      ELSE UNCHANGED <<pending, wakeupCnt>>
             /\ UNCHANGED <<inMap, removals>>
          \/ /\ ~r.err /\ ~r.inData /\ r.peer # "open"
             /\ HandleClose(l, c, r)
             /\ UNCHANGED sends
    /\ Handled(l, "in")
    /\ UNCHANGED <<lpc, batch, bnext, calling, active, loopOf, nextConn,
                   rrNext, backlog, requests, upc, userHold>>

\* handleEventWithGuard, EPOLLOUT: handleWrite.
ConnWrite(l) ==
    /\ lpc[l] = "dispatch" /\ cur[l] # 0
    /\ rev[l] \cap {"hup", "err", "in"} = {} /\ "out" \in rev[l]
    /\ LET c == cur[l] IN
       /\ tc' = [tc EXCEPT ![c] = HandleWrite(tc[c])]
       /\ IF HandleWriteCompletes(tc[c])
          THEN Pushes(l, <<l>>, <<CompleteFunctor(c)>>)
          ELSE UNCHANGED <<pending, wakeupCnt>>
    /\ Handled(l, "out")
    /\ UNCHANGED <<lpc, batch, bnext, calling, active, loopOf, inMap, nextConn,
                   rrNext, backlog, requests, sends, upc, userHold, removals>>

-----------------------------------------------------------------------------
(* The loop threads: doPendingFunctors.                                  *)

\* Every active channel handled: callingPendingFunctors_ = true and swap.
SwapPendingFunctors(l) ==
    /\ lpc[l] = "dispatch" /\ cur[l] = 0 /\ active[l] = {}
    /\ calling' = [calling EXCEPT ![l] = TRUE]
    /\ batch' = [batch EXCEPT ![l] = pending[l]]
    /\ pending' = [pending EXCEPT ![l] = <<>>]
    /\ bnext' = [bnext EXCEPT ![l] = 1]
    /\ lpc' = [lpc EXCEPT ![l] = "functors"]
    /\ UNCHANGED <<wakeupCnt, active, cur, rev, tc, loopOf, inMap, nextConn,
                   rrNext, backlog, requests, sends, upc, userHold, removals>>

\* Call the next functor of the swapped vector.
CallFunctor(l) ==
    /\ lpc[l] = "functors"
    /\ bnext[l] <= Len(batch[l])
    /\ bnext' = [bnext EXCEPT ![l] = @ + 1]
    /\ LET f == batch[l][bnext[l]]
           c == f.conn
           r == tc[c]
       IN CASE f.op = "connectEstablished" ->
                 /\ tc' = [tc EXCEPT ![c] = ConnectEstablished(r)]
                 /\ userHold' = [userHold EXCEPT ![c] = Users # {}]
                 /\ UNCHANGED <<pending, wakeupCnt, inMap, removals>>
            [] f.op = "sendInLoop" ->
                 /\ tc' = [tc EXCEPT ![c] = SendInLoop(r, f.len)]
                 /\ IF SendCompletes(r, f.len)
                    THEN Pushes(l, <<l>>, <<CompleteFunctor(c)>>)
                    ELSE UNCHANGED <<pending, wakeupCnt>>
                 /\ UNCHANGED <<inMap, removals, userHold>>
            [] f.op = "shutdownInLoop" ->
                 /\ tc' = [tc EXCEPT ![c] = ShutdownInLoop(r)]
                 /\ UNCHANGED <<pending, wakeupCnt, inMap, removals, userHold>>
            [] f.op = "removeConnectionInLoop" ->
                 /\ RemoveConnectionInLoop(l, c)
                 /\ UNCHANGED <<tc, userHold>>
            [] f.op = "connectDestroyed" ->
                 /\ RemoveAllowed(DestroyClose(r))
                 /\ tc' = [tc EXCEPT ![c] = ConnectDestroyed(r)]
                 /\ UNCHANGED <<pending, wakeupCnt, inMap, removals, userHold>>
            [] f.op = "writeComplete" ->
                 \* the application may shutdown() once its reply is out
                 /\ \E closeNow \in BOOLEAN :
                       tc' = [tc EXCEPT ![c] = IF closeNow THEN ShutdownOnLoop(r) ELSE r]
                 /\ UNCHANGED <<pending, wakeupCnt, inMap, removals, userHold>>
    /\ UNCHANGED <<lpc, batch, calling, active, cur, rev, loopOf, nextConn,
                   rrNext, backlog, requests, sends, upc>>

\* The next functor is connectDestroyed and its channel_->remove() finds
\* an interest mask the close path did not clear: the assert fails and
\* the process aborts.
RemoveAbort(l) ==
    /\ lpc[l] = "functors"
    /\ bnext[l] <= Len(batch[l])
    /\ batch[l][bnext[l]].op = "connectDestroyed"
    /\ ~RemoveAllowed(DestroyClose(tc[batch[l][bnext[l]].conn]))
    /\ aborted' = TRUE
    /\ UNCHANGED <<lpc, pending, batch, bnext, calling, wakeupCnt, active, cur,
                   rev, tc, loopOf, inMap, nextConn, rrNext, backlog, requests,
                   sends, upc, userHold, removals>>

\* The vector is done: callingPendingFunctors_ = false, the vector and the
\* pointers its functors hold are released; back to epoll_wait.
FinishFunctors(l) ==
    /\ lpc[l] = "functors"
    /\ bnext[l] > Len(batch[l])
    /\ calling' = [calling EXCEPT ![l] = FALSE]
    /\ batch' = [batch EXCEPT ![l] = <<>>]
    /\ bnext' = [bnext EXCEPT ![l] = 1]
    /\ lpc' = [lpc EXCEPT ![l] = "poll"]
    /\ UNCHANGED <<pending, wakeupCnt, active, cur, rev, tc, loopOf, inMap,
                   nextConn, rrNext, backlog, requests, sends, upc, userHold,
                   removals>>

-----------------------------------------------------------------------------
(* The user thread: send() and shutdown() off the loop thread.           *)

Idle == [op |-> "idle", conn |-> 0]

\* send(): the test state_ == kConnected passes.
UserSend(u, c) ==
    /\ upc[u] = Idle /\ userHold[c]
    /\ sends < MaxSends
    /\ tc[c].state = "Connected"
    /\ upc' = [upc EXCEPT ![u] = [op |-> "send", conn |-> c]]
    /\ sends' = sends + 1
    /\ UNCHANGED <<lpc, pending, batch, bnext, calling, wakeupCnt, active, cur,
                   rev, tc, loopOf, inMap, nextConn, rrNext, backlog, requests,
                   userHold, removals>>

\* shutdown(): the test state_ == kConnected passes.
UserShutdown(u, c) ==
    /\ upc[u] = Idle /\ userHold[c]
    /\ tc[c].state = "Connected"
    /\ upc' = [upc EXCEPT ![u] = [op |-> "shutdown", conn |-> c]]
    /\ UNCHANGED <<lpc, pending, batch, bnext, calling, wakeupCnt, active, cur,
                   rev, tc, loopOf, inMap, nextConn, rrNext, backlog, requests,
                   sends, userHold, removals>>

\* The rest of the call: send() runInLoop's sendInLoop bound to `this`;
\* shutdown() sets kDisconnecting and runInLoop's shutdownInLoop bound to
\* `this`.  Off the loop thread both are queueInLoop, which wakes the loop.
UserFinish(u) ==
    /\ upc[u] # Idle
    /\ LET c == upc[u].conn IN
       IF upc[u].op = "send"
       THEN /\ tc' = [tc EXCEPT ![c].accepted = @ + MsgLen]
            /\ Pushes(u, <<loopOf[c]>>, <<Functor("sendInLoop", c, FALSE, MsgLen)>>)
       ELSE /\ tc' = [tc EXCEPT ![c].state = "Disconnecting"]
            /\ Pushes(u, <<loopOf[c]>>, <<Functor("shutdownInLoop", c, FALSE, 0)>>)
    /\ upc' = [upc EXCEPT ![u] = Idle]
    /\ UNCHANGED <<lpc, batch, bnext, calling, active, cur, rev, loopOf, inMap,
                   nextConn, rrNext, backlog, requests, sends, userHold, removals>>

\* The user lets go of its TcpConnectionPtr.
UserDrop(u, c) ==
    /\ upc[u] = Idle /\ userHold[c]
    /\ userHold' = [userHold EXCEPT ![c] = FALSE]
    /\ UNCHANGED <<lpc, pending, batch, bnext, calling, wakeupCnt, active, cur,
                   rev, tc, loopOf, inMap, nextConn, rrNext, backlog, requests,
                   sends, upc, removals>>

-----------------------------------------------------------------------------
(* The peers and the kernel.                                             *)

Live(c) == tc[c].state # "Unborn" /\ ~Freed(c)

envVars == <<lpc, pending, batch, bnext, calling, wakeupCnt, active, cur, rev,
             loopOf, inMap, nextConn, rrNext, sends, upc, userHold, removals>>

\* A client completes the handshake; the connection waits in the backlog.
PeerConnect ==
    /\ nextConn - 1 + backlog < MaxConns
    /\ backlog' = backlog + 1
    /\ UNCHANGED <<tc, requests>> /\ UNCHANGED envVars

\* The peer sends a request.
PeerSend(c) ==
    /\ Live(c) /\ tc[c].peer = "open" /\ ~tc[c].inData
    /\ requests < MaxRequests
    /\ tc' = [tc EXCEPT ![c].inData = TRUE]
    /\ requests' = requests + 1
    /\ UNCHANGED backlog /\ UNCHANGED envVars

\* The peer closes its side (FIN): reads return 0 once data is consumed.
PeerClose(c) ==
    /\ Live(c) /\ tc[c].peer = "open"
    /\ tc' = [tc EXCEPT ![c].peer = "fin"]
    /\ UNCHANGED <<backlog, requests>> /\ UNCHANGED envVars

\* The peer resets the connection (RST): a pending socket error, unread
\* data discarded, writes fail.
PeerReset(c) ==
    /\ MayReset
    /\ Live(c) /\ tc[c].peer # "rst"
    /\ tc' = [tc EXCEPT ![c].peer = "rst", ![c].err = TRUE, ![c].inData = FALSE]
    /\ UNCHANGED <<backlog, requests>> /\ UNCHANGED envVars

\* The peer reads, freeing a byte of the kernel send buffer.
PeerDrain(c) ==
    /\ Live(c) /\ tc[c].peer # "rst" /\ tc[c].space < SockBuf
    /\ tc' = [tc EXCEPT ![c].space = @ + 1]
    /\ UNCHANGED <<backlog, requests>> /\ UNCHANGED envVars

-----------------------------------------------------------------------------
LoopStep(l) ==
    /\ ~aborted
    /\ \/ /\ \/ Poll(l)
             \/ HandleWakeup(l)
             \/ HandleAccept(l)
             \/ HandleConnEvent(l)
             \/ ConnHup(l)
             \/ ConnError(l)
             \/ ConnRead(l)
             \/ ConnWrite(l)
             \/ SwapPendingFunctors(l)
             \/ CallFunctor(l)
             \/ FinishFunctors(l)
          /\ UNCHANGED aborted
       \/ RemoveAbort(l)

\* Every loop sleeps in epoll_wait with nothing ready and no user call is
\* under way: the server is idle, waiting for its clients.
Quiet ==
    /\ \A l \in Loops : lpc[l] = "poll" /\ Ready(l) = {}
    /\ \A u \in Users : upc[u] = Idle
    /\ UNCHANGED vars

\* The user threads, the peers and the kernel, while the process lives.
Environment ==
    \/ \E u \in Users : UserFinish(u)
    \/ \E u \in Users, c \in Conns : UserSend(u, c) \/ UserShutdown(u, c) \/ UserDrop(u, c)
    \/ PeerConnect
    \/ \E c \in Conns : PeerSend(c) \/ PeerClose(c) \/ PeerReset(c) \/ PeerDrain(c)
    \/ Quiet

\* After an abort nothing moves.
Aborted == aborted /\ UNCHANGED vars

Next ==
    \/ \E l \in Loops : LoopStep(l)
    \/ ~aborted /\ Environment /\ UNCHANGED aborted
    \/ Aborted

\* Loop threads run whenever they are not blocked in epoll_wait, and a user
\* thread inside send() or shutdown() returns from it.  Peers and users
\* owe nothing.
Fairness ==
    /\ \A l \in Loops : WF_vars(LoopStep(l))
    /\ \A u \in Users : WF_vars(~aborted /\ UserFinish(u) /\ UNCHANGED aborted)

Spec == Init /\ [][Next]_vars /\ Fairness

-----------------------------------------------------------------------------
(* Properties.                                                           *)

\* connectDestroyed calls Channel::remove only once the close path has
\* cleared the channel's interest mask: remove()'s assert(isNoneEvent())
\* never fires and the process is never aborted by it.
ChannelRemovedWithoutInterest == ~aborted

\* The lifetime handshake of connectDestroyed and Channel::~Channel: a
\* connection object is destroyed only after its Channel has left both the
\* poller's channels_ map and the epoll interest list, so no later
\* epoll_wait or hasChannel can reach a dead Channel.
ChannelUnregisteredBeforeFree ==
    \A c \in Conns : Freed(c) => ~tc[c].mapped /\ ~tc[c].epoll

\* No functor, and no entry of activeChannels_, refers to a destroyed
\* connection: everything queued with a connection (bound to its shared
\* pointer or to `this`) runs while it is alive.
NoFunctorOnFreedConnection ==
    \A c \in Conns : Freed(c) =>
        \A l \in Loops :
            /\ \A f \in Queued(l) \cup Unrun(l) : f.conn # c
            /\ \A e \in active[l] : e.conn # c

\* shutdown() is a graceful half-close: when the write side is shut
\* (shutdownInLoop, directly or from handleWrite), every byte send()
\* accepted has been handed to the kernel, unless the peer reset the
\* connection.
ShutdownFlushesOutput ==
    \A c \in Conns :
        (tc[c].wrShut /\ tc[c].peer # "rst") => tc[c].written = tc[c].accepted

\* TcpServer's connections_ follows the lifecycle: a connection is in the
\* map from newConnection until its one removeConnectionInLoop, and it is
\* removed only once it is kDisconnected.
MapMatchesLifecycle ==
    \A c \in Conns : tc[c].state # "Unborn" =>
        /\ inMap[c] <=> removals[c] = 0
        /\ removals[c] <= 1
        /\ removals[c] = 1 => tc[c].state = "Disconnected"

\* A connection's state only moves forward along
\* kConnecting -> kConnected -> (kDisconnecting ->) kDisconnected.
StateMonotonic ==
    [][\A c \in Conns : Rank[tc'[c].state] >= Rank[tc[c].state]]_tc

\* Once its peer has closed or reset it, every connection is eventually
\* taken out of connections_ (removeConnectionInLoop), its Channel is
\* removed from the poller (connectDestroyed), and the object is destroyed
\* unless the user still holds a handle to it.
ClosedConnectionsReclaimed ==
    \A c \in Conns :
        tc[c].peer # "open"
            ~> (removals[c] = 1 /\ ~tc[c].mapped /\ (Freed(c) \/ userHold[c]))

\* Every accepted connection is eventually established on its loop.
AcceptedConnectionsEstablished ==
    \A c \in Conns : (tc[c].state = "Connecting") ~> (tc[c].state # "Connecting")
=============================================================================
