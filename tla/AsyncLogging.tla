---------------------------- MODULE AsyncLogging ----------------------------
(***************************************************************************)
(* log/AsyncLogging: front-end threads append log lines to currentBuffer_ *)
(* under mutex_; a full buffer moves to buffers_ and nextBuffer_ (or a    *)
(* new buffer) takes its place.  The back-end thread (threadFunc) wakes   *)
(* on notify or after flushInterval_, swaps buffers_ and currentBuffer_   *)
(* out under the mutex, writes them to the LogFile outside it, and keeps  *)
(* two of the written buffers, emptied, as its spares.                    *)
(*                                                                         *)
(* The LogFile threadFunc writes to is modelled too: FileUtil's stdio     *)
(* buffer (fwrite passes some prefix of what it holds to the kernel),     *)
(* the roll when writtenBytes() passes rollSize_ or the day changes, and  *)
(* the flushes.  ::time(NULL) is seen only through the comparisons        *)
(* LogFile makes with it: now > lastRoll_, now - lastFlush_ >             *)
(* flushInterval_ (0: threadFunc passes `false`), and a new day.  The     *)
(* lines of the files closed by a roll are kept as one sequence.          *)
(*                                                                         *)
(* A FixedBuffer is the sequence of lines in it; a null unique_ptr is     *)
(* NoBuf.  Lines are numbered 1, 2, ... in the order they got the mutex,  *)
(* and have one unit of length; a buffer has Cap units of room.  mutex_  *)
(* is not a variable: each of its critical sections is a single step.   *)
(***************************************************************************)
EXTENDS Naturals, Sequences, SequencesExt

CONSTANTS
    Cap,        \* FixedBuffer<kLargeBuffer> size, in line lengths
    MaxLines,   \* lines appended in a behaviour
    RollSize,   \* rollSize_, in line lengths
    CheckEveryN,\* LogFile's checkEveryN_ (1024 by default)
    NoBuf       \* a null BufferPtr

VARIABLES
    running,    \* running_ (std::atomic<bool>)
    cur,        \* currentBuffer_
    next,       \* nextBuffer_
    bufs,       \* buffers_: full buffers waiting for the back end
    pc,         \* the back end: "top", "lock", "wait", "relock", "write",
                \* "done"
    nb1, nb2,   \* newBuffer1, newBuffer2 (the back end's spares)
    toWrite,    \* buffersToWrite
    wi,         \* the index of the next buffer of buffersToWrite to write
    lf,         \* the LogFile `output`: see LogFileState
    appended,   \* number of lines appended so far
    stopper     \* the thread in stop(): "idle", "joining", "returned";
                \* atStop is how many lines were appended when it began

vars == <<running, cur, next, bufs, pc, nb1, nb2, toWrite, wi, lf,
          appended, stopper>>

Lines == 1..MaxLines

\* A FixedBuffer: never filled to its last unit (append needs avail() > len).
Buf == {b \in Seq(Lines) : Len(b) < Cap}

\* FixedBuffer::avail().
Avail(b) == Cap - Len(b)

\* Mutant: the line goes in when it exactly fills the buffer.
FitsOrFull(b) == Avail(b) >= 1

\* append's test: currentBuffer_->avail() > len.
Fits(b) == Avail(b) > 1

\* closed: the lines of the files rolled away (fclose flushed them);
\* disk and stdio: the current file's lines in the kernel and in its
\* stdio buffer; written: writtenBytes(); count: count_; rollDue:
\* now > lastRoll_; flushDue: now - lastFlush_ > flushInterval_;
\* dayDue: now / kRollPerSeconds_ differs from startOfPeriod_.
LogFileState ==
    [closed : Seq(Lines), disk : Seq(Lines), stdio : Seq(Lines),
     written : 0..MaxLines, count : 0..CheckEveryN,
     rollDue : BOOLEAN, flushDue : BOOLEAN, dayDue : BOOLEAN]

TypeOK ==
    /\ running \in BOOLEAN
    /\ cur \in Buf /\ next \in Buf \cup {NoBuf}
    /\ \A i \in DOMAIN bufs : bufs[i] \in Buf
    /\ pc \in {"top", "lock", "wait", "relock", "write", "done"}
    /\ nb1 \in Buf \cup {NoBuf} /\ nb2 \in Buf \cup {NoBuf}
    /\ \A i \in DOMAIN toWrite : toWrite[i] \in Buf
    /\ wi \in 1..(Len(toWrite) + 1)
    /\ lf \in LogFileState
    /\ lf.dayDue => lf.rollDue
    /\ appended \in 0..MaxLines
    /\ stopper \in [phase : {"idle", "joining", "returned"}, atStop : 0..MaxLines]

\* LogFile(basename, rollSize, false, checkEveryN): count_ 0, then
\* rollFile() opens a new, empty file and sets lastRoll_ to now, so no
\* other roll is due this second.
NewLogFile ==
    [closed |-> <<>>, disk |-> <<>>, stdio |-> <<>>, written |-> 0,
     count |-> 0, rollDue |-> FALSE, flushDue |-> FALSE, dayDue |-> FALSE]

\* The constructor and start(): two empty buffers, running_ = true, and
\* threadFunc's LogFile and two empty spares.
Init ==
    /\ running = TRUE
    /\ cur = <<>> /\ next = <<>> /\ bufs = <<>>
    /\ pc = "top" /\ nb1 = <<>> /\ nb2 = <<>> /\ toWrite = <<>> /\ wi = 1
    /\ lf = NewLogFile
    /\ appended = 0
    /\ stopper = [phase |-> "idle", atStop |-> 0]

-----------------------------------------------------------------------------
(* Front ends.                                                           *)

\* FixedBuffer::append: copies only when avail() > len.
Put(b, l) == IF Avail(b) > 1 THEN Append(b, l) ELSE b

\* Mutant: the full currentBuffer_ is replaced without going to buffers_.
AppendLineNoPush ==
    /\ appended < MaxLines
    /\ LET l == appended + 1 IN
       IF Avail(cur) > 1
       THEN /\ cur' = Append(cur, l)
            /\ UNCHANGED <<bufs, next, pc>>
       ELSE /\ cur' = Put(IF next # NoBuf THEN next ELSE <<>>, l)
            /\ next' = NoBuf
            /\ pc' = IF pc = "wait" THEN "relock" ELSE pc
            /\ UNCHANGED bufs
    /\ appended' = appended + 1
    /\ UNCHANGED <<running, nb1, nb2, toWrite, wi, lf, stopper>>

\* append(logline, len) under the lock_guard: into currentBuffer_ when
\* avail() > len; otherwise currentBuffer_ goes to buffers_, nextBuffer_
\* (or a new Buffer) becomes current, the line goes in, and notify_one
\* wakes the back end if it waits.
AppendLine ==
    /\ appended < MaxLines
    /\ LET l == appended + 1 IN
       IF Fits(cur)
       THEN /\ cur' = Append(cur, l)
            /\ UNCHANGED <<bufs, next, pc>>
       ELSE /\ bufs' = Append(bufs, cur)
            /\ cur' = Put(IF next # NoBuf THEN next ELSE <<>>, l)
            /\ next' = NoBuf
            /\ pc' = IF pc = "wait" THEN "relock" ELSE pc
    /\ appended' = appended + 1
    /\ UNCHANGED <<running, nb1, nb2, toWrite, wi, lf, stopper>>

\* stop(): running_ = false and notify_one (without the mutex), then
\* thread_.join().
Stop ==
    /\ stopper.phase = "idle"
    /\ running' = FALSE
    /\ pc' = IF pc = "wait" THEN "relock" ELSE pc
    /\ stopper' = [phase |-> "joining", atStop |-> appended]
    /\ UNCHANGED <<cur, next, bufs, nb1, nb2, toWrite, wi, lf, appended>>

\* join() returns once threadFunc has.
Join ==
    /\ stopper.phase = "joining" /\ pc = "done"
    /\ stopper' = [stopper EXCEPT !.phase = "returned"]
    /\ UNCHANGED <<running, cur, next, bufs, pc, nb1, nb2, toWrite, wi, lf, appended>>

-----------------------------------------------------------------------------
(* The LogFile `output` and its FileUtil, on the back-end thread.        *)

\* FileUtil::flush(): fflush moves the stdio buffer to the kernel.
Flushed(f) == [f EXCEPT !.disk = @ \o f.stdio, !.stdio = <<>>]

\* rollFile(): when now > lastRoll_, lastRoll_, lastFlush_ and
\* startOfPeriod_ take now and file_.reset(new FileUtil): the old file is
\* fclosed (flushed) and an empty one opened.  Otherwise nothing.
RollFile(f) ==
    IF f.rollDue
    THEN [f EXCEPT !.closed = @ \o f.disk \o f.stdio, !.disk = <<>>,
                   !.stdio = <<>>, !.written = 0, !.rollDue = FALSE,
                   !.flushDue = FALSE, !.dayDue = FALSE]
    ELSE f

\* FileUtil::append(data, len): fwrite_unlocked into the stdio buffer,
\* which passes any prefix of what it holds to the kernel; writtenBytes_
\* grows by len.
FileAppends(f, data) ==
    LET all == f.stdio \o data IN
    { [f EXCEPT !.disk = @ \o SubSeq(all, 1, k), !.stdio = SubSeq(all, k + 1, Len(all)),
                !.written = @ + Len(data)] : k \in 0..Len(all) }

\* After file_->append: roll when writtenBytes() > rollSize_; otherwise
\* ++count_, and every checkEveryN_ appends roll on a new day, or flush
\* when flushInterval_ has passed since lastFlush_.
AfterAppend(g) ==
    IF g.written > RollSize THEN RollFile(g)
    ELSE IF g.count + 1 < CheckEveryN THEN [g EXCEPT !.count = @ + 1]
    ELSE IF g.dayDue THEN RollFile([g EXCEPT !.count = 0])
    ELSE IF g.flushDue THEN [Flushed(g) EXCEPT !.count = 0, !.flushDue = FALSE]
    ELSE [g EXCEPT !.count = 0]

\* LogFile::append(data, len): appendInLock under the LogFile's mutex.
AppendInLock(f, data) == {AfterAppend(g) : g \in FileAppends(f, data)}

\* Time passes: now moves past lastRoll_ and lastFlush_, and may reach a
\* new day.
Tick ==
    /\ lf' \in {[lf EXCEPT !.rollDue = TRUE, !.flushDue = TRUE, !.dayDue = d] :
                 d \in {lf.dayDue, TRUE}}
    /\ lf' # lf
    /\ UNCHANGED <<running, cur, next, bufs, pc, nb1, nb2, toWrite, wi, appended, stopper>>

-----------------------------------------------------------------------------
(* The back end, threadFunc.  Front ends take mutex_ only for one append, *)
(* so the back end's locked block is one step.                           *)

\* while (running_); after the loop, output.flush() and return (the
\* LogFile's destructor then fcloses a flushed file).
Top ==
    /\ pc = "top"
    /\ IF running THEN pc' = "lock" /\ UNCHANGED lf
                   ELSE pc' = "done" /\ lf' = Flushed(lf)
    /\ UNCHANGED <<running, cur, next, bufs, nb1, nb2, toWrite, wi, appended, stopper>>

\* Holding the mutex: currentBuffer_ joins buffers_, newBuffer1 becomes
\* current, buffers_ is swapped into buffersToWrite, and newBuffer2
\* refills nextBuffer_ if a front end used it.  The block ends; unlock.
SwapInLock ==
    /\ toWrite' = Append(bufs, cur)
    /\ bufs' = <<>>
    /\ cur' = nb1 /\ nb1' = NoBuf
    /\ IF next = NoBuf THEN next' = nb2 /\ nb2' = NoBuf ELSE UNCHANGED <<next, nb2>>
    /\ pc' = "write"

\* unique_lock; if buffers_ is empty, cond_.wait_for(flushInterval_),
\* which releases the mutex; otherwise the swap.
Lock ==
    /\ pc = "lock"
    /\ IF bufs = <<>>
       THEN pc' = "wait" /\ UNCHANGED <<cur, next, bufs, nb1, nb2, toWrite>>
       ELSE SwapInLock
    /\ UNCHANGED <<running, wi, lf, appended, stopper>>

\* Mutant: while (buffers_.empty()) wait_for(...): after a timeout with
\* nothing full, the back end waits again.
TimeoutRewait ==
    /\ pc = "wait"
    /\ pc' = IF bufs = <<>> THEN "wait" ELSE "relock"
    /\ UNCHANGED <<running, cur, next, bufs, nb1, nb2, toWrite, wi, lf, appended, stopper>>

\* wait_for returns after flushInterval_ without a notify.
Timeout ==
    /\ pc = "wait"
    /\ pc' = "relock"
    /\ UNCHANGED <<running, cur, next, bufs, nb1, nb2, toWrite, wi, lf, appended, stopper>>

\* wait_for re-acquires the mutex and returns; the swap follows whether
\* or not buffers_ is still empty (an if, not a while).
Relock ==
    /\ pc = "relock"
    /\ SwapInLock
    /\ UNCHANGED <<running, wi, lf, appended, stopper>>

\* output.append(buffersToWrite[i]->data(), length()) for the next i.
Write ==
    /\ pc = "write"
    /\ wi <= Len(toWrite)
    /\ lf' \in AppendInLock(lf, toWrite[wi])
    /\ wi' = wi + 1
    /\ UNCHANGED <<running, cur, next, bufs, pc, nb1, nb2, toWrite, appended, stopper>>

\* FixedBuffer::reset(): cur_ back to data_.
Emptied(b) == <<>>

\* Mutant: resize(1).
KeptOne(tw) == SubSeq(tw, 1, IF Len(tw) > 1 THEN 1 ELSE Len(tw))

\* buffersToWrite.resize(2) when it holds more.
Kept(tw) == SubSeq(tw, 1, IF Len(tw) > 2 THEN 2 ELSE Len(tw))

\* newBuffer1, then newBuffer2, if null, take the last buffer of
\* buffersToWrite (pop_back) and reset() it; clear(); output.flush().
\* With nothing left to take, the assert fails and the spare stays null.
Refill ==
    /\ pc = "write" /\ wi > Len(toWrite)
    /\ LET tw  == Kept(toWrite)
           tw1 == IF nb1 = NoBuf /\ tw # <<>> THEN Front(tw) ELSE tw
       IN /\ nb1' = IF nb1 = NoBuf /\ tw # <<>> THEN Emptied(Last(tw)) ELSE nb1
          /\ nb2' = IF nb2 = NoBuf /\ tw1 # <<>> THEN Emptied(Last(tw1)) ELSE nb2
    /\ toWrite' = <<>> /\ wi' = 1
    /\ lf' = Flushed(lf)
    /\ pc' = "top"
    /\ UNCHANGED <<running, cur, next, bufs, appended, stopper>>

BackEnd == Top \/ Lock \/ Timeout \/ Relock \/ Write \/ Refill

\* The stopped back end has returned and stop() with it: nothing moves.
Finished ==
    /\ stopper.phase = "returned" /\ appended = MaxLines
    /\ UNCHANGED vars

Next == AppendLine \/ Stop \/ Join \/ BackEnd \/ Tick \/ Finished

\* The back end is scheduled whenever it can run, and wait_for's timeout
\* always returns.  Front ends may stop logging at any time.
Spec == Init /\ [][Next]_vars /\ WF_vars(BackEnd) /\ WF_vars(Join)

-----------------------------------------------------------------------------
(* Properties.                                                           *)

\* Every line handed to the LogFile, in order: the closed files, then
\* the current file's kernel and stdio parts.
Logged == lf.closed \o lf.disk \o lf.stdio

\* The lines fwrite or fflush have passed to the kernel.
OnDisk == lf.closed \o lf.disk

\* The log files hold the appended lines in the order they were
\* appended, with none lost before the last one written and none written
\* twice: across buffer hand-overs between front ends and the back end,
\* the nextBuffer_ refill, the reuse of written buffers as spares, and
\* LogFile's rolls to a new file.
WrittenInOrder == Logged = [i \in 1..Len(Logged) |-> i] /\ Len(Logged) <= appended

\* threadFunc's asserts hold: at the top of each round both spares exist
\* and are empty and buffersToWrite is empty (lines 63-65); there is
\* something to write after the swap (line 83); and buffersToWrite has a
\* buffer for each null spare once it is written (lines 97 and 105).
BackendAssertions ==
    /\ pc = "top" /\ running =>
          nb1 = <<>> /\ nb2 = <<>> /\ toWrite = <<>>
    /\ pc = "write" => toWrite # <<>>
    /\ pc = "write" /\ wi > Len(toWrite) =>
          Len(Kept(toWrite)) >= (IF nb1 = NoBuf THEN 1 ELSE 0) + (IF nb2 = NoBuf THEN 1 ELSE 0)

\* While logging runs, every appended line reaches the kernel: a line in
\* a buffer that is not full is swapped out after at most flushInterval_,
\* written, and flushed out of the LogFile's stdio buffer by the
\* output.flush() that ends each round, whether or not the file rolls.
LinesWritten ==
    \A n \in Lines : (running /\ appended >= n) ~> (Len(OnDisk) >= n \/ ~running)

\* stop() returns: its notify_one, sent without the mutex, is lost when
\* the back end has tested running_ but not yet reached wait_for, and
\* then only wait_for's flushInterval_ timeout brings it back to the
\* while (running_) test that ends threadFunc and lets join() return.
StopReturns == stopper.phase = "joining" ~> stopper.phase = "returned"

\* Every line appended before stop() was called is in the log file when
\* stop() returns.  The comment on threadFunc (AsyncLogging.cpp:50) and in
\* stop() says stop() is what makes sure the logs are written to the file.
StopFlushesAll == stopper.phase = "returned" => Len(OnDisk) >= stopper.atStop
=============================================================================
