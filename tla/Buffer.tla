------------------------------ MODULE Buffer ------------------------------
(***************************************************************************)
(* net/Buffer: a std::vector<char> with a reader and a writer index, and  *)
(* the way TcpConnection drains it.                                       *)
(*                                                                         *)
(* The vector is `cells` (cell i of the C++ vector is cells[i+1]); the    *)
(* indices keep their C++ values.  Every byte that enters the buffer, by  *)
(* append or readFd, is numbered 1, 2, 3, ... in arrival order, so a byte *)
(* lost, duplicated or reordered shows.  Zero is the value of a cell the  *)
(* vector constructor or resize() zero-filled.  `pushed` is every byte    *)
(* that entered, `taken` every byte a consumer got out (the string of     *)
(* retrieveAsString, the bytes ::write sent).                             *)
(***************************************************************************)
EXTENDS Naturals, Sequences

CONSTANTS
    Prepend,    \* kCheapPrepend
    Initial,    \* the constructor's initialSize (kInitialSize)
    Extra,      \* sizeof(extrabuf) in readFd
    MaxBytes,   \* bytes that enter the buffer in a behaviour
    MaxChunk    \* longest append or single read

ASSUME /\ Prepend \in Nat /\ Initial \in Nat /\ Extra \in Nat
       /\ MaxBytes \in Nat /\ MaxChunk \in Nat \ {0}

Zero == 0
Values == 0..MaxBytes

VARIABLES b, pushed, taken

vars == <<b, pushed, taken>>

-----------------------------------------------------------------------------
(* Buffer's own methods, on a buffer record x.                          *)

ReadableBytes(x) == x.writer - x.reader
WritableBytes(x) == Len(x.cells) - x.writer
PrependableBytes(x) == x.reader

\* The readable region [beginRead(), beginWrite()).
Readable(x) == SubSeq(x.cells, x.reader + 1, x.writer)

\* std::copy(data, data + Len(data), beginWrite()), room already made.
Put(x, data) ==
    [x EXCEPT !.cells = [i \in DOMAIN @ |->
                           IF i > x.writer /\ i <= x.writer + Len(data)
                           THEN data[i - x.writer] ELSE @[i]]]

\* Mutant: makeSpace grows the vector to one byte short.
MakeSpaceShort(x, len) ==
    IF WritableBytes(x) + PrependableBytes(x) < len + Prepend
    THEN [x EXCEPT !.cells = @ \o [i \in 1..(x.writer + len - 1 - Len(@)) |-> Zero]]
    ELSE LET n == ReadableBytes(x) IN
         [x EXCEPT !.cells = [i \in DOMAIN @ |->
                                IF i > Prepend /\ i <= Prepend + n
                                THEN @[x.reader + i - Prepend] ELSE @[i]],
                   !.reader = Prepend, !.writer = Prepend + n]

\* Mutant: makeSpace moves the indices back without copying the bytes.
MakeSpaceNoCopy(x, len) ==
    IF WritableBytes(x) + PrependableBytes(x) < len + Prepend
    THEN [x EXCEPT !.cells = @ \o [i \in 1..(x.writer + len - Len(@)) |-> Zero]]
    ELSE [x EXCEPT !.reader = Prepend, !.writer = Prepend + ReadableBytes(x)]

\* makeSpace(len): resize to writerIndex_ + len (zero-filled) when even
\* sliding the readable bytes to kCheapPrepend leaves too little room;
\* otherwise slide them there.
MakeSpace(x, len) ==
    IF WritableBytes(x) + PrependableBytes(x) < len + Prepend
    THEN [x EXCEPT !.cells = @ \o [i \in 1..(x.writer + len - Len(@)) |-> Zero]]
    ELSE LET n == ReadableBytes(x) IN
         [x EXCEPT !.cells = [i \in DOMAIN @ |->
                                IF i > Prepend /\ i <= Prepend + n
                                THEN @[x.reader + i - Prepend] ELSE @[i]],
                   !.reader = Prepend, !.writer = Prepend + n]

\* ensureWritableBytes(len).
EnsureWritableBytes(x, len) ==
    IF WritableBytes(x) < len THEN MakeSpace(x, len) ELSE x

\* append(data, len).
AppendTo(x, data) ==
    LET y == EnsureWritableBytes(x, Len(data)) IN
    [Put(y, data) EXCEPT !.writer = @ + Len(data)]

\* retrieveAll(): both indices back to kCheapPrepend.
RetrieveAll(x) == [x EXCEPT !.reader = Prepend, !.writer = Prepend]

\* retrieve(len), len <= readableBytes().
Retrieve(x, len) ==
    IF len < ReadableBytes(x) THEN [x EXCEPT !.reader = @ + len] ELSE RetrieveAll(x)

\* The most one readv can return: the writable tail, plus extrabuf when
\* the tail is smaller than extrabuf (iovcnt == 2).
ReadvLimit(x) ==
    WritableBytes(x) + (IF WritableBytes(x) < Extra THEN Extra ELSE 0)

\* readFd after readv returned data (n = Len(data) > 0): bytes within the
\* tail are already in place; past it, writerIndex_ = size() and the rest
\* is appended from extrabuf.
ReadInto(x, data) ==
    LET w == WritableBytes(x) IN
    IF Len(data) <= w
    THEN [Put(x, data) EXCEPT !.writer = @ + Len(data)]
    ELSE AppendTo([Put(x, SubSeq(data, 1, w)) EXCEPT !.writer = Len(x.cells)],
                  SubSeq(data, w + 1, Len(data)))

\* The k bytes starting at beginWrite(): the tail of the vector, and past
\* its end whatever the heap holds there (a read out of bounds: any value).
TailBytes(x, k) ==
    { [i \in 1..k |-> IF x.writer + i <= Len(x.cells) THEN x.cells[x.writer + i]
                      ELSE g[i]] : g \in [1..k -> Values] }

-----------------------------------------------------------------------------
TypeOK ==
    /\ b.cells \in Seq(Values)
    /\ Prepend <= b.reader /\ b.reader <= b.writer /\ b.writer <= Len(b.cells)
    /\ pushed \in Seq(1..MaxBytes)
    /\ taken \in Seq(Values)

\* Buffer(kInitialSize): a zero-filled vector of kCheapPrepend +
\* initialSize bytes, both indices at kCheapPrepend.
Init ==
    /\ b = [cells |-> [i \in 1..(Prepend + Initial) |-> Zero],
            reader |-> Prepend, writer |-> Prepend]
    /\ pushed = <<>>
    /\ taken = <<>>

\* The next n bytes to enter the buffer.
Fresh(n) == [i \in 1..n |-> Len(pushed) + i]

-----------------------------------------------------------------------------
(* The Buffer API.                                                       *)

\* append(data, len).
AppendBytes(n) ==
    /\ Len(pushed) + n <= MaxBytes
    /\ b' = AppendTo(b, Fresh(n))
    /\ pushed' = pushed \o Fresh(n)
    /\ UNCHANGED taken

\* retrieveAsString(len) (and retrieveAllAsString, retrieveUntil): the
\* caller gets the first len readable bytes, then retrieve(len).
RetrieveAsString(len) ==
    /\ len <= ReadableBytes(b)
    /\ taken' = taken \o SubSeq(b.cells, b.reader + 1, b.reader + len)
    /\ b' = Retrieve(b, len)
    /\ UNCHANGED pushed

\* readFd(fd): one readv that returns n > 0 bytes.  (n <= 0 changes
\* nothing but savedErrno.)
ReadFd(n) ==
    /\ n <= ReadvLimit(b)
    /\ Len(pushed) + n <= MaxBytes
    /\ b' = ReadInto(b, Fresh(n))
    /\ pushed' = pushed \o Fresh(n)
    /\ UNCHANGED taken

\* writeFd(fd): ::write(fd, beginRead(), readableBytes()) takes k bytes,
\* then retrieve(k).
WriteFd(k) ==
    /\ k <= ReadableBytes(b)
    /\ taken' = taken \o SubSeq(b.cells, b.reader + 1, b.reader + k)
    /\ b' = Retrieve(b, k)
    /\ UNCHANGED pushed

Next ==
    \/ \E n \in 1..MaxChunk : AppendBytes(n) \/ ReadFd(n)
    \/ \E len \in 0..MaxChunk : RetrieveAsString(len) \/ WriteFd(len)

Spec == Init /\ [][Next]_vars

-----------------------------------------------------------------------------
(* How TcpConnection drains a Buffer.                                    *)

\* TcpConnection::handleWrite on outputBuffer_: ::write(fd,
\* outputBuffer_.beginWrite(), outputBuffer_.readableBytes()) takes k > 0
\* bytes, then retrieve(k).
HandleWriteDrain(k) ==
    /\ 0 < k /\ k <= ReadableBytes(b)
    /\ \E sent \in TailBytes(b, k) : taken' = taken \o sent
    /\ b' = Retrieve(b, k)
    /\ UNCHANGED pushed

\* TcpConnection::send(Buffer*) on the loop thread, as HttpServer::onRequest
\* sends its response buffer: sendInLoop(message->beginWrite(),
\* message->readableBytes()) hands those bytes on, then retrieveAll().
SendBuffer ==
    /\ ReadableBytes(b) > 0
    /\ \E sent \in TailBytes(b, ReadableBytes(b)) : taken' = taken \o sent
    /\ b' = RetrieveAll(b)
    /\ UNCHANGED pushed

\* A Buffer TcpConnection drains: outputBuffer_, which sendInLoop appends
\* to and handleWrite drains, or the response buffer HttpServer::onRequest
\* fills and send(&buf) hands on.
DrainNext ==
    \/ \E n \in 1..MaxChunk : AppendBytes(n) \/ HandleWriteDrain(n)
    \/ SendBuffer

DrainSpec == Init /\ [][DrainNext]_vars

-----------------------------------------------------------------------------
(* Properties.                                                           *)

\* The round-trip law of the Buffer (spec section 8): what consumers have
\* taken out, followed by the readable region, is exactly what entered by
\* append and readFd, in order -- across makeSpace's grow and compact
\* paths, readFd's extrabuf overflow and retrieve's reset.  It covers the
\* bytes handleWrite and send(Buffer*) put on the wire as well.
RoundTrip == taken \o Readable(b) = pushed
=============================================================================
