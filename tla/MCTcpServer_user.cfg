\* A user thread keeps the connection's handle and calls send() and
\* shutdown() off the loop threads, beside the in-loop replies.  One worker
\* loop, one connection.
CONSTANTS
    B = B
    W1 = W1
    U = U
    Base = B
    Workers <- OneWorker
    Users <- OneUser
    MaxConns = 1
    MaxRequests = 1
    MaxSends = 2
    MsgLen = 2
    SockBuf = 1
    MayReset = TRUE
    HasWriteComplete = FALSE

SPECIFICATION Spec
INVARIANT ChannelUnregisteredBeforeFree
