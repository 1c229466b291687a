\* HttpServer-style use: the application sends and shuts down only from its
\* callbacks, on the connection's loop.  One worker loop, one connection.
CONSTANTS
    B = B
    W1 = W1
    U = U
    Base = B
    Workers <- OneWorker
    Users <- NoUser
    MaxConns = 1
    MaxRequests = 2
    MaxSends = 2
    MsgLen = 2
    SockBuf = 1
    MayReset = TRUE
    HasWriteComplete = TRUE

SPECIFICATION Spec
INVARIANT TypeOK
INVARIANT NoFunctorOnFreedConnection
INVARIANT ChannelUnregisteredBeforeFree
INVARIANT ShutdownFlushesOutput
INVARIANT MapMatchesLifecycle
PROPERTY ClosedConnectionsReclaimed
PROPERTY AcceptedConnectionsEstablished
