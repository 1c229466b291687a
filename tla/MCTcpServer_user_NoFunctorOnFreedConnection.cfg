\* A user thread keeps the handle and calls send()/shutdown() off the loop
\* threads; one connection on one worker loop.
CONSTANTS
    B = B
    W1 = W1
    U = U
    Base = B
    Workers <- OneWorker
    Users <- OneUser
    MaxConns = 1
    MaxRequests = 1
    MaxSends = 2
    MsgLen = 2
    SockBuf = 1
    MayReset = FALSE
    HasWriteComplete = FALSE

SPECIFICATION Spec
INVARIANT NoFunctorOnFreedConnection
