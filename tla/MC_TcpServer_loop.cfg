\* Every call on a connection is made from its callbacks, on its loop
\* thread.  One connection on an I/O loop of a one-thread pool, and the
\* server destroyed from the base thread while the connection lives.
CONSTANTS
    Base = Base
    Io = Io
    C1 = C1
    C2 = C2
    BaseLoop = Base
    IoLoop = Io
    Loops <- MCLoopsSeparate
    Conns <- MCConnsOne
    CallbackOps = {"none", "send", "sendShutdown", "forceClose"}
    ForeignOps = {}
    MsgLens <- MCMsgLens
    SndBuf = 1
    HighWaterMark = 2
    WriteCompleteCallback = TRUE
    HighWaterMarkCallback = TRUE
    FlowControl = FALSE
    MaxPeerMsgs = 2
    MaxCalls = 2
    ServerDestroyed = TRUE
SPECIFICATION Spec
INVARIANT TypeOK DisconnectCallbackOnce
PROPERTY FinAfterQueuedOutput
\* Once every connection is closed and destroyed the server idles in poll().
CHECK_DEADLOCK FALSE
