\* A user thread calls send, shutdown and forceClose on a connection it
\* holds, and the base loop destroys the server, whose thread pool quits
\* and joins the I/O loop.
CONSTANTS
    Base = Base
    Io = Io
    C1 = C1
    C2 = C2
    BaseLoop = Base
    IoLoop = Io
    Loops <- MCLoopsSeparate
    Conns <- MCConnsOne
    CallbackOps = {"none", "send", "sendShutdown", "forceClose"}
    ForeignOps = {"send", "shutdown", "forceClose"}
    MsgLens <- MCMsgLens
    SndBuf = 1
    HighWaterMark = 2
    WriteCompleteCallback = TRUE
    HighWaterMarkCallback = TRUE
    FlowControl = FALSE
    MaxPeerMsgs = 2
    MaxCalls = 2
    ServerDestroyed = TRUE
SPECIFICATION Spec
INVARIANT ChannelRemovedBeforeDestroy
\* Once the I/O loop has exited and the connection is gone nothing is left to run.
CHECK_DEADLOCK FALSE
