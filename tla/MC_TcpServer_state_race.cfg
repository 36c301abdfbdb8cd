\* shutdown() and forceClose() from a user thread while the peer closes
\* the connection.
CONSTANTS
    Base = Base
    Io = Io
    C1 = C1
    C2 = C2
    BaseLoop = Base
    IoLoop = Io
    Loops <- MCLoopsSeparate
    Conns <- MCConnsOne
    CallbackOps = {"none"}
    ForeignOps = {"shutdown", "forceClose"}
    MsgLens <- MCMsgLens
    SndBuf = 1
    HighWaterMark = 2
    WriteCompleteCallback = TRUE
    HighWaterMarkCallback = TRUE
    FlowControl = FALSE
    MaxPeerMsgs = 2
    MaxCalls = 2
    ServerDestroyed = FALSE
SPECIFICATION Spec
PROPERTY DisconnectedIsFinal
\* Once every connection is closed and destroyed the server idles in poll().
CHECK_DEADLOCK FALSE
