\* Flow control on one loop: the high-water-mark callback calls stopRead()
\* and the write-complete callback startRead(), as a server that stops
\* reading a client until its output drains does.
CONSTANTS
    Base = Base
    Io = Io
    C1 = C1
    C2 = C2
    BaseLoop = Base
    IoLoop = Base
    Loops <- MCLoopsSingle
    Conns <- MCConnsTwo
    CallbackOps = {"none", "send", "sendShutdown", "forceClose"}
    ForeignOps = {}
    MsgLens <- MCMsgLens
    SndBuf = 1
    HighWaterMark = 2
    WriteCompleteCallback = TRUE
    HighWaterMarkCallback = TRUE
    FlowControl = TRUE
    MaxPeerMsgs = 2
    MaxCalls = 2
    ServerDestroyed = FALSE
SPECIFICATION Spec
INVARIANT DisconnectCallbackOnce
\* Once every connection is closed and destroyed the server idles in poll().
CHECK_DEADLOCK FALSE
