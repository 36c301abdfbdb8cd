------------------------------ MODULE TcpServer ------------------------------
(***************************************************************************)
(* A TcpServer (src/muduo/net/TcpServer.cc) with its Acceptor on the base  *)
(* loop, the TcpConnections it creates (TcpConnection.cc) on an I/O loop,  *)
(* a user thread that calls send / shutdown / forceClose on a connection   *)
(* it holds, and the TCP peer of every connection.                         *)
(*                                                                         *)
(* The base loop and the I/O loop are the same EventLoop when the server   *)
(* has no thread pool (setThreadNum(0)): IoLoop = BaseLoop.                *)
(*                                                                         *)
(* Data is counted in units.  The kernel send buffer of a connection holds *)
(* SndBuf units; the peer drains it.  What the peer sends is only "there   *)
(* is data" and "the peer has closed": muduo treats read() == 0 as a full  *)
(* close.  The lifetime of a TcpConnection is its shared_ptr count, taken  *)
(* from its owners: the server's connections_ map, the user's copy, and    *)
(* every queued functor that bound shared_from_this() or a TcpConnectionPtr.*)
(* Functors that bound the raw this pointer do not own the connection.     *)
(***************************************************************************)
EXTENDS Integers, Sequences, SequencesExt, FiniteSetsExt, EventLoop

CONSTANTS
    BaseLoop, IoLoop,       \* the server's loop and the loop of its connections
    Conns,                  \* connections the peers open
    CallbackOps,            \* what messageCallback_ does with a message
    ForeignOps,             \* calls the user thread makes on a connection
    MsgLens,                \* units per send()
    SndBuf,                 \* kernel send buffer, in units
    HighWaterMark,          \* highWaterMark_, in units
    WriteCompleteCallback,  \* writeCompleteCallback_ is set
    HighWaterMarkCallback,  \* highWaterMarkCallback_ is set
    FlowControl,            \* the high-water-mark callback calls stopRead()
                            \* and the write-complete callback startRead()
    MaxPeerMsgs,            \* bound on messages a peer sends
    MaxCalls,               \* bound on send/shutdown/forceClose calls per connection
    ServerDestroyed         \* the base loop destroys the TcpServer while it runs

ASSUME /\ Loops = {BaseLoop, IoLoop}
       /\ CallbackOps \subseteq {"none", "send", "sendShutdown", "forceClose"}
       /\ ForeignOps \subseteq {"send", "shutdown", "forceClose"}
       /\ MsgLens \subseteq Nat \ {0}
       /\ {SndBuf, HighWaterMark, MaxPeerMsgs, MaxCalls} \subseteq Nat
       /\ {WriteCompleteCallback, HighWaterMarkCallback, FlowControl,
           ServerDestroyed} \subseteq BOOLEAN

VARIABLES
    state,       \* state_ (StateE), or "None" before the peer connects
    chan,        \* the channel's events_: a subset of {"Read", "Write"}
    reading,     \* reading_
    inPoller,    \* the channel is registered in the I/O loop's poller
    out,         \* outputBuffer_.readableBytes()
    sock,        \* units in the kernel send buffer
    finSent,     \* socket_->shutdownWrite() has run
    written,     \* history: units handed to the kernel
    peerData,    \* the socket has unread data from the peer
    peerClosed,  \* the peer has closed: read() returns 0 after the data
    peerMsgs,    \* messages the peer has sent
    registry,    \* the names in TcpServer::connections_
    userHolds,   \* the user thread holds a TcpConnectionPtr
    upc,         \* where the user thread is inside a call: "idle" or the call
    calls,       \* send/shutdown/forceClose calls made so far
    accepted,    \* history: units of send() calls that found kConnected
    owed,        \* history: accepted when shutdown() set kDisconnecting
    closeCount,  \* history: connectionCallback_ runs with kDisconnected
    server,      \* the TcpServer: "constructed", "started" or "destroyed"
    deadServerCalls, \* history: calls made through the raw this of a
                     \* destroyed TcpServer
    ioLoop       \* the I/O loop thread: "running"; after quit(), "wake"
                 \* (it will finish one more iteration) or "final" (it is
                 \* in its last doPendingFunctors()); "exited"

connVars == <<state, chan, reading, inPoller, out, sock, finSent, written>>
envVars == <<peerData, peerClosed, peerMsgs>>
userVars == <<userHolds, upc, calls, accepted, owed, closeCount>>
serverVars == <<server, deadServerCalls, ioLoop>>
vars == <<connVars, envVars, registry, userVars, serverVars, loopVars>>

\* A functor record: what it calls, on which connection, with which length.
F(op, c, len) == [op |-> op, conn |-> c, len |-> len]

\* Functors that bound shared_from_this() or a TcpConnectionPtr, and so own
\* the connection, against the raw-this binds of send() and shutdown().
StrongOps == {"connectEstablished", "removeConnectionInLoop",
              "connectDestroyed", "forceCloseInLoop",
              "writeComplete", "highWaterMark"}
RawOps == {"sendInLoop", "shutdownInLoop"}

Owning(s, c) == Len(SelectSeq(s, LAMBDA f : f.conn = c /\ f.op \in StrongOps))

\* The shared_ptr use count of connection c.
RefCount(c) ==
    (IF c \in registry THEN 1 ELSE 0) + (IF userHolds[c] THEN 1 ELSE 0)
      + Owning(pending[BaseLoop] \o calling[BaseLoop], c)
      + (IF IoLoop = BaseLoop THEN 0
         ELSE Owning(pending[IoLoop] \o calling[IoLoop], c))

\* ~TcpConnection() has run.
Destroyed(c) == state[c] # "None" /\ RefCount(c) = 0

Alive(c) == state[c] # "None" /\ ~Destroyed(c)

\* The base loop thread is inside ~TcpServer(): from the destructor's body
\* until thread_.join() of ~EventLoopThread has returned.
InDestructor == server = "destroyed" /\ IoLoop # BaseLoop /\ ioLoop # "exited"

\* Loop l still runs functors: its thread has not left loop(), or is not
\* blocked in the destructor.
Runs(l) == IF l = BaseLoop THEN ~InDestructor ELSE ioLoop # "exited"

\* Loop l may still poll and handle events in this iteration.
Polls(l) == IF l = BaseLoop THEN ~InDestructor ELSE ioLoop \in {"running", "wake"}

-----------------------------------------------------------------------------
(* TcpConnection on its loop thread.                                       *)

\* connectEstablished(): kConnected, enableReading(), and connectionCallback_,
\* where the user takes its copy of the connection if it uses one.
ConnectEstablished(c) ==
    /\ state' = [state EXCEPT ![c] = "Connected"]
    /\ chan' = [chan EXCEPT ![c] = {"Read"}]
    /\ inPoller' = [inPoller EXCEPT ![c] = TRUE]
    /\ userHolds' = [userHolds EXCEPT ![c] = ForeignOps # {}]

\* sendInLoop()'s test before it appends to outputBuffer_: this append
\* takes the buffer from below highWaterMark_ to at or above it.
CrossesHighWaterMark(oldLen, remaining) ==
    oldLen + remaining >= HighWaterMark /\ oldLen < HighWaterMark

\* Variant: sendInLoop() that takes write() to have written everything.
SendInLoopIgnoringFullBuffer(c, len) ==
    LET direct    == "Write" \notin chan[c] /\ out[c] = 0
        fault     == direct /\ finSent[c]
        nwrote    == IF direct /\ ~fault THEN len ELSE 0
        remaining == len - nwrote
        buffer    == ~fault /\ remaining > 0
        oldLen    == out[c]
    IN  IF state[c] = "Disconnected"
        THEN [out |-> out[c], sock |-> sock[c], written |-> written[c],
              chan |-> chan[c], cbs |-> <<>>]
        ELSE [out     |-> IF buffer THEN oldLen + remaining ELSE oldLen,
              sock    |-> sock[c] + nwrote,
              written |-> written[c] + nwrote,
              chan    |-> IF buffer THEN chan[c] \cup {"Write"} ELSE chan[c],
              cbs     |->
                (IF direct /\ ~fault /\ remaining = 0 /\ WriteCompleteCallback
                 THEN <<F("writeComplete", c, 0)>> ELSE <<>>)
                \o (IF buffer /\ CrossesHighWaterMark(oldLen, remaining)
                       /\ HighWaterMarkCallback
                    THEN <<F("highWaterMark", c, 0)>> ELSE <<>>)]

\* sendInLoop(data, len): the values it leaves, and the functors it queues.
\* Writing after shutdownWrite() fails with EPIPE: faultError drops the data.
\* A full kernel buffer makes write() fail with EWOULDBLOCK: nwrote = 0.
SendInLoop(c, len) ==
    LET direct    == "Write" \notin chan[c] /\ out[c] = 0
        fault     == direct /\ finSent[c]
        nwrote    == IF direct /\ ~fault THEN Min({len, SndBuf - sock[c]}) ELSE 0
        remaining == len - nwrote
        buffer    == ~fault /\ remaining > 0
        oldLen    == out[c]
    IN  IF state[c] = "Disconnected"
        THEN [out |-> out[c], sock |-> sock[c], written |-> written[c],
              chan |-> chan[c], cbs |-> <<>>]
        ELSE [out     |-> IF buffer THEN oldLen + remaining ELSE oldLen,
              sock    |-> sock[c] + nwrote,
              written |-> written[c] + nwrote,
              chan    |-> IF buffer THEN chan[c] \cup {"Write"} ELSE chan[c],
              cbs     |->
                (IF direct /\ ~fault /\ remaining = 0 /\ WriteCompleteCallback
                 THEN <<F("writeComplete", c, 0)>> ELSE <<>>)
                \o (IF buffer /\ CrossesHighWaterMark(oldLen, remaining)
                       /\ HighWaterMarkCallback
                    THEN <<F("highWaterMark", c, 0)>> ELSE <<>>)]

\* The output side of connection c becomes what a SendInLoop result says.
ApplySend(c, r) ==
    /\ out' = [out EXCEPT ![c] = r.out]
    /\ sock' = [sock EXCEPT ![c] = r.sock]
    /\ written' = [written EXCEPT ![c] = r.written]
    /\ chan' = [chan EXCEPT ![c] = r.chan]

\* Variant: shutdownInLoop() without the isWriting() test.
ShutdownInLoopUnguarded(c, writing) ==
    finSent' = [finSent EXCEPT ![c] = TRUE]

\* shutdownInLoop(): shutdownWrite() unless the channel is writing.
ShutdownInLoop(c, writing) ==
    finSent' = [finSent EXCEPT ![c] = @ \/ ~writing]

\* Variant: removeConnectionInLoop() that erases nothing (a wrong key).
RemoveConnectionInLoopKeepsEntry(c) ==
    /\ registry' = registry
    /\ QueueInLoop(IoLoop, F("connectDestroyed", c, 0))

\* TcpServer::removeConnectionInLoop(conn): erase it from connections_ and
\* queue connectDestroyed on the connection's loop.
RemoveConnectionInLoop(c) ==
    /\ registry' = registry \ {c}
    /\ QueueInLoop(IoLoop, F("connectDestroyed", c, 0))

\* TcpServer::removeConnection(conn), run as closeCallback_: runInLoop(
\* removeConnectionInLoop) on the base loop, in place when that is this
\* loop.  newConnection() bound it to the raw TcpServer this ("FIXME:
\* unsafe"): once the server is destroyed the call goes through freed
\* memory; it is counted and its effect left out.
RemoveConnection(c) ==
    IF server = "destroyed"
    THEN /\ deadServerCalls' = deadServerCalls + 1
         /\ UNCHANGED <<registry, pending>>
    ELSE /\ UNCHANGED deadServerCalls
         /\ IF IoLoop = BaseLoop
            THEN RemoveConnectionInLoop(c)
            ELSE /\ QueueInLoop(BaseLoop, F("removeConnectionInLoop", c, 0))
                 /\ UNCHANGED registry

\* handleClose(): kDisconnected, disableAll(), connectionCallback_, then
\* closeCallback_.
HandleClose(c) ==
    /\ state' = [state EXCEPT ![c] = "Disconnected"]
    /\ chan' = [chan EXCEPT ![c] = {}]
    /\ closeCount' = [closeCount EXCEPT ![c] = @ + 1]
    /\ RemoveConnection(c)

\* Variant: connectDestroyed() that runs its kConnected branch, and with it
\* connectionCallback_, whatever the state.
ConnectDestroyedUnchecked(c) ==
    /\ state' = [state EXCEPT ![c] = "Disconnected"]
    /\ chan' = [chan EXCEPT ![c] = {}]
    /\ closeCount' = [closeCount EXCEPT ![c] = @ + 1]
    /\ inPoller' = [inPoller EXCEPT ![c] = FALSE]

\* connectDestroyed() on each connection of S: the kConnected branch
\* (kDisconnected, disableAll(), connectionCallback_) only runs when the
\* server is destroyed first; then channel_->remove() takes the channel
\* out of the poller.
ConnectDestroyedEach(S) ==
    LET closing == {c \in S : state[c] = "Connected"} IN
    /\ state' = [c \in Conns |-> IF c \in closing THEN "Disconnected" ELSE state[c]]
    /\ chan' = [c \in Conns |-> IF c \in closing THEN {} ELSE chan[c]]
    /\ closeCount' = [c \in Conns |-> IF c \in closing THEN closeCount[c] + 1
                                                   ELSE closeCount[c]]
    /\ inPoller' = [c \in Conns |-> IF c \in S THEN FALSE ELSE inPoller[c]]

ConnectDestroyed(c) == ConnectDestroyedEach({c})

\* forceCloseInLoop(): handleClose() unless the connection is already closed.
ForceCloseInLoop(c) ==
    IF state[c] \in {"Connected", "Disconnecting"}
    THEN HandleClose(c)
    ELSE UNCHANGED <<state, chan, closeCount, registry, pending, deadServerCalls>>

\* startRead() on the loop thread runs startReadInLoop() in place: enable
\* reading unless reading_ is set and the channel is reading.
StartReadInLoop(c) ==
    IF ~reading[c] \/ "Read" \notin chan[c]
    THEN /\ chan' = [chan EXCEPT ![c] = @ \cup {"Read"}]
         /\ reading' = [reading EXCEPT ![c] = TRUE]
    ELSE UNCHANGED <<chan, reading>>

\* stopRead() on the loop thread runs stopReadInLoop() in place.
StopReadInLoop(c) ==
    IF reading[c] \/ "Read" \in chan[c]
    THEN /\ chan' = [chan EXCEPT ![c] = @ \ {"Read"}]
         /\ reading' = [reading EXCEPT ![c] = FALSE]
    ELSE UNCHANGED <<chan, reading>>

-----------------------------------------------------------------------------
(* messageCallback_, run by handleRead() when read() returns data.  What   *)
(* HttpServer::onMessage does: nothing while the request is incomplete,    *)
(* send the response, or send it and shutdown() ("Connection: close" or a  *)
(* bad request).  forceClose() is the other call a callback makes.         *)

\* send() on the loop thread: sendInLoop() in place if kConnected.
InLoopSend(c, len) ==
    /\ calls' = [calls EXCEPT ![c] = @ + 1]
    /\ IF state[c] = "Connected"
       THEN LET r == SendInLoop(c, len) IN
            /\ ApplySend(c, r)
            /\ pending' = [pending EXCEPT ![IoLoop] = @ \o r.cbs]
            /\ accepted' = [accepted EXCEPT ![c] = @ + len]
       ELSE UNCHANGED <<out, sock, written, chan, pending, accepted>>
    /\ UNCHANGED <<state, finSent, owed>>

\* send() then shutdown() on the loop thread: shutdown() sets kDisconnecting
\* and runs shutdownInLoop() in place, which sees whether the send left
\* output buffered.
InLoopSendShutdown(c, len) ==
    /\ calls' = [calls EXCEPT ![c] = @ + 1]
    /\ IF state[c] = "Connected"
       THEN LET r == SendInLoop(c, len) IN
            /\ ApplySend(c, r)
            /\ pending' = [pending EXCEPT ![IoLoop] = @ \o r.cbs]
            /\ accepted' = [accepted EXCEPT ![c] = @ + len]
            /\ state' = [state EXCEPT ![c] = "Disconnecting"]
            /\ owed' = [owed EXCEPT ![c] = accepted[c] + len]
            /\ ShutdownInLoop(c, "Write" \in r.chan)
       ELSE UNCHANGED <<out, sock, written, chan, pending, accepted,
                        state, owed, finSent>>

\* forceClose() on the loop thread: it always queues forceCloseInLoop.
InLoopForceClose(c) ==
    /\ calls' = [calls EXCEPT ![c] = @ + 1]
    /\ IF state[c] \in {"Connected", "Disconnecting"}
       THEN /\ state' = [state EXCEPT ![c] = "Disconnecting"]
            /\ QueueInLoop(IoLoop, F("forceCloseInLoop", c, 0))
       ELSE UNCHANGED <<state, pending>>
    /\ UNCHANGED <<out, sock, written, chan, finSent, accepted, owed>>

MessageCallback(c, op, len) ==
    \/ /\ op = "none"
       /\ UNCHANGED <<state, out, sock, written, chan, finSent, pending,
                      calls, accepted, owed>>
    \/ op = "send" /\ calls[c] < MaxCalls /\ InLoopSend(c, len)
    \/ op = "sendShutdown" /\ calls[c] < MaxCalls /\ InLoopSendShutdown(c, len)
    \/ op = "forceClose" /\ calls[c] < MaxCalls /\ InLoopForceClose(c)

-----------------------------------------------------------------------------
(* The I/O loop thread: poll() reports the channel, handleEvent() runs.    *)

Readable(c) == inPoller[c] /\ "Read" \in chan[c] /\ (peerData[c] \/ peerClosed[c])

\* Channel::handleEvent() runs the read callback before the write callback.
ReadEvent(c) ==
    /\ Polls(IoLoop) /\ HandleEvent(IoLoop, <<c, "read">>)
    /\ <<c, "write">> \notin handled[IoLoop]

\* handleRead() with n > 0.
HandleReadData(c, op, len) ==
    /\ ReadEvent(c) /\ Readable(c) /\ peerData[c]
    /\ peerData' = [peerData EXCEPT ![c] = FALSE]
    /\ MessageCallback(c, op, len)
    /\ UNCHANGED <<reading, inPoller, peerClosed, peerMsgs, registry,
                   userHolds, upc, closeCount, calling, serverVars>>

\* handleRead() with n == 0: the peer closed.
HandleReadEof(c) ==
    /\ ReadEvent(c) /\ Readable(c) /\ ~peerData[c]
    /\ HandleClose(c)
    /\ UNCHANGED <<reading, inPoller, out, sock, finSent, written, envVars, userHolds,
                   upc, calls, accepted, owed, calling, server, ioLoop>>

\* handleWrite(): the kernel buffer has room and the channel is writing.
HandleWrite(c) ==
    LET n == Min({out[c], SndBuf - sock[c]}) IN
    /\ Polls(IoLoop) /\ HandleEvent(IoLoop, <<c, "write">>)
    /\ inPoller[c] /\ "Write" \in chan[c] /\ sock[c] < SndBuf
    /\ n > 0
    /\ out' = [out EXCEPT ![c] = @ - n]
    /\ sock' = [sock EXCEPT ![c] = @ + n]
    /\ written' = [written EXCEPT ![c] = @ + n]
    /\ IF out[c] = n
       THEN /\ chan' = [chan EXCEPT ![c] = @ \ {"Write"}]
            /\ pending' = [pending EXCEPT ![IoLoop] = @ \o
                 (IF WriteCompleteCallback THEN <<F("writeComplete", c, 0)>>
                  ELSE <<>>)]
            /\ IF state[c] = "Disconnecting"
               THEN ShutdownInLoop(c, FALSE)
               ELSE UNCHANGED finSent
       ELSE UNCHANGED <<chan, pending, finSent>>
    /\ UNCHANGED <<reading, state, inPoller, envVars, registry, userVars, calling, serverVars>>

-----------------------------------------------------------------------------
(* The base loop thread: Acceptor::handleRead() accepts a connection and   *)
(* calls TcpServer::newConnection().                                       *)

\* TcpServer::start() on the base loop's thread: the first call
\* (started_.getAndSet(1) == 0) starts the thread pool and runs
\* Acceptor::listen() in place; a later call does nothing.
Start ==
    /\ server = "constructed"
    /\ server' = "started"
    /\ UNCHANGED <<connVars, envVars, registry, userVars, deadServerCalls, ioLoop, loopVars>>

\* newConnection(): once the acceptor listens, register the connection
\* and runInLoop(connectEstablished) on the loop getNextLoop() picked.
NewConnection(c) ==
    /\ server = "started"
    /\ HandleEvent(BaseLoop, <<BaseLoop, "accept">>) /\ state[c] = "None"
    /\ registry' = registry \cup {c}
    /\ IF IoLoop = BaseLoop
       THEN ConnectEstablished(c) /\ UNCHANGED pending
       ELSE /\ state' = [state EXCEPT ![c] = "Connecting"]
            /\ QueueInLoop(IoLoop, F("connectEstablished", c, 0))
            /\ UNCHANGED <<chan, inPoller, userHolds>>
    /\ UNCHANGED <<reading, out, sock, finSent, written, envVars, upc, calls,
                   accepted, owed, closeCount, calling, serverVars>>

\* ~TcpServer() on the base loop's thread, from a handler of the running
\* loop: each entry of connections_ drops the map's reference and gets
\* runInLoop(connectDestroyed, conn) on its loop, in place when that is
\* the base loop, queued in std::map order otherwise.
TcpServerDestroy ==
    /\ ServerDestroyed /\ server = "started"
    /\ HandleEvent(BaseLoop, <<BaseLoop, "destroy">>)
    /\ server' = "destroyed"
    /\ registry' = {}
    /\ IF IoLoop = BaseLoop
       THEN ConnectDestroyedEach(registry) /\ UNCHANGED pending
       ELSE LET order == SetToSeq(registry) IN
            /\ pending' = [pending EXCEPT ![IoLoop] = @ \o
                   [i \in DOMAIN order |-> F("connectDestroyed", order[i], 0)]]
            /\ UNCHANGED <<state, chan, inPoller, closeCount>>
    /\ UNCHANGED <<reading, out, sock, finSent, written, envVars, userHolds, upc,
                   calls, accepted, owed, deadServerCalls, ioLoop, calling>>

\* ~TcpServer() goes on to destroy threadPool_, whose ~EventLoopThread()
\* calls loop_->quit() and thread_.join().  quit() only sets quit_: a loop
\* blocked in poll() wakes and finishes one more iteration; a loop inside
\* doPendingFunctors() finishes the functors it swapped out.  Either way
\* loop() tests quit_ after that and returns.
QuitIoLoop ==
    /\ IoLoop # BaseLoop /\ server = "destroyed" /\ ioLoop = "running"
    /\ ioLoop' = IF calling[IoLoop] = <<>> THEN "wake" ELSE "final"
    /\ UNCHANGED <<connVars, envVars, registry, userVars, server, deadServerCalls,
                   loopVars>>

\* loop() returns; threadFunc() sets loop_ = NULL and returns, destroying
\* its stack EventLoop and with it pendingFunctors_: functors queued after
\* the last swap never run, and the references they bound are dropped.
LoopExit ==
    /\ IoLoop # BaseLoop /\ calling[IoLoop] = <<>>
    /\ \/ ioLoop = "final"
       \/ ioLoop = "wake" /\ pending[IoLoop] = <<>> /\ handled[IoLoop] = {}
    /\ ioLoop' = "exited"
    /\ pending' = [pending EXCEPT ![IoLoop] = <<>>]
    /\ UNCHANGED <<connVars, envVars, registry, userVars, server, deadServerCalls,
                   calling, handled>>

-----------------------------------------------------------------------------
(* doPendingFunctors() on loop l.                                          *)

\* The swap that begins the last doPendingFunctors() of a woken I/O loop.
StartPendingFunctors(l) ==
    /\ DoPendingFunctors(l) /\ Polls(l)
    /\ ioLoop' = IF l = IoLoop /\ ioLoop = "wake" THEN "final" ELSE ioLoop
    /\ UNCHANGED <<connVars, envVars, registry, userVars, server, deadServerCalls>>

RunFunctor(l) ==
    LET f == CurrentFunctor(l)
        c == f.conn
    IN
    /\ calling[l] # <<>>
    /\ FunctorDone(l)
    /\ Runs(l)
    /\ UNCHANGED <<envVars, upc, calls, accepted, owed, handled, server, ioLoop>>
    /\ \/ /\ f.op \in RawOps /\ Destroyed(c)   \* freed object: left out
          /\ UNCHANGED <<connVars, registry, userHolds, closeCount, pending,
                         deadServerCalls>>
       \/ /\ f.op = "connectEstablished"
          /\ ConnectEstablished(c)
          /\ UNCHANGED <<reading, out, sock, finSent, written, registry, closeCount, pending,
                         deadServerCalls>>
       \/ /\ f.op = "removeConnectionInLoop"   \* bound to the raw server this
          /\ IF server = "destroyed"
             THEN /\ deadServerCalls' = deadServerCalls + 1
                  /\ UNCHANGED <<registry, pending>>
             ELSE RemoveConnectionInLoop(c) /\ UNCHANGED deadServerCalls
          /\ UNCHANGED <<connVars, userHolds, closeCount>>
       \/ /\ f.op = "connectDestroyed"
          /\ ConnectDestroyed(c)
          /\ UNCHANGED <<reading, out, sock, finSent, written, registry, userHolds, pending,
                         deadServerCalls>>
       \/ /\ f.op = "sendInLoop" /\ ~Destroyed(c)
          /\ LET r == SendInLoop(c, f.len) IN
             /\ ApplySend(c, r)
             /\ pending' = [pending EXCEPT ![IoLoop] = @ \o r.cbs]
          /\ UNCHANGED <<reading, state, inPoller, finSent, registry, userHolds, closeCount,
                         deadServerCalls>>
       \/ /\ f.op = "shutdownInLoop" /\ ~Destroyed(c)
          /\ ShutdownInLoop(c, "Write" \in chan[c])
          /\ UNCHANGED <<reading, state, chan, inPoller, out, sock, written, registry,
                         userHolds, closeCount, pending, deadServerCalls>>
       \/ /\ f.op = "forceCloseInLoop"
          /\ ForceCloseInLoop(c)
          /\ UNCHANGED <<reading, inPoller, out, sock, finSent, written, userHolds>>
       \/ /\ f.op \in {"writeComplete", "highWaterMark"}   \* user code
          /\ IF ~FlowControl THEN UNCHANGED <<chan, reading>>
             ELSE IF f.op = "writeComplete" THEN StartReadInLoop(c)
             ELSE StopReadInLoop(c)
          /\ UNCHANGED <<state, inPoller, out, sock, finSent, written,
                         registry, userHolds, closeCount, pending, deadServerCalls>>

-----------------------------------------------------------------------------
(* The user thread, holding a TcpConnectionPtr it took in                  *)
(* connectionCallback_.  Each call reads state_ and then acts on it: the   *)
(* read and the write or the queueing are separate steps.                  *)
(* Queueing on an I/O loop whose thread has left loop() reaches a          *)
(* destroyed EventLoop; the model does not follow the thread past that.    *)

UserIdle(c, op) ==
    /\ op \in ForeignOps /\ userHolds[c] /\ upc[c] = "idle"
    /\ calls[c] < MaxCalls

\* send(): if (state_ == kConnected) ... runInLoop(bind(sendInLoop, this, ...)).
SendCheck(c) ==
    /\ UserIdle(c, "send") /\ state[c] = "Connected"
    /\ upc' = [upc EXCEPT ![c] = "send"]
    /\ calls' = [calls EXCEPT ![c] = @ + 1]
    /\ UNCHANGED <<connVars, envVars, registry, userHolds, accepted,
                   owed, closeCount, serverVars, loopVars>>

SendQueue(c, len) ==
    /\ upc[c] = "send" /\ Runs(IoLoop)
    /\ QueueInLoop(IoLoop, F("sendInLoop", c, len))
    /\ upc' = [upc EXCEPT ![c] = "idle"]
    /\ accepted' = [accepted EXCEPT ![c] = @ + len]
    /\ UNCHANGED <<calls, connVars, envVars, registry, userHolds, owed, closeCount,
                   calling, handled, serverVars>>

\* shutdown(): if (state_ == kConnected) { setState(kDisconnecting);
\* runInLoop(bind(shutdownInLoop, this)); }
ShutdownCheck(c) ==
    /\ UserIdle(c, "shutdown") /\ state[c] = "Connected"
    /\ upc' = [upc EXCEPT ![c] = "shutdown"]
    /\ calls' = [calls EXCEPT ![c] = @ + 1]
    /\ UNCHANGED <<connVars, envVars, registry, userHolds, accepted,
                   owed, closeCount, serverVars, loopVars>>

ShutdownSet(c) ==
    /\ upc[c] = "shutdown" /\ Runs(IoLoop)
    /\ state' = [state EXCEPT ![c] = "Disconnecting"]
    /\ owed' = [owed EXCEPT ![c] = accepted[c]]
    /\ QueueInLoop(IoLoop, F("shutdownInLoop", c, 0))
    /\ upc' = [upc EXCEPT ![c] = "idle"]
    /\ UNCHANGED <<reading, calls, chan, inPoller, out, sock, finSent, written, envVars,
                   registry, userHolds, accepted, closeCount, calling, handled, serverVars>>

\* forceClose(): if kConnected or kDisconnecting { setState(kDisconnecting);
\* queueInLoop(bind(forceCloseInLoop, shared_from_this())); }
ForceCloseCheck(c) ==
    /\ UserIdle(c, "forceClose") /\ state[c] \in {"Connected", "Disconnecting"}
    /\ upc' = [upc EXCEPT ![c] = "forceClose"]
    /\ calls' = [calls EXCEPT ![c] = @ + 1]
    /\ UNCHANGED <<connVars, envVars, registry, userHolds, accepted,
                   owed, closeCount, serverVars, loopVars>>

ForceCloseSet(c) ==
    /\ upc[c] = "forceClose" /\ Runs(IoLoop)
    /\ state' = [state EXCEPT ![c] = "Disconnecting"]
    /\ QueueInLoop(IoLoop, F("forceCloseInLoop", c, 0))
    /\ upc' = [upc EXCEPT ![c] = "idle"]
    /\ UNCHANGED <<reading, calls, chan, inPoller, out, sock, finSent, written, envVars,
                   registry, userHolds, accepted, owed, closeCount, calling, handled, serverVars>>

\* The user drops its TcpConnectionPtr.
UserRelease(c) ==
    /\ userHolds[c] /\ upc[c] = "idle"
    /\ userHolds' = [userHolds EXCEPT ![c] = FALSE]
    /\ UNCHANGED <<connVars, envVars, registry, upc, calls, accepted, owed,
                   closeCount, serverVars, loopVars>>

-----------------------------------------------------------------------------
(* The peer: it sends, closes, and reads what the server wrote.            *)

PeerSend(c) ==
    /\ Alive(c) /\ ~peerClosed[c] /\ peerMsgs[c] < MaxPeerMsgs
    /\ peerData' = [peerData EXCEPT ![c] = TRUE]
    /\ peerMsgs' = [peerMsgs EXCEPT ![c] = @ + 1]
    /\ UNCHANGED <<connVars, peerClosed, registry, userVars, serverVars, loopVars>>

PeerClose(c) ==
    /\ Alive(c) /\ ~peerClosed[c]
    /\ peerClosed' = [peerClosed EXCEPT ![c] = TRUE]
    /\ UNCHANGED <<connVars, peerData, peerMsgs, registry, userVars, serverVars, loopVars>>

PeerRead(c) ==
    /\ sock[c] > 0
    /\ sock' = [sock EXCEPT ![c] = @ - 1]
    /\ UNCHANGED <<reading, state, chan, inPoller, out, finSent, written, envVars,
                   registry, userVars, serverVars, loopVars>>

-----------------------------------------------------------------------------
Init ==
    /\ state = [c \in Conns |-> "None"]
    /\ chan = [c \in Conns |-> {}]
    /\ reading = [c \in Conns |-> TRUE]
    /\ inPoller = [c \in Conns |-> FALSE]
    /\ out = [c \in Conns |-> 0]
    /\ sock = [c \in Conns |-> 0]
    /\ finSent = [c \in Conns |-> FALSE]
    /\ written = [c \in Conns |-> 0]
    /\ peerData = [c \in Conns |-> FALSE]
    /\ peerClosed = [c \in Conns |-> FALSE]
    /\ peerMsgs = [c \in Conns |-> 0]
    /\ registry = {}
    /\ userHolds = [c \in Conns |-> FALSE]
    /\ upc = [c \in Conns |-> "idle"]
    /\ calls = [c \in Conns |-> 0]
    /\ accepted = [c \in Conns |-> 0]
    /\ owed = [c \in Conns |-> 0]
    /\ closeCount = [c \in Conns |-> 0]
    /\ server = "constructed"
    /\ deadServerCalls = 0
    /\ ioLoop = "running"
    /\ LoopInit

HandleRead(c) ==
    \/ \E op \in CallbackOps, len \in MsgLens : HandleReadData(c, op, len)
    \/ HandleReadEof(c)

IoEvents == \E c \in Conns : HandleRead(c) \/ HandleWrite(c)
BaseEvents == Start \/ TcpServerDestroy \/ \E c \in Conns : NewConnection(c)
Functors(l) == StartPendingFunctors(l) \/ RunFunctor(l)

\* What the thread of loop l does besides handling events: its functors,
\* and on the server's teardown the base thread's quit() and the I/O
\* thread's return from loop().
LoopThread(l) ==
    \/ Functors(l)
    \/ l = BaseLoop /\ QuitIoLoop
    \/ l = IoLoop /\ LoopExit

UserThread ==
    \E c \in Conns :
        \/ SendCheck(c) \/ \E len \in MsgLens : SendQueue(c, len)
        \/ ShutdownCheck(c) \/ ShutdownSet(c)
        \/ ForceCloseCheck(c) \/ ForceCloseSet(c)
        \/ UserRelease(c)

Peer == \E c \in Conns : PeerSend(c) \/ PeerClose(c) \/ PeerRead(c)

Next ==
    \/ BaseEvents \/ IoEvents \/ \E l \in Loops : LoopThread(l)
    \/ UserThread \/ Peer

\* Both loop threads run their pending functors: doPendingFunctors() ends
\* every loop iteration.  A thread running ~TcpServer() goes on to quit()
\* and a quit I/O loop returns, so both teardown steps are weakly fair too.  poll() is level-triggered, so a connection that
\* stays readable is reported on every iteration and handleRead() is taken
\* however often functors run in between: strong fairness.  The user thread
\* and the peer are not assumed to do anything.
Spec ==
    /\ Init /\ [][Next]_vars
    /\ \A l \in Loops : WF_vars(LoopThread(l))
    /\ \A c \in Conns : SF_vars(HandleRead(c))

-----------------------------------------------------------------------------
(* Properties.                                                             *)

States == {"None", "Connecting", "Connected", "Disconnecting", "Disconnected"}
Units == 0..(MaxCalls * Max(MsgLens))

TypeOK ==
    /\ state \in [Conns -> States]
    /\ chan \in [Conns -> SUBSET {"Read", "Write"}]
    /\ inPoller \in [Conns -> BOOLEAN] /\ finSent \in [Conns -> BOOLEAN]
    /\ out \in [Conns -> Units] /\ written \in [Conns -> Units]
    /\ sock \in [Conns -> 0..SndBuf]
    /\ accepted \in [Conns -> Units] /\ owed \in [Conns -> Units]
    /\ peerData \in [Conns -> BOOLEAN] /\ peerClosed \in [Conns -> BOOLEAN]
    /\ peerMsgs \in [Conns -> 0..MaxPeerMsgs]
    /\ registry \subseteq Conns
    /\ userHolds \in [Conns -> BOOLEAN]
    /\ upc \in [Conns -> {"idle", "send", "shutdown", "forceClose"}]
    /\ calls \in [Conns -> 0..MaxCalls] /\ closeCount \in [Conns -> Nat]
    /\ server \in {"constructed", "started", "destroyed"} /\ deadServerCalls \in Nat
    /\ ioLoop \in {"running", "wake", "final", "exited"}

\* The server's connection callback sees a connection go down exactly once
\* (spec scenario S1): handleClose() and the kConnected branch of
\* connectDestroyed() together run at most once per connection, however
\* forceClose, the peer's close and the server's removal interleave.
DisconnectCallbackOnce == \A c \in Conns : closeCount[c] <= 1

\* Graceful shutdown: when shutdownWrite() sends FIN on a connection that
\* is still open, every unit of every send() that was accepted before
\* shutdown() has been written to the kernel ahead of it (spec 4.7), so
\* the peer reads all of it before EOF.
FinAfterQueuedOutput ==
    [][\A c \in Conns :
         (~finSent[c] /\ finSent'[c] /\ state[c] # "Disconnected")
           => written'[c] >= owed'[c]]_vars

\* connectDestroyed() removes the channel from the poller before the last
\* shared_ptr to the connection goes: no poller entry outlives its
\* TcpConnection, whichever of the registry, the user and the queued
\* functors lets go last.
ChannelRemovedBeforeDestroy == \A c \in Conns : Destroyed(c) => ~inPoller[c]

\* No functor bound to a raw this pointer outlives its object: no
\* sendInLoop or shutdownInLoop bound by send() from another thread or by
\* shutdown() is still queued when the connection is destroyed, and no
\* closeCallback_ (TcpServer::removeConnection) or queued
\* removeConnectionInLoop runs after ~TcpServer().  Either would use
\* freed memory.
NoDanglingRawFunctor ==
    /\ \A c \in Conns, l \in Loops :
          Destroyed(c) => \A f \in Queued(l) : f.conn = c => f.op \notin RawOps
    /\ deadServerCalls = 0

\* kDisconnected is final (spec 4.7: only Connected goes to Disconnecting):
\* no shutdown() or forceClose() from another thread moves a connection
\* that handleClose() has closed back to kDisconnecting.  Overwriting it
\* lets forceCloseInLoop run handleClose() a second time, or leaves
\* ~TcpConnection()'s assert(state_ == kDisconnected) to fail.
DisconnectedIsFinal ==
    [][\A c \in Conns : state[c] = "Disconnected" => state'[c] = "Disconnected"]_vars

\* A connection the peer has closed, once established and no longer held
\* by the user, is eventually destroyed: handleClose, removeConnectionInLoop
\* and connectDestroyed all run and nothing else keeps it.
ConnectionReleased ==
    \A c \in Conns :
        (peerClosed[c] /\ state[c] \notin {"None", "Connecting"} /\ ~userHolds[c])
          ~> Destroyed(c)

====
