------------------------------ MODULE PollPoller ------------------------------
(***************************************************************************)
(* muduo's PollPoller (src/muduo/net/poller/PollPoller.cc) and the Channel *)
(* interest calls that drive it (Channel.h): pollfds_, the vector handed   *)
(* to poll(2), and channels_, the map from fd to Channel.  A channel's     *)
(* index_ is its position in pollfds_; a channel with no interest keeps    *)
(* its entry with the fd encoded as -fd-1, which poll() ignores.           *)
(*                                                                         *)
(* The channels' owners are an Acceptor (Acceptor.cc) and the connections  *)
(* it accepts.  The Acceptor holds the listening socket and a spare fd on  *)
(* /dev/null; when accept() fails with EMFILE it gives the spare up to     *)
(* accept and drop the pending connection.  A connection's channel is      *)
(* enabled by connectEstablished(), changes interest while it writes,      *)
(* loses all interest in handleClose(), is removed by connectDestroyed()   *)
(* (after handleClose(), or when ~TcpServer() destroys a connection in     *)
(* whatever state_ it is) and its fd is closed by ~Socket.  The kernel hands out the lowest free  *)
(* fd, so fds are reused.  Everything runs on the owning loop's thread.    *)
(***************************************************************************)
EXTENDS Integers, Sequences, FiniteSets

CONSTANTS
    AcceptChan,          \* the Acceptor's acceptChannel_
    ConnChans,           \* the channels of accepted connections
    Fds,                 \* the fds the kernel may hand out (naturals)
    NoChannel,           \* channels_ has no entry for this fd
    UnlistenedAcceptor   \* the Acceptor may be destroyed without listen()

Chans == {AcceptChan} \cup ConnChans

\* Clients connect at most once per connection channel.
MaxConnects == Cardinality(ConnChans)

ASSUME /\ Fds \subseteq Nat /\ NoChannel \notin Chans /\ AcceptChan \notin ConnChans
       /\ UnlistenedAcceptor \in BOOLEAN

Events == {"Read", "Write"}

VARIABLES
    pollfds,   \* pollfds_: a sequence of [fd, events]
    channels,  \* channels_: fd -> Channel, or NoChannel
    index,     \* index_ of each channel: -1 until added
    events,    \* events_ of each channel
    fdOf,      \* fd_ of each channel
    life,      \* "unborn", "open", "removed" (from the poller), "closed"
    active,    \* activeChannels of the last poll(): [ch, fd, events] records
    idleFd,    \* Acceptor::idleFd_, or -1 when not open
    listening, \* Acceptor::listening_
    backlog,   \* connections the kernel has queued on the listening socket
    connects,  \* connections clients have made
    connState, \* the TcpConnection's state_ for a connection's channel
    aborted    \* an assert() in removeChannel() failed and the process died

vars == <<pollfds, channels, index, events, fdOf, life, active,
          idleFd, listening, backlog, connects, connState, aborted>>

\* The fds no open socket or file holds: what socket(), accept() and open()
\* choose from, lowest first.
FreeFds == Fds \ ({fdOf[x] : x \in {y \in Chans : life[y] \in {"open", "removed"}}}
                  \cup {idleFd})
Lowest(S) == CHOOSE f \in S : \A g \in S : f <= g

\* -fd-1: the entry of a channel with no interest.
Ignored(f) == -f - 1

\* poll() ignores a negative fd; an ignored entry decodes back to its fd.
Decode(f) == IF f < 0 THEN -f - 1 ELSE f

-----------------------------------------------------------------------------
(* The poller.  Its state is the record [pollfds, channels, index]; an     *)
(* owner's handler may call it twice (disableAll(), then remove()), so     *)
(* updateChannel() and removeChannel() are functions of that record.      *)

Poller == [pollfds |-> pollfds, channels |-> channels, index |-> index]

SetPoller(s) == /\ pollfds' = s.pollfds /\ channels' = s.channels /\ index' = s.index

\* Variant: updateChannel() that takes every channel for a new one.
UpdateChannelAlwaysNew(s, ch, ev) ==
    [s EXCEPT !.pollfds = Append(@, [fd |-> fdOf[ch], events |-> ev]),
              !.index[ch] = Len(s.pollfds),
              !.channels[fdOf[ch]] = ch]

\* updateChannel(channel), with the channel's events_ now ev: a new channel
\* is appended and gets index_ = size-1; a known one has its entry rewritten,
\* with the fd encoded as -fd-1 when it has no interest.
UpdateChannel(s, ch, ev) ==
    IF s.index[ch] < 0
    THEN [s EXCEPT !.pollfds = Append(@, [fd |-> fdOf[ch], events |-> ev]),
                   !.index[ch] = Len(s.pollfds),
                   !.channels[fdOf[ch]] = ch]
    ELSE [s EXCEPT !.pollfds[s.index[ch] + 1] =
                     [fd |-> IF ev = {} THEN Ignored(fdOf[ch]) ELSE fdOf[ch],
                      events |-> ev]]

\* The assertions removeChannel() makes on the entry of a channel whose
\* events_ is ev: it is known, in range, and ignored with the same events.
RemoveAsserts(s, ch, ev) ==
    /\ s.channels[fdOf[ch]] = ch /\ ev = {}
    /\ 0 <= s.index[ch] /\ s.index[ch] < Len(s.pollfds)
    /\ s.pollfds[s.index[ch] + 1].fd = Ignored(fdOf[ch])
    /\ s.pollfds[s.index[ch] + 1].events = ev

\* Variant: removeChannel() that looks up the moved entry's fd undecoded.
RemoveChannelNoDecode(s, ch) ==
    LET idx == s.index[ch]
        last == s.pollfds[Len(s.pollfds)]
        popped == SubSeq([s.pollfds EXCEPT ![idx + 1] = last], 1, Len(s.pollfds) - 1)
    IN IF idx = Len(s.pollfds) - 1
       THEN [s EXCEPT !.channels[fdOf[ch]] = NoChannel,
                      !.pollfds = SubSeq(@, 1, Len(@) - 1)]
       ELSE IF last.fd \in Fds
            THEN [s EXCEPT !.channels[fdOf[ch]] = NoChannel, !.pollfds = popped,
                           !.index[s.channels[last.fd]] = idx]
            ELSE [s EXCEPT !.channels[fdOf[ch]] = NoChannel, !.pollfds = popped]

\* removeChannel(channel): erase it from channels_; unless its entry is the
\* last, move the last entry into its slot (iter_swap, pop_back) and fix
\* the moved channel's index_, decoding its fd if it is ignored.  The
\* removed channel's own index_ is left as it was.
RemoveChannel(s, ch) ==
    LET idx == s.index[ch]
        last == s.pollfds[Len(s.pollfds)]
    IN IF idx = Len(s.pollfds) - 1
       THEN [s EXCEPT !.channels[fdOf[ch]] = NoChannel,
                      !.pollfds = SubSeq(@, 1, Len(@) - 1)]
       ELSE [s EXCEPT !.channels[fdOf[ch]] = NoChannel,
                      !.pollfds = SubSeq([@ EXCEPT ![idx + 1] = last], 1, Len(@) - 1),
                      !.index[s.channels[Decode(last.fd)]] = idx]

\* poll() and fillActiveChannels(): the kernel reports any entry with a
\* non-negative fd (POLLHUP and POLLERR need no interest); each is looked
\* up in channels_.
Poll ==
    \E ready \in SUBSET {i \in DOMAIN pollfds : pollfds[i].fd >= 0} :
        /\ active' = {[ch |-> channels[pollfds[i].fd], fd |-> pollfds[i].fd,
                       events |-> pollfds[i].events] : i \in ready}
        /\ UNCHANGED <<pollfds, channels, index, events, fdOf, life,
                       idleFd, listening, backlog, connects, connState, aborted>>

-----------------------------------------------------------------------------
(* The Acceptor.                                                           *)

\* Acceptor(): the listening socket, its channel (not yet enabled) and the
\* spare fd idleFd_ = open("/dev/null").
AcceptorNew ==
    /\ life[AcceptChan] = "unborn" /\ Cardinality(FreeFds) >= 2
    /\ fdOf' = [fdOf EXCEPT ![AcceptChan] = Lowest(FreeFds)]
    /\ idleFd' = Lowest(FreeFds \ {Lowest(FreeFds)})
    /\ life' = [life EXCEPT ![AcceptChan] = "open"]
    /\ UNCHANGED <<pollfds, channels, index, events, active, listening,
                   backlog, connects, connState, aborted>>

\* listen(): listening_ = true, listen(2), acceptChannel_.enableReading().
Listen ==
    /\ life[AcceptChan] = "open" /\ ~listening
    /\ listening' = TRUE
    /\ events' = [events EXCEPT ![AcceptChan] = @ \cup {"Read"}]
    /\ SetPoller(UpdateChannel(Poller, AcceptChan, events[AcceptChan] \cup {"Read"}))
    /\ UNCHANGED <<fdOf, life, active, idleFd, backlog, connects, connState, aborted>>

\* A client connects; the kernel queues it on the listening socket.
Connect ==
    /\ life[AcceptChan] = "open" /\ listening /\ connects < MaxConnects
    /\ backlog' = backlog + 1 /\ connects' = connects + 1
    /\ UNCHANGED <<pollfds, channels, index, events, fdOf, life, active,
                   idleFd, listening, connState, aborted>>

\* Variant: handleRead() without the EMFILE branch: it only logs.
HandleAcceptNoIdleFd ==
    /\ life[AcceptChan] = "open" /\ "Read" \in events[AcceptChan] /\ backlog > 0
    /\ IF FreeFds # {}
       THEN \E ch \in {c \in ConnChans : life[c] = "unborn"} :
               /\ fdOf' = [fdOf EXCEPT ![ch] = Lowest(FreeFds)]
               /\ life' = [life EXCEPT ![ch] = "open"]
               /\ backlog' = backlog - 1
       ELSE UNCHANGED <<fdOf, life, backlog>>
    /\ UNCHANGED <<pollfds, channels, index, events, active, idleFd,
                   listening, connects, connState, aborted>>

\* handleRead(), run while poll() reports the listening socket readable:
\* accept() a connection and pass it to newConnectionCallback_, which
\* creates its TcpConnection and channel.  On EMFILE, close idleFd_, accept
\* the connection into the freed fd, close it, and open /dev/null again.
HandleAccept ==
    /\ life[AcceptChan] = "open" /\ "Read" \in events[AcceptChan] /\ backlog > 0
    /\ backlog' = backlog - 1
    /\ IF FreeFds # {}
       THEN \E ch \in {c \in ConnChans : life[c] = "unborn"} :
               /\ fdOf' = [fdOf EXCEPT ![ch] = Lowest(FreeFds)]
               /\ life' = [life EXCEPT ![ch] = "open"]
               /\ UNCHANGED idleFd
       ELSE /\ idleFd' = Lowest(FreeFds \cup {idleFd})
            /\ UNCHANGED <<fdOf, life>>
    /\ UNCHANGED <<pollfds, channels, index, events, active, listening,
                   connects, connState, aborted>>

\* ~Acceptor(): acceptChannel_.disableAll(), acceptChannel_.remove(),
\* close(idleFd_); ~Socket then closes the listening socket.  A TcpServer
\* destroyed before start() destroys an Acceptor that never listened.
\* When an assertion of removeChannel() fails the process stops there.
AcceptorDestroy ==
    /\ life[AcceptChan] = "open" /\ (listening \/ UnlistenedAcceptor)
    /\ LET off == UpdateChannel(Poller, AcceptChan, {})
       IN /\ aborted' = ~RemoveAsserts(off, AcceptChan, {})
          /\ SetPoller(IF aborted' THEN off ELSE RemoveChannel(off, AcceptChan))
    /\ events' = [events EXCEPT ![AcceptChan] = {}]
    /\ IF aborted'
       THEN UNCHANGED <<life, idleFd, backlog>>
       ELSE /\ life' = [life EXCEPT ![AcceptChan] = "closed"]
            /\ idleFd' = -1 /\ backlog' = 0
    /\ UNCHANGED <<fdOf, active, listening, connects, connState>>

-----------------------------------------------------------------------------
(* A connection's channel, and the TcpConnection state_ that decides      *)
(* whether connectDestroyed() disables it.                                 *)

\* The interest calls: events_ changes, then update() passes the channel to
\* the poller.
SetInterest(ch, ev) ==
    /\ life[ch] = "open" /\ index[ch] >= 0
    /\ events' = [events EXCEPT ![ch] = ev]
    /\ SetPoller(UpdateChannel(Poller, ch, ev))
    /\ UNCHANGED <<fdOf, life, active, idleFd, listening, backlog, connects, aborted>>

\* connectEstablished(): kConnected, then enableReading(), the channel's
\* first update(), which adds it to the poller.
ConnectEstablished(ch) ==
    /\ life[ch] = "open" /\ index[ch] < 0
    /\ connState' = [connState EXCEPT ![ch] = "Connected"]
    /\ events' = [events EXCEPT ![ch] = {"Read"}]
    /\ SetPoller(UpdateChannel(Poller, ch, {"Read"}))
    /\ UNCHANGED <<fdOf, life, active, idleFd, listening, backlog, connects, aborted>>

\* startRead()/stopRead() and sendInLoop()/handleWrite() change the
\* interest of a channel in the poller, whatever state_ is.
EnableReading(ch) == SetInterest(ch, events[ch] \cup {"Read"}) /\ UNCHANGED connState
DisableReading(ch) == SetInterest(ch, events[ch] \ {"Read"}) /\ UNCHANGED connState
EnableWriting(ch) == SetInterest(ch, events[ch] \cup {"Write"}) /\ UNCHANGED connState
DisableWriting(ch) == SetInterest(ch, events[ch] \ {"Write"}) /\ UNCHANGED connState

\* shutdown() on the loop thread: kConnected becomes kDisconnecting;
\* shutdownInLoop() only half-closes the socket, the channel keeps its
\* interest until the peer's close.
Shutdown(ch) ==
    /\ life[ch] = "open" /\ connState[ch] = "Connected"
    /\ connState' = [connState EXCEPT ![ch] = "Disconnecting"]
    /\ UNCHANGED <<pollfds, channels, index, events, fdOf, life, active, idleFd,
                   listening, backlog, connects, aborted>>

\* handleClose(): assert(kConnected or kDisconnecting), kDisconnected,
\* channel_->disableAll().
HandleClose(ch) ==
    /\ connState[ch] \in {"Connected", "Disconnecting"}
    /\ SetInterest(ch, {})
    /\ connState' = [connState EXCEPT ![ch] = "Disconnected"]

\* connectDestroyed(): if (state_ == kConnected) { kDisconnected;
\* channel_->disableAll(); } then channel_->remove().
ConnectDestroyed(ch) ==
    /\ life[ch] = "open" /\ index[ch] >= 0
    /\ LET closing == connState[ch] = "Connected"
           ev == IF closing THEN {} ELSE events[ch]
           off == IF closing THEN UpdateChannel(Poller, ch, {}) ELSE Poller
       IN /\ aborted' = ~RemoveAsserts(off, ch, ev)
          /\ SetPoller(IF aborted' THEN off ELSE RemoveChannel(off, ch))
          /\ events' = [events EXCEPT ![ch] = ev]
          /\ connState' = IF closing THEN [connState EXCEPT ![ch] = "Disconnected"]
                          ELSE connState
    /\ life' = IF aborted' THEN life ELSE [life EXCEPT ![ch] = "removed"]
    /\ UNCHANGED <<fdOf, active, idleFd, listening, backlog, connects>>

\* ~TcpConnection destroys its Socket, whose destructor closes the fd.
CloseSocket(ch) ==
    /\ life[ch] = "removed"
    /\ life' = [life EXCEPT ![ch] = "closed"]
    /\ UNCHANGED <<pollfds, channels, index, events, fdOf, active, idleFd,
                   listening, backlog, connects, connState, aborted>>

Init ==
    /\ pollfds = <<>>
    /\ channels = [f \in Fds |-> NoChannel]
    /\ index = [ch \in Chans |-> -1]
    /\ events = [ch \in Chans |-> {}]
    /\ fdOf = [ch \in Chans |-> -1]
    /\ life = [ch \in Chans |-> "unborn"]
    /\ active = {}
    /\ idleFd = -1 /\ listening = FALSE /\ backlog = 0 /\ connects = 0
    /\ connState = [ch \in ConnChans |-> "Connecting"]
    /\ aborted = FALSE

Next ==
    /\ ~aborted
    /\ \/ Poll \/ AcceptorNew \/ Listen \/ Connect \/ HandleAccept \/ AcceptorDestroy
       \/ \E ch \in ConnChans :
             \/ ConnectEstablished(ch)
             \/ EnableReading(ch) \/ DisableReading(ch) \/ EnableWriting(ch)
             \/ DisableWriting(ch) \/ Shutdown(ch) \/ HandleClose(ch)
             \/ ConnectDestroyed(ch) \/ CloseSocket(ch)

\* The loop thread polls again and again, so it keeps handling a readable
\* listening socket.
Spec == Init /\ [][Next]_vars /\ WF_vars(HandleAccept)

-----------------------------------------------------------------------------
(* Properties.                                                             *)

\* The channels the poller holds: added and not yet removed.
Registered == {ch \in Chans : life[ch] = "open" /\ index[ch] >= 0}

FdRange == {-1} \cup Fds \cup {Ignored(f) : f \in Fds}

\* pollfds_ never holds more entries than there are fds to poll.
TypeOK ==
    /\ Len(pollfds) <= Cardinality(Fds)
    /\ \A i \in DOMAIN pollfds : pollfds[i] \in [fd : FdRange, events : SUBSET Events]
    /\ channels \in [Fds -> Chans \cup {NoChannel}]
    /\ index \in [Chans -> -1 .. Cardinality(Fds) - 1]
    /\ events \in [Chans -> SUBSET Events]
    /\ fdOf \in [Chans -> FdRange] /\ idleFd \in FdRange
    /\ life \in [Chans -> {"unborn", "open", "removed", "closed"}]
    /\ backlog \in 0 .. MaxConnects /\ connects \in 0 .. MaxConnects
    /\ connState \in [ConnChans -> {"Connecting", "Connected", "Disconnecting", "Disconnected"}]

\* updateChannel() and removeChannel() keep channels_, pollfds_ and every
\* channel's index_ in step across any sequence of adds, interest changes,
\* swap-with-last removals and fd reuse: each registered channel's index_
\* points at an entry carrying its fd (possibly as -fd-1) and its events,
\* and pollfds_ has exactly one entry per registered channel.
IndexConsistent ==
    /\ Len(pollfds) = Cardinality(Registered)
    /\ \A ch \in Registered :
          /\ index[ch] < Len(pollfds)
          /\ Decode(pollfds[index[ch] + 1].fd) = fdOf[ch]
          /\ pollfds[index[ch] + 1].events = events[ch]
          /\ channels[fdOf[ch]] = ch
    /\ \A f \in Fds : channels[f] # NoChannel => channels[f] \in Registered

\* The listening socket does not stay readable for ever: every connection
\* the kernel queued is taken off the backlog by handleRead(), accepted or,
\* when the process is out of fds, accepted into idleFd_ and dropped,
\* unless the acceptor is closed or an assertion has ended the process.
PendingConnectionsServed ==
    backlog > 0 ~> (backlog = 0 \/ life[AcceptChan] = "closed" \/ aborted)

====
