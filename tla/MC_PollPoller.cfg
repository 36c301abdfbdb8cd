\* An Acceptor, listened or not before it is destroyed, and two connections.
CONSTANTS
    A = A
    C1 = C1
    C2 = C2
    AcceptChan = A
    NoChannel = NoChannel
    ConnChans <- MCConnChans
    Fds <- MCFds
    UnlistenedAcceptor = TRUE

SPECIFICATION IoSpec

\* Once the acceptor and every connection are closed the loop has nothing
\* left to do; that final state has no successor.
CHECK_DEADLOCK FALSE

INVARIANT TypeOK IndexConsistent BufTypeOK BufStreamIntact
PROPERTY PendingConnectionsServed
