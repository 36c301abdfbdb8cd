CONSTANTS
    NumThreads = 3
    NumConns = 7
    BaseLoop = BaseLoop
    NULL = NULL

SPECIFICATION ThSpec

\* The process ends once every thread has been joined; that final state has
\* no successor.
CHECK_DEADLOCK FALSE

INVARIANT TypeOK LoopsAliveWhileServing RoundRobinBalanced
INVARIANT HolderIsOwner StartLoopGetsLoop
PROPERTY TidSetWhenLatchOpens AllThreadsJoined ThreadsFinish
