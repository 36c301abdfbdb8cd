CONSTANTS
    LoopA = LoopA
    Loops <- MCLoops
    Addrs <- MCAddrs
    Delays <- MCDelays
    Intervals <- MCIntervals
    MaxTimers = 3
    MaxTime = 3
    MaxPending = 1

SPECIFICATION Spec

INVARIANT TypeOK
INVARIANT TimerListsAgree
INVARIANT NoCancelledTimerRearmed
INVARIANT ArmedCoversEarliest
PROPERTY DueTimersRun

\* The clock stops at MaxTime; after that the loop has nothing left to do.
CHECK_DEADLOCK FALSE
