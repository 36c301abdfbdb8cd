CONSTANTS
    P1 = P1
    P2 = P2
    C1 = C1
    C2 = C2
    UP1 = UP1
    UC1 = UC1
    UC2 = UC2
    UD1 = UD1
    Producers <- MCProducers
    Consumers <- MCConsumers
    MaxSize = 2
    PutsEach = 2
    TakesEach = 2

SPECIFICATION QueuesSpec

\* Every thread returns from its last call, or (in BlockingQueue, after a
\* drain() took its item) stays blocked in take(); that final state has no
\* successor.
CHECK_DEADLOCK FALSE

INVARIANT TypeOK
PROPERTY TakeFindsItem AllCallsReturn FifoSpec UTakeFindsItem UItemsHandedOver UFifoSpec
