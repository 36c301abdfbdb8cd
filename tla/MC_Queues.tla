------------------------------ MODULE MC_Queues ------------------------------
(* muduo's two blocking queues side by side; they share no state, and each *)
(* step is a step of one of them.                                          *)
(*                                                                         *)
(* BoundedBlockingQueue: two producers and two consumers over two slots;   *)
(* each side has a second thread to overtake a woken one, four items fill  *)
(* the queue twice over, and two items in it make front() and back()      *)
(* differ.                                                                 *)
(*                                                                         *)
(* BlockingQueue: one producer putting two items, two consumers taking one *)
(* each and one drain(): the two consumers can both be asleep when an item *)
(* arrives, and drain() can empty the deque under a woken consumer.        *)
EXTENDS BoundedBlockingQueue, TLC

CONSTANTS P1, P2, C1, C2, UP1, UC1, UC2, UD1

MCProducers == {P1, P2}
MCConsumers == {C1, C2}

VARIABLES uqueue, upc, udone, ugot

uvars == <<uqueue, upc, udone, ugot>>

U == INSTANCE BlockingQueue
       WITH queue <- uqueue, pc <- upc, done <- udone, got <- ugot,
            Producers <- {UP1}, Consumers <- {UC1, UC2}, Drainers <- {UD1},
            PutsEach <- 2, TakesEach <- 1

QueuesNext == \/ Next /\ UNCHANGED uvars
              \/ U!Next /\ UNCHANGED vars

QueuesInit == Init /\ U!Init

QueuesSpec == QueuesInit /\ [][QueuesNext]_<<vars, uvars>>
              /\ Fairness /\ U!Fairness

\* BlockingQueue's properties, under names of their own here.
UTakeFindsItem == U!TakeFindsItem
UItemsHandedOver == U!ItemsHandedOver
UFifoSpec == U!FifoSpec

====
