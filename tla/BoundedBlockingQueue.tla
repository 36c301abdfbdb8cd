------------------------- MODULE BoundedBlockingQueue -------------------------
(***************************************************************************)
(* muduo's BoundedBlockingQueue<T> (base/BoundedBlockingQueue.h): a        *)
(* circular buffer of maxSize items behind one mutex, with notFull_ for     *)
(* producers and notEmpty_ for consumers.  Condition::notify() is          *)
(* pthread_cond_signal(): it wakes one waiter, which must re-acquire the    *)
(* mutex before it runs again, so another thread can get there first.      *)
(*                                                                         *)
(* A thread's pc is "idle" when it is about to test the queue under the    *)
(* mutex (a new call, or the next turn of the while loop), "waitNotFull"   *)
(* or "waitNotEmpty" while blocked in Condition::wait(), and "woken" once  *)
(* signalled and not yet holding the mutex.  Each critical section is one  *)
(* step.  Items are <<producer, number>> pairs.                            *)
(***************************************************************************)
EXTENDS Naturals, Sequences, FiniteSets

CONSTANTS
    Producers,    \* threads calling put()
    Consumers,    \* threads calling take()
    MaxSize,      \* the capacity given to the constructor
    PutsEach,     \* put() calls each producer makes
    TakesEach     \* take() calls each consumer makes

ASSUME /\ MaxSize \in Nat \ {0} /\ Producers \cap Consumers = {}
       /\ Cardinality(Producers) * PutsEach = Cardinality(Consumers) * TakesEach

Threads == Producers \cup Consumers

VARIABLES
    queue,   \* queue_
    pc,      \* each thread's place in put() or take()
    done,    \* calls each thread has completed
    got      \* the items each consumer's take() calls returned

vars == <<queue, pc, done, got>>

Quota(t) == IF t \in Producers THEN PutsEach ELSE TakesEach

\* Condition::notify() on the condition whose waiters are in state w: one
\* waiter, if any, becomes runnable; pc0 is the pc already updated for the
\* notifying thread.
Notify(pc0, w) ==
    IF \E t \in Threads : pc0[t] = w
    THEN \E t \in {u \in Threads : pc0[u] = w} : pc' = [pc0 EXCEPT ![t] = "woken"]
    ELSE pc' = pc0

\* The item a producer's next put() passes.
Item(p) == <<p, done[p] + 1>>

-----------------------------------------------------------------------------
\* put(x): under the mutex, wait on notFull_ while the queue is full; then
\* push_back(x) and notEmpty_.notify().
Put(p) ==
    /\ pc[p] = "idle" /\ done[p] < PutsEach
    /\ IF Len(queue) = MaxSize
       THEN /\ pc' = [pc EXCEPT ![p] = "waitNotFull"]
            /\ UNCHANGED <<queue, done>>
       ELSE /\ queue' = Append(queue, Item(p))
            /\ done' = [done EXCEPT ![p] = @ + 1]
            /\ Notify(pc, "waitNotEmpty")
    /\ UNCHANGED got

\* Variant: put() that tests full() with `if`, pushing once woken.
PutWokenNoRecheck(p) ==
    /\ pc[p] = "woken"
    /\ queue' = Append(queue, Item(p))
    /\ done' = [done EXCEPT ![p] = @ + 1]
    /\ Notify([pc EXCEPT ![p] = "idle"], "waitNotEmpty")
    /\ UNCHANGED got

\* A signalled producer re-acquires the mutex and tests full() again.
PutWoken(p) ==
    /\ pc[p] = "woken"
    /\ pc' = [pc EXCEPT ![p] = "idle"]
    /\ UNCHANGED <<queue, done, got>>

\* Variant: take() that never signals notFull_.
TakeNoNotify(c) ==
    /\ pc[c] = "idle" /\ done[c] < TakesEach
    /\ IF queue = <<>>
       THEN /\ pc' = [pc EXCEPT ![c] = "waitNotEmpty"]
            /\ UNCHANGED <<queue, done, got>>
       ELSE /\ got' = [got EXCEPT ![c] = Append(@, Head(queue))]
            /\ queue' = SubSeq(queue, 2, Len(queue))
            /\ done' = [done EXCEPT ![c] = @ + 1]
            /\ UNCHANGED pc

\* Variant: take() that returns back() and pops it, as with pop_back().
TakeBack(c) ==
    /\ pc[c] = "idle" /\ done[c] < TakesEach
    /\ IF queue = <<>>
       THEN /\ pc' = [pc EXCEPT ![c] = "waitNotEmpty"]
            /\ UNCHANGED <<queue, done, got>>
       ELSE /\ got' = [got EXCEPT ![c] = Append(@, queue[Len(queue)])]
            /\ queue' = SubSeq(queue, 1, Len(queue) - 1)
            /\ done' = [done EXCEPT ![c] = @ + 1]
            /\ Notify(pc, "waitNotFull")

\* take(): under the mutex, wait on notEmpty_ while the queue is empty; then
\* move front() out, pop_front() and notFull_.notify().
Take(c) ==
    /\ pc[c] = "idle" /\ done[c] < TakesEach
    /\ IF queue = <<>>
       THEN /\ pc' = [pc EXCEPT ![c] = "waitNotEmpty"]
            /\ UNCHANGED <<queue, done, got>>
       ELSE /\ got' = [got EXCEPT ![c] = Append(@, Head(queue))]
            /\ queue' = SubSeq(queue, 2, Len(queue))
            /\ done' = [done EXCEPT ![c] = @ + 1]
            /\ Notify(pc, "waitNotFull")

\* Variant: take() that tests empty() with `if`, popping once woken.
TakeWokenNoRecheck(c) ==
    /\ pc[c] = "woken"
    /\ got' = [got EXCEPT ![c] = IF queue = <<>> THEN @ ELSE Append(@, Head(queue))]
    /\ queue' = SubSeq(queue, 2, Len(queue))
    /\ done' = [done EXCEPT ![c] = @ + 1]
    /\ Notify([pc EXCEPT ![c] = "idle"], "waitNotFull")

\* A signalled consumer re-acquires the mutex and tests empty() again.
TakeWoken(c) ==
    /\ pc[c] = "woken"
    /\ pc' = [pc EXCEPT ![c] = "idle"]
    /\ UNCHANGED <<queue, done, got>>

Init ==
    /\ queue = <<>>
    /\ pc = [t \in Threads |-> "idle"]
    /\ done = [t \in Threads |-> 0]
    /\ got = [c \in Consumers |-> <<>>]

Producer(p) == Put(p) \/ PutWoken(p)
Consumer(c) == Take(c) \/ TakeWoken(c)

Next == (\E p \in Producers : Producer(p)) \/ (\E c \in Consumers : Consumer(c))

\* Each runnable thread is eventually scheduled; a blocked one is not runnable.
Fairness == /\ \A p \in Producers : WF_vars(Producer(p))
            /\ \A c \in Consumers : WF_vars(Consumer(c))

Spec == Init /\ [][Next]_vars /\ Fairness

-----------------------------------------------------------------------------
(* Properties.                                                             *)

\* The circular buffer never holds more than maxSize items: put() pushes
\* only after it has seen room under the mutex (assert(!queue_.full())).
TypeOK ==
    /\ queue \in Seq(Producers \X (1 .. PutsEach)) /\ Len(queue) <= MaxSize
    /\ pc \in [Threads -> {"idle", "waitNotFull", "waitNotEmpty", "woken"}]
    /\ \A t \in Threads : done[t] \in 0 .. Quota(t)
    /\ got \in [Consumers -> Seq(Producers \X (1 .. PutsEach))]

\* take() pops only from a non-empty queue (assert(!queue_.empty())), even
\* when another consumer takes the item a signal was sent for before the
\* woken consumer gets the mutex back.
TakeFindsItem ==
    [][\A c \in Consumers : done'[c] = done[c] + 1 => queue # <<>>]_vars

\* Every call returns: no producer or consumer stays blocked on a signal
\* that was never sent or went to the other side.
AllCallsReturn ==
    <>(\A t \in Threads : done[t] = Quota(t))

\* The queue as its callers see it (FifoQueue): the mutex, the two
\* conditions and the while-loops add no behaviour of their own.  Every
\* step that changes the queue is one whole put() or take() of a FIFO
\* queue of maxSize items, and take() returns the oldest item, the one a
\* woken consumer finds at front() after others have overtaken it
\* included.  Blocking, waking and re-testing are stuttering steps.
Fifo == INSTANCE FifoQueue WITH Capacity <- MaxSize
FifoSpec == Fifo!Spec

====
