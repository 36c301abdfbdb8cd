---------------------------- MODULE BlockingQueue ----------------------------
(***************************************************************************)
(* muduo's unbounded BlockingQueue<T> (base/BlockingQueue.h): a deque      *)
(* behind one mutex and one condition, notEmpty_.  put() never blocks:     *)
(* it pushes and signals one waiting consumer.  take() waits while the     *)
(* deque is empty; drain() moves the whole deque out under the mutex and   *)
(* signals no one.                                                         *)
(*                                                                         *)
(* pc is as in BoundedBlockingQueue: "idle" about to test the deque under  *)
(* the mutex, "waitNotEmpty" blocked in Condition::wait(), "woken" once    *)
(* runnable again and not yet holding the mutex.  pthread_cond_wait() may  *)
(* also return with no signal at all (a spurious wakeup, which the         *)
(* while-loop in take() is written for); that is a step of its own, and    *)
(* nothing makes it happen.                                                *)
(***************************************************************************)
EXTENDS Naturals, Sequences, FiniteSets

CONSTANTS
    Producers,    \* threads calling put()
    Consumers,    \* threads calling take()
    Drainers,     \* threads calling drain() once
    PutsEach,     \* put() calls each producer makes
    TakesEach     \* take() calls each consumer makes

ASSUME /\ Producers \cap Consumers = {} /\ Drainers \cap (Producers \cup Consumers) = {}
       /\ {PutsEach, TakesEach} \subseteq Nat

Threads == Producers \cup Consumers \cup Drainers

Item == Producers \X (1 .. PutsEach)

VARIABLES
    queue,   \* queue_
    pc,      \* each thread's place in its call
    done,    \* calls each thread has completed
    got      \* the items each consumer's take() or drainer's drain() returned

vars == <<queue, pc, done, got>>

Quota(t) == CASE t \in Producers -> PutsEach
              [] t \in Consumers -> TakesEach
              [] t \in Drainers  -> 1

\* Condition::notify(): pthread_cond_signal() makes one thread waiting in
\* state w runnable, if there is one; pc0 already holds the caller's change.
Notify(pc0, w) ==
    IF \E t \in Threads : pc0[t] = w
    THEN \E t \in {u \in Threads : pc0[u] = w} : pc' = [pc0 EXCEPT ![t] = "woken"]
    ELSE pc' = pc0

-----------------------------------------------------------------------------
\* Variant: put() that pushes without notEmpty_.notify().
PutNoNotify(p) ==
    /\ pc[p] = "idle" /\ done[p] < PutsEach
    /\ queue' = Append(queue, <<p, done[p] + 1>>)
    /\ done' = [done EXCEPT ![p] = @ + 1]
    /\ UNCHANGED <<pc, got>>

\* put(x), either overload: under the mutex, push_back(x), then
\* notEmpty_.notify().
Put(p) ==
    /\ pc[p] = "idle" /\ done[p] < PutsEach
    /\ queue' = Append(queue, <<p, done[p] + 1>>)
    /\ done' = [done EXCEPT ![p] = @ + 1]
    /\ Notify(pc, "waitNotEmpty")
    /\ UNCHANGED got

\* take(): under the mutex, wait on notEmpty_ while the deque is empty;
\* then move front() out and pop_front().
Take(c) ==
    /\ pc[c] = "idle" /\ done[c] < TakesEach
    /\ IF queue = <<>>
       THEN /\ pc' = [pc EXCEPT ![c] = "waitNotEmpty"]
            /\ UNCHANGED <<queue, done, got>>
       ELSE /\ got' = [got EXCEPT ![c] = Append(@, Head(queue))]
            /\ queue' = Tail(queue)
            /\ done' = [done EXCEPT ![c] = @ + 1]
            /\ UNCHANGED pc

\* Variant: take() that tests empty() with `if`, popping once woken.
TakeWokenNoRecheck(c) ==
    /\ pc[c] = "woken"
    /\ pc' = [pc EXCEPT ![c] = "idle"]
    /\ got' = [got EXCEPT ![c] = IF queue = <<>> THEN @ ELSE Append(@, Head(queue))]
    /\ queue' = SubSeq(queue, 2, Len(queue))
    /\ done' = [done EXCEPT ![c] = @ + 1]

\* A runnable consumer re-acquires the mutex and tests empty() again.
TakeWoken(c) ==
    /\ pc[c] = "woken"
    /\ pc' = [pc EXCEPT ![c] = "idle"]
    /\ UNCHANGED <<queue, done, got>>

\* pthread_cond_wait() returns with no signal.
SpuriousWakeup(c) ==
    /\ pc[c] = "waitNotEmpty"
    /\ pc' = [pc EXCEPT ![c] = "woken"]
    /\ UNCHANGED <<queue, done, got>>

\* Variant: drain() that copies queue_ instead of moving it out.
DrainCopy(d) ==
    /\ pc[d] = "idle" /\ done[d] = 0
    /\ got' = [got EXCEPT ![d] = queue]
    /\ done' = [done EXCEPT ![d] = 1]
    /\ UNCHANGED <<queue, pc>>

\* drain(): under the mutex, std::move(queue_) into the result, leaving
\* queue_ empty (assert(queue_.empty())); no one is signalled.
Drain(d) ==
    /\ pc[d] = "idle" /\ done[d] = 0
    /\ got' = [got EXCEPT ![d] = queue]
    /\ queue' = <<>>
    /\ done' = [done EXCEPT ![d] = 1]
    /\ UNCHANGED pc

\* BlockingQueue(): an empty deque.
Init ==
    /\ queue = <<>>
    /\ pc = [t \in Threads |-> "idle"]
    /\ done = [t \in Threads |-> 0]
    /\ got = [t \in Consumers \cup Drainers |-> <<>>]

Consumer(c) == Take(c) \/ TakeWoken(c)

Next == \/ \E p \in Producers : Put(p)
        \/ \E c \in Consumers : Consumer(c) \/ SpuriousWakeup(c)
        \/ \E d \in Drainers : Drain(d)

\* Each runnable thread is eventually scheduled; a spurious wakeup may
\* never come.
Fairness == /\ \A p \in Producers : WF_vars(Put(p))
            /\ \A c \in Consumers : WF_vars(Consumer(c))
            /\ \A d \in Drainers : WF_vars(Drain(d))

Spec == Init /\ [][Next]_vars /\ Fairness

-----------------------------------------------------------------------------
(* Properties.                                                             *)

TypeOK ==
    /\ queue \in Seq(Item)
    /\ pc \in [Threads -> {"idle", "waitNotEmpty", "woken"}]
    /\ \A t \in Threads : done[t] \in 0 .. Quota(t)
    /\ got \in [Consumers \cup Drainers -> Seq(Item)]

\* take() pops only from a non-empty deque (assert(!queue_.empty())): a
\* consumer back from wait() finds the deque empty after a spurious
\* wakeup, after another consumer took the item it was signalled for, or
\* after a drain() emptied it, and waits again.
TakeFindsItem ==
    [][\A c \in Consumers : done'[c] = done[c] + 1 => queue # <<>>]_vars

\* No item is left behind: once the producers are done, every item put is
\* eventually taken or drained, so long as the consumers still have take()
\* calls for them.  A put() whose signal went nowhere while a consumer
\* slept would leave the item in the deque and the consumer asleep.
ItemsHandedOver ==
    <>(/\ \A p \in Producers : done[p] = PutsEach
       /\ queue = <<>>)

\* The deque as its callers see it (FifoQueue): put() and take() are FIFO,
\* and drain() hands over exactly the items no take() returned, in order.
\* Drainers are consumers of the abstract queue; waking is stuttering.
Fifo == INSTANCE FifoQueue
        WITH Consumers <- Consumers \cup Drainers,
             Capacity <- Cardinality(Producers) * PutsEach,
             done <- [t \in Producers \cup Consumers \cup Drainers |->
                        IF t \in Drainers THEN 0 ELSE done[t]]
FifoSpec == Fifo!Spec

====
