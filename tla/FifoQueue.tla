------------------------------ MODULE FifoQueue ------------------------------
(***************************************************************************)
(* What a blocking queue promises its callers, with no threads in it: a    *)
(* put() takes effect at once when there is room, a take() at once when    *)
(* there is an item, and take() returns the oldest item.  A call that      *)
(* cannot take effect simply has not happened yet.  got[c] is the sequence *)
(* of items consumer c's take() calls have returned; drain(), where the    *)
(* queue has it, hands every item over at once, oldest first.              *)
(***************************************************************************)
EXTENDS Naturals, Sequences

CONSTANTS Producers, Consumers, Capacity, PutsEach, TakesEach

VARIABLES queue, done, got

Put(p) ==
    /\ done[p] < PutsEach /\ Len(queue) < Capacity
    /\ queue' = Append(queue, <<p, done[p] + 1>>)
    /\ done' = [done EXCEPT ![p] = @ + 1]
    /\ UNCHANGED got

Take(c) ==
    /\ done[c] < TakesEach /\ queue # <<>>
    /\ got' = [got EXCEPT ![c] = Append(@, Head(queue))]
    /\ queue' = Tail(queue)
    /\ done' = [done EXCEPT ![c] = @ + 1]

Drain(c) ==
    /\ got' = [got EXCEPT ![c] = @ \o queue]
    /\ queue' = <<>>
    /\ UNCHANGED done

Init ==
    /\ queue = <<>>
    /\ done = [t \in Producers \cup Consumers |-> 0]
    /\ got = [c \in Consumers |-> <<>>]

Next == \/ \E p \in Producers : Put(p)
        \/ \E c \in Consumers : Take(c) \/ Drain(c)

Spec == Init /\ [][Next]_<<queue, done, got>>

====
