------------------------------ MODULE EventLoop ------------------------------
(***************************************************************************)
(* The cross-thread part of muduo's EventLoop: the mutex-protected queue   *)
(* of pending functors, and doPendingFunctors(), which swaps the whole     *)
(* queue out under the lock and then runs the swapped-out functors one by  *)
(* one.  Functors queued while that list runs wait for the next round.     *)
(*                                                                         *)
(* EventLoop.cc is not part of the source tree studied here, so these      *)
(* definitions follow the specification (section 4.4).  Only the           *)
(* declarations in EventLoop.h (pendingFunctors_ GUARDED_BY(mutex_),       *)
(* runInLoop/queueInLoop) are in the source.                               *)
(*                                                                         *)
(* A functor is a record; the module that composes EventLoop gives each    *)
(* kind of record its meaning.  runInLoop(f) called on the loop's own      *)
(* thread runs f inline: a composing module writes that case as part of    *)
(* the calling action, and uses QueueInLoop only for the cross-thread case *)
(* and for queueInLoop proper.  The wakeup fd only shortens the 10 s poll  *)
(* timeout; it changes no state that a property reads and is left out.     *)
(***************************************************************************)
EXTENDS Sequences

CONSTANT Loops      \* the EventLoop objects, one per loop thread

VARIABLES
    pending,        \* pendingFunctors_: functors queued under mutex_
    calling,        \* the list swapped out by doPendingFunctors(), still to run
    handled         \* channels whose events this loop iteration has handled

loopVars == <<pending, calling, handled>>

LoopInit ==
    /\ pending = [l \in Loops |-> <<>>]
    /\ calling = [l \in Loops |-> <<>>]
    /\ handled = [l \in Loops |-> {}]

\* queueInLoop(cb): append under the mutex.
QueueInLoop(l, f) == pending' = [pending EXCEPT ![l] = Append(@, f)]

\* loop(): after poll() returns, each active channel's handleEvent() runs
\* once; doPendingFunctors() then ends the iteration.  ch names a channel
\* (and which of its handlers runs) in the composing module.
HandleEvent(l, ch) ==
    /\ calling[l] = <<>>
    /\ ch \notin handled[l]
    /\ handled' = [handled EXCEPT ![l] = @ \cup {ch}]

\* doPendingFunctors(): swap pendingFunctors_ into a local list under the
\* lock.  It ends every iteration, whether or not anything is queued.
DoPendingFunctors(l) ==
    /\ calling[l] = <<>>
    /\ pending[l] # <<>> \/ handled[l] # {}
    /\ calling' = [calling EXCEPT ![l] = pending[l]]
    /\ pending' = [pending EXCEPT ![l] = <<>>]
    /\ handled' = [handled EXCEPT ![l] = {}]

\* The functor doPendingFunctors() runs next, and its removal once it has run.
CurrentFunctor(l) == Head(calling[l])
FunctorDone(l) == calling' = [calling EXCEPT ![l] = Tail(@)]

\* The loop thread is between polls (not inside doPendingFunctors()).
Polling(l) == calling[l] = <<>>

\* Every functor that is queued on a loop or being run by it.
Queued(l) == {pending[l][i] : i \in DOMAIN pending[l]}
                \cup {calling[l][i] : i \in DOMAIN calling[l]}

=============================================================================
