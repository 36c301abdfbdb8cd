------------------------------ MODULE MutexLock ------------------------------
(***************************************************************************)
(* muduo's MutexLock and Condition (base/Mutex.h, base/Condition.h) one    *)
(* statement at a time, as EventLoopThread (net/EventLoopThread.cc) uses   *)
(* them: startLoop() on the parent thread waits on cond_ until threadFunc() *)
(* on the child publishes loop_; the destructor quits that loop and joins. *)
(*                                                                         *)
(* owner is the pthread mutex's owner and holder is holder_, the tid that  *)
(* MutexLock records beside it (0 for none).  lock() is pthread_mutex_lock *)
(* then assignHolder(); unlock() is unassignHolder() then                  *)
(* pthread_mutex_unlock().  Condition::wait() clears holder_ through an     *)
(* UnassignGuard, releases the mutex and blocks inside pthread_cond_wait(), *)
(* which returns with the mutex held again, and the guard's destructor     *)
(* sets holder_ back.  pthread_cond_wait() may also return with no signal. *)
(* Each thread runs its code as a sequence of statements, Prog[t].         *)
(***************************************************************************)
EXTENDS Naturals, Sequences

CONSTANTS
    Parent,   \* tid of the thread that calls startLoop() and ~EventLoopThread()
    Child,    \* tid of the thread running threadFunc()
    MaxSpurious  \* spurious wakeups in a behaviour

ASSUME {Parent, Child} \subseteq Nat \ {0} /\ Parent # Child

Threads == {Parent, Child}

\* The statements of each thread, in order.  "lock" and "assign" are
\* MutexLockGuard's lock(), "unassign" and "unlock" its destructor.
Prog == [t \in Threads |->
           IF t = Parent
           THEN <<"lock", "assign", "whileNull", "readLoop", "unassign", "unlock",
                  "destroy", "join">>
           ELSE <<"lock", "assign", "publish", "notify", "unassign", "unlock",
                  "loop", "lock", "assign", "unpublish", "unassign", "unlock">>]

VARIABLES
    owner,     \* the pthread mutex's owner, 0 when free
    holder,    \* holder_
    waitSet,   \* threads blocked in pthread_cond_wait() on cond_
    wakeState, \* where a thread is inside Condition::wait()
    pc,        \* index of each thread's next statement
    loopPtr,   \* loop_ is &loop (TRUE) or NULL
    loopOf,    \* what startLoop() returned is a loop (TRUE) or NULL
    quit,      \* quit() has been called on the child's loop
    spurious   \* spurious wakeups so far

vars == <<owner, holder, waitSet, wakeState, pc, loopPtr, loopOf, quit, spurious>>

At(t, s) == pc[t] <= Len(Prog[t]) /\ Prog[t][pc[t]] = s

Next_(t) == pc' = [pc EXCEPT ![t] = @ + 1]

-----------------------------------------------------------------------------
\* lock(): pthread_mutex_lock() blocks until the mutex is free.
Lock(t) ==
    /\ At(t, "lock") /\ owner = 0
    /\ owner' = t
    /\ Next_(t)
    /\ UNCHANGED <<holder, waitSet, wakeState, loopPtr, loopOf, quit, spurious>>

\* lock()'s assignHolder(): holder_ = CurrentThread::tid().
AssignHolder(t) ==
    /\ At(t, "assign")
    /\ holder' = t
    /\ Next_(t)
    /\ UNCHANGED <<owner, waitSet, wakeState, loopPtr, loopOf, quit, spurious>>

\* unlock()'s unassignHolder(): holder_ = 0, before the mutex is released.
UnassignHolder(t) ==
    /\ At(t, "unassign")
    /\ holder' = 0
    /\ Next_(t)
    /\ UNCHANGED <<owner, waitSet, wakeState, loopPtr, loopOf, quit, spurious>>

\* unlock(): pthread_mutex_unlock().
Unlock(t) ==
    /\ At(t, "unlock")
    /\ owner' = 0
    /\ Next_(t)
    /\ UNCHANGED <<holder, waitSet, wakeState, loopPtr, loopOf, quit, spurious>>

\* Variant: Condition::wait() without its UnassignGuard.
WhileNullNoGuard(t) ==
    /\ At(t, "whileNull") /\ wakeState[t] = "none"
    /\ IF loopPtr
       THEN Next_(t) /\ UNCHANGED wakeState
       ELSE wakeState' = [wakeState EXCEPT ![t] = "unassigned"] /\ UNCHANGED pc
    /\ UNCHANGED <<owner, holder, waitSet, loopPtr, loopOf, quit, spurious>>

\* startLoop(): while (loop_ == NULL) under the mutex; when loop_ is NULL,
\* Condition::wait() begins with UnassignGuard's unassignHolder().
WhileNull(t) ==
    /\ At(t, "whileNull") /\ wakeState[t] = "none"
    /\ IF loopPtr
       THEN Next_(t) /\ UNCHANGED <<holder, wakeState>>
       ELSE /\ holder' = 0
            /\ wakeState' = [wakeState EXCEPT ![t] = "unassigned"]
            /\ UNCHANGED pc
    /\ UNCHANGED <<owner, waitSet, loopPtr, loopOf, quit, spurious>>

\* pthread_cond_wait(): release the mutex and block, in one atomic step.
CondWait(t) ==
    /\ wakeState[t] = "unassigned"
    /\ owner' = 0
    /\ waitSet' = waitSet \cup {t}
    /\ wakeState' = [wakeState EXCEPT ![t] = "blocked"]
    /\ UNCHANGED <<holder, pc, loopPtr, loopOf, quit, spurious>>

\* pthread_cond_wait() returns without a signal.
SpuriousWakeup(t) ==
    /\ wakeState[t] = "blocked" /\ spurious < MaxSpurious
    /\ waitSet' = waitSet \ {t}
    /\ wakeState' = [wakeState EXCEPT ![t] = "runnable"]
    /\ spurious' = spurious + 1
    /\ UNCHANGED <<owner, holder, pc, loopPtr, loopOf, quit>>

\* pthread_cond_wait() re-acquires the mutex before it returns.
Reacquire(t) ==
    /\ wakeState[t] = "runnable" /\ owner = 0
    /\ owner' = t
    /\ wakeState' = [wakeState EXCEPT ![t] = "reacquired"]
    /\ UNCHANGED <<holder, waitSet, pc, loopPtr, loopOf, quit, spurious>>

\* Variant: if (loop_ == NULL) cond_.wait(), with no second test.
WaitReturnIf(t) ==
    /\ wakeState[t] = "reacquired"
    /\ holder' = t
    /\ wakeState' = [wakeState EXCEPT ![t] = "none"]
    /\ Next_(t)
    /\ UNCHANGED <<owner, waitSet, loopPtr, loopOf, quit, spurious>>

\* ~UnassignGuard(): assignHolder(); back to the while test.
WaitReturn(t) ==
    /\ wakeState[t] = "reacquired"
    /\ holder' = t
    /\ wakeState' = [wakeState EXCEPT ![t] = "none"]
    /\ UNCHANGED <<owner, waitSet, pc, loopPtr, loopOf, quit, spurious>>
\* Variant: a notify() that wakes nobody.
NotifyNone(t) ==
    /\ At(t, "notify")
    /\ Next_(t)
    /\ UNCHANGED <<owner, holder, waitSet, wakeState, loopPtr, loopOf, quit, spurious>>

\* cond_.notify(): pthread_cond_signal() wakes a waiter, if there is one.
Notify(t) ==
    /\ At(t, "notify")
    /\ waitSet' = {}
    /\ wakeState' = [u \in Threads |->
                       IF u \in waitSet THEN "runnable" ELSE wakeState[u]]
    /\ Next_(t)
    /\ UNCHANGED <<owner, holder, loopPtr, loopOf, quit, spurious>>

\* threadFunc(): loop_ = &loop, under the mutex.
Publish(t) ==
    /\ At(t, "publish")
    /\ loopPtr' = TRUE
    /\ Next_(t)
    /\ UNCHANGED <<owner, holder, waitSet, wakeState, loopOf, quit, spurious>>

\* startLoop(): loop = loop_, after the while loop.
ReadLoop(t) ==
    /\ At(t, "readLoop")
    /\ loopOf' = loopPtr
    /\ Next_(t)
    /\ UNCHANGED <<owner, holder, waitSet, wakeState, loopPtr, quit, spurious>>

\* threadFunc(): loop.loop() returns once quit() has been called.
RunLoop(t) ==
    /\ At(t, "loop") /\ quit
    /\ Next_(t)
    /\ UNCHANGED <<owner, holder, waitSet, wakeState, loopPtr, loopOf, quit, spurious>>

\* threadFunc(): loop_ = NULL, under the mutex, before the thread exits.
Unpublish(t) ==
    /\ At(t, "unpublish")
    /\ loopPtr' = FALSE
    /\ Next_(t)
    /\ UNCHANGED <<owner, holder, waitSet, wakeState, loopOf, quit, spurious>>

\* ~EventLoopThread(): exiting_ = true; if loop_ (read without the mutex)
\* is not NULL, loop_->quit() and go on to join; otherwise return.
Destroy(t) ==
    /\ At(t, "destroy")
    /\ IF loopPtr
       THEN quit' = TRUE /\ Next_(t)
       ELSE pc' = [pc EXCEPT ![t] = Len(Prog[t]) + 1] /\ UNCHANGED quit
    /\ UNCHANGED <<owner, holder, waitSet, wakeState, loopPtr, loopOf, spurious>>

\* thread_.join(): wait until threadFunc() has returned.
Join(t) ==
    /\ At(t, "join")
    /\ pc[Child] > Len(Prog[Child])
    /\ Next_(t)
    /\ UNCHANGED <<owner, holder, waitSet, wakeState, loopPtr, loopOf, quit, spurious>>

-----------------------------------------------------------------------------
\* MutexLock(): holder_(0); EventLoopThread(): loop_(NULL); both threads
\* at their first statement (thread_.start() has run).
Init ==
    /\ owner = 0
    /\ holder = 0
    /\ waitSet = {}
    /\ wakeState = [t \in Threads |-> "none"]
    /\ pc = [t \in Threads |-> 1]
    /\ loopPtr = FALSE
    /\ loopOf = FALSE
    /\ quit = FALSE
    /\ spurious = 0

\* The steps a thread's scheduler takes; a spurious wakeup is not one.
Step(t) ==
    \/ Lock(t) \/ AssignHolder(t) \/ UnassignHolder(t) \/ Unlock(t)
    \/ WhileNull(t) \/ CondWait(t) \/ Reacquire(t) \/ WaitReturn(t)
    \/ Notify(t) \/ Publish(t) \/ ReadLoop(t) \/ RunLoop(t) \/ Unpublish(t)
    \/ Destroy(t) \/ Join(t)

Next == \E t \in Threads : Step(t) \/ SpuriousWakeup(t)

\* Each runnable thread is eventually scheduled; spurious wakeups are
\* finitely many (MaxSpurious), as a scheduler that kept delivering them
\* would starve threadFunc() of the mutex.
Spec == Init /\ [][Next]_vars /\ \A t \in Threads : WF_vars(Step(t))

Done(t) == pc[t] > Len(Prog[t])

-----------------------------------------------------------------------------
(* Properties.                                                             *)

TypeOK ==
    /\ owner \in Threads \cup {0} /\ holder \in Threads \cup {0}
    /\ waitSet \subseteq Threads
    /\ wakeState \in [Threads -> {"none", "unassigned", "blocked", "runnable", "reacquired"}]
    /\ \A t \in Threads : pc[t] \in 1 .. Len(Prog[t]) + 1
    /\ {loopPtr, loopOf, quit} \subseteq BOOLEAN
    /\ spurious \in 0 .. MaxSpurious

\* holder_ never names a thread that does not own the pthread mutex:
\* lock() sets it only after acquiring, unlock() and Condition::wait()'s
\* UnassignGuard clear it before releasing, so isLockedByThisThread()
\* can never answer yes to a thread that does not hold the lock, and
\* ~MutexLock()'s assert(holder_ == 0) holds once both threads are done.
HolderIsOwner ==
    /\ holder # 0 => holder = owner
    /\ (\A t \in Threads : Done(t)) => holder = 0

\* startLoop() never returns NULL: it leaves the while loop only with
\* loop_ published, whatever wakeups pthread_cond_wait() delivers.
StartLoopGetsLoop ==
    pc[Parent] > 4 => loopOf

\* Neither thread waits forever: startLoop() returns, threadFunc()'s loop
\* is quit by ~EventLoopThread(), and join() returns.
ThreadsFinish == <>(\A t \in Threads : Done(t))

====
