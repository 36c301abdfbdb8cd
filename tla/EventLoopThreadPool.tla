-------------------------- MODULE EventLoopThreadPool --------------------------
(***************************************************************************)
(* Start-up, dispatch and shut-down of muduo's pool of I/O threads:        *)
(* EventLoopThreadPool::start(), getNextLoop() and the pool's destruction, *)
(* EventLoopThread::startLoop(), threadFunc() and ~EventLoopThread(), and  *)
(* Thread::start() with ThreadData::runInThread() and its CountDownLatch.  *)
(*                                                                         *)
(* The base thread starts the workers one at a time.  For worker i it      *)
(* calls Thread::start(), which creates the thread and waits on a latch    *)
(* until the child has stored its tid; startLoop() then waits on cond_     *)
(* until threadFunc() has published the address of its stack EventLoop in  *)
(* loop_.  Each critical section is one step; a condition wait is split    *)
(* into the step that releases the mutex and blocks and the step that      *)
(* re-acquires it after a notify.  Waiters are woken only by a notify.     *)
(***************************************************************************)
EXTENDS Naturals, Sequences, SequencesExt

CONSTANTS
    NumThreads,   \* numThreads_ set by setThreadNum()
    NumConns,     \* new connections dispatched through getNextLoop()
    BaseLoop,     \* the acceptor's loop, returned when the pool is empty
    NULL

Workers == 1 .. NumThreads
ASSUME NumThreads \in Nat /\ NumConns \in Nat /\ BaseLoop \notin Workers \cup {NULL}

VARIABLES
    basePc,       \* where the base thread is in start(), dispatch or destruction
    cur,          \* the worker being started, or destroyed
    started,      \* EventLoopThreadPool::started_
    loops,        \* loops_: the loops startLoop() returned, in order
    next,         \* next_
    assigned,     \* connections dispatched to each loop
    childPc,      \* where each worker thread is
    tid,          \* Thread::tid_ has been written
    latch,        \* CountDownLatch::count_ of each Thread
    latchWaiting, \* the base thread is blocked in latch_.wait()
    loopPtr,      \* EventLoopThread::loop_: the worker's loop, or NULL
    condWaiting,  \* the base thread is blocked in cond_.wait()
    quit,         \* the worker's EventLoop::quit_
    exiting,      \* EventLoopThread::exiting_
    joined        \* Thread::joined_

baseVars == <<basePc, cur, started, loops, next, assigned>>
childVars == <<childPc, tid, latch, latchWaiting, loopPtr, condWaiting, quit, exiting, joined>>
vars == <<baseVars, childVars>>

-----------------------------------------------------------------------------
(* The base thread.                                                        *)

\* start(): started_ = true, then the first startLoop(); with no workers the
\* init callback runs on the base loop and start() returns at once.
Start ==
    /\ basePc = "idle"
    /\ started' = TRUE
    /\ basePc' = IF NumThreads = 0 THEN "serving" ELSE "threadStart"
    /\ cur' = 1
    /\ UNCHANGED <<loops, next, assigned>> /\ UNCHANGED childVars

\* Thread::start(): started_ = true, pthread_create() starts runInThread().
ThreadStart ==
    /\ basePc = "threadStart"
    /\ childPc' = [childPc EXCEPT ![cur] = "setTid"]
    /\ basePc' = "latchWait"
    /\ UNCHANGED <<cur, started, loops, next, assigned>>
    /\ UNCHANGED <<tid, latch, latchWaiting, loopPtr, condWaiting, quit, exiting, joined>>

\* CountDownLatch::wait(): under the latch mutex, block while count_ > 0.
LatchWait ==
    /\ basePc = "latchWait"
    /\ IF latch[cur] > 0
       THEN /\ latchWaiting' = [latchWaiting EXCEPT ![cur] = TRUE]
            /\ basePc' = "latchBlocked"
       ELSE /\ basePc' = "lockLoop"
            /\ UNCHANGED latchWaiting
    /\ UNCHANGED <<cur, started, loops, next, assigned>>
    /\ UNCHANGED <<childPc, tid, latch, loopPtr, condWaiting, quit, exiting, joined>>

\* Woken by countDown(): re-acquire the mutex and test count_ again.
LatchWoken ==
    /\ basePc = "latchBlocked" /\ ~latchWaiting[cur]
    /\ basePc' = "latchWait"
    /\ UNCHANGED <<cur, started, loops, next, assigned>> /\ UNCHANGED childVars

\* Variant: startLoop() that tests loop_ once instead of in a while loop,
\* taking whatever loop_ holds after the first wakeup or none at all.
StartLoopNoWait ==
    /\ basePc = "lockLoop"
    /\ loops' = Append(loops, loopPtr[cur])
    /\ basePc' = IF cur < NumThreads THEN "threadStart" ELSE "serving"
    /\ cur' = IF cur < NumThreads THEN cur + 1 ELSE cur
    /\ UNCHANGED <<started, next, assigned>> /\ UNCHANGED childVars

\* startLoop(): under mutex_, wait on cond_ while loop_ == NULL, then take
\* loop_; start() appends it to loops_ and starts the next worker.
StartLoop ==
    /\ basePc = "lockLoop"
    /\ IF loopPtr[cur] = NULL
       THEN /\ condWaiting' = [condWaiting EXCEPT ![cur] = TRUE]
            /\ basePc' = "condBlocked"
            /\ UNCHANGED <<cur, loops>>
       ELSE /\ loops' = Append(loops, loopPtr[cur])
            /\ basePc' = IF cur < NumThreads THEN "threadStart" ELSE "serving"
            /\ cur' = IF cur < NumThreads THEN cur + 1 ELSE cur
            /\ UNCHANGED condWaiting
    /\ UNCHANGED <<started, next, assigned>>
    /\ UNCHANGED <<childPc, tid, latch, latchWaiting, loopPtr, quit, exiting, joined>>

\* Woken by cond_.notify(): re-acquire mutex_ and test loop_ again.
CondWoken ==
    /\ basePc = "condBlocked" /\ ~condWaiting[cur]
    /\ basePc' = "lockLoop"
    /\ UNCHANGED <<cur, started, loops, next, assigned>> /\ UNCHANGED childVars

\* Variant: getNextLoop() that wraps one slot early.
GetNextLoopEarlyWrap ==
    /\ basePc = "serving" /\ started
    /\ SumFunction(assigned) < NumConns
    /\ IF loops = <<>>
       THEN /\ assigned' = [assigned EXCEPT ![BaseLoop] = @ + 1]
            /\ UNCHANGED next
       ELSE /\ assigned' = [assigned EXCEPT ![loops[next + 1]] = @ + 1]
            /\ next' = IF next + 1 >= Len(loops) - 1 THEN 0 ELSE next + 1
    /\ UNCHANGED <<basePc, cur, started, loops>> /\ UNCHANGED childVars

\* Variant: getNextLoop() that wraps one slot late.
GetNextLoopLateWrap ==
    /\ basePc = "serving" /\ started
    /\ SumFunction(assigned) < NumConns
    /\ IF loops = <<>>
       THEN /\ assigned' = [assigned EXCEPT ![BaseLoop] = @ + 1]
            /\ UNCHANGED next
       ELSE /\ assigned' = [assigned EXCEPT ![loops[next + 1]] = @ + 1]
            /\ next' = IF next + 1 > Len(loops) THEN 0 ELSE next + 1
    /\ UNCHANGED <<basePc, cur, started, loops>> /\ UNCHANGED childVars

\* getNextLoop() for a new connection: the base loop if loops_ is empty,
\* otherwise loops_[next_], with next_ advanced and wrapped round-robin.
GetNextLoop ==
    /\ basePc = "serving" /\ started
    /\ SumFunction(assigned) < NumConns
    /\ IF loops = <<>>
       THEN /\ assigned' = [assigned EXCEPT ![BaseLoop] = @ + 1]
            /\ UNCHANGED next
       ELSE /\ assigned' = [assigned EXCEPT ![loops[next + 1]] = @ + 1]
            /\ next' = IF next + 1 >= Len(loops) THEN 0 ELSE next + 1
    /\ UNCHANGED <<basePc, cur, started, loops>> /\ UNCHANGED childVars

\* The server goes away: ~EventLoopThreadPool destroys threads_ in order.
BeginDestroy ==
    /\ basePc = "serving"
    /\ basePc' = IF NumThreads = 0 THEN "done" ELSE "destroy"
    /\ cur' = 1
    /\ UNCHANGED <<started, loops, next, assigned>> /\ UNCHANGED childVars

\* ~EventLoopThread(): exiting_ = true; if loop_ is set, quit() it and
\* join the thread; otherwise ~Thread detaches it.
DestroyThread ==
    /\ basePc = "destroy"
    /\ exiting' = [exiting EXCEPT ![cur] = TRUE]
    /\ IF loopPtr[cur] # NULL
       THEN /\ quit' = [quit EXCEPT ![loopPtr[cur]] = TRUE]
            /\ basePc' = "join"
            /\ UNCHANGED cur
       ELSE /\ basePc' = IF cur < NumThreads THEN "destroy" ELSE "done"
            /\ cur' = IF cur < NumThreads THEN cur + 1 ELSE cur
            /\ UNCHANGED quit
    /\ UNCHANGED <<started, loops, next, assigned>>
    /\ UNCHANGED <<childPc, tid, latch, latchWaiting, loopPtr, condWaiting, joined>>

\* Thread::join(): joined_ = true, pthread_join() returns once the thread ends.
Join ==
    /\ basePc = "join" /\ childPc[cur] = "done"
    /\ joined' = [joined EXCEPT ![cur] = TRUE]
    /\ basePc' = IF cur < NumThreads THEN "destroy" ELSE "done"
    /\ cur' = IF cur < NumThreads THEN cur + 1 ELSE cur
    /\ UNCHANGED <<started, loops, next, assigned>>
    /\ UNCHANGED <<childPc, tid, latch, latchWaiting, loopPtr, condWaiting, quit, exiting>>

-----------------------------------------------------------------------------
(* Worker thread i.                                                        *)

\* runInThread(): *tid_ = CurrentThread::tid().
SetTid(i) ==
    /\ childPc[i] = "setTid"
    /\ tid' = [tid EXCEPT ![i] = TRUE]
    /\ childPc' = [childPc EXCEPT ![i] = "countDown"]
    /\ UNCHANGED baseVars
    /\ UNCHANGED <<latch, latchWaiting, loopPtr, condWaiting, quit, exiting, joined>>

\* Variant: runInThread() that counts the latch down before writing tid_.
CountDownBeforeTid(i) ==
    /\ childPc[i] \in {"setTid", "countDown"}
    /\ latch' = [latch EXCEPT ![i] = 0]
    /\ latchWaiting' = [latchWaiting EXCEPT ![i] = FALSE]
    /\ childPc' = [childPc EXCEPT ![i] = "publish"]
    /\ UNCHANGED baseVars
    /\ UNCHANGED <<tid, loopPtr, condWaiting, quit, exiting, joined>>

\* latch_->countDown(): under the latch mutex, --count_ and notifyAll().
CountDown(i) ==
    /\ childPc[i] = "countDown"
    /\ latch' = [latch EXCEPT ![i] = 0]
    /\ latchWaiting' = [latchWaiting EXCEPT ![i] = FALSE]
    /\ childPc' = [childPc EXCEPT ![i] = "publish"]
    /\ UNCHANGED baseVars
    /\ UNCHANGED <<tid, loopPtr, condWaiting, quit, exiting, joined>>

\* Variant: threadFunc() that publishes loop_ without cond_.notify().
PublishNoNotify(i) ==
    /\ childPc[i] = "publish"
    /\ loopPtr' = [loopPtr EXCEPT ![i] = i]
    /\ childPc' = [childPc EXCEPT ![i] = "looping"]
    /\ UNCHANGED baseVars
    /\ UNCHANGED <<tid, latch, latchWaiting, condWaiting, quit, exiting, joined>>

\* threadFunc(): construct the stack EventLoop, run callback_ on it, then
\* under mutex_ set loop_ = &loop and notify.
Publish(i) ==
    /\ childPc[i] = "publish"
    /\ loopPtr' = [loopPtr EXCEPT ![i] = i]
    /\ condWaiting' = [condWaiting EXCEPT ![i] = FALSE]
    /\ childPc' = [childPc EXCEPT ![i] = "looping"]
    /\ UNCHANGED baseVars
    /\ UNCHANGED <<tid, latch, latchWaiting, quit, exiting, joined>>

\* loop.loop() returns once quit_ is set.
LoopExit(i) ==
    /\ childPc[i] = "looping" /\ quit[i]
    /\ childPc' = [childPc EXCEPT ![i] = "unpublish"]
    /\ UNCHANGED baseVars
    /\ UNCHANGED <<tid, latch, latchWaiting, loopPtr, condWaiting, quit, exiting, joined>>

\* Under mutex_, loop_ = NULL; threadFunc() returns and the loop is destroyed.
Unpublish(i) ==
    /\ childPc[i] = "unpublish"
    /\ loopPtr' = [loopPtr EXCEPT ![i] = NULL]
    /\ childPc' = [childPc EXCEPT ![i] = "done"]
    /\ UNCHANGED baseVars
    /\ UNCHANGED <<tid, latch, latchWaiting, condWaiting, quit, exiting, joined>>

-----------------------------------------------------------------------------
Init ==
    /\ basePc = "idle" /\ cur = 1 /\ started = FALSE
    /\ loops = <<>> /\ next = 0
    /\ assigned = [l \in Workers \cup {BaseLoop} |-> 0]
    /\ childPc = [i \in Workers |-> "unborn"]
    /\ tid = [i \in Workers |-> FALSE]
    /\ latch = [i \in Workers |-> 1]
    /\ latchWaiting = [i \in Workers |-> FALSE]
    /\ loopPtr = [i \in Workers |-> NULL]
    /\ condWaiting = [i \in Workers |-> FALSE]
    /\ quit = [i \in Workers |-> FALSE]
    /\ exiting = [i \in Workers |-> FALSE]
    /\ joined = [i \in Workers |-> FALSE]

BaseStep ==
    \/ Start \/ ThreadStart \/ LatchWait \/ LatchWoken \/ StartLoop \/ CondWoken
    \/ GetNextLoop \/ BeginDestroy \/ DestroyThread \/ Join

Worker(i) ==
    SetTid(i) \/ CountDown(i) \/ Publish(i) \/ LoopExit(i) \/ Unpublish(i)

Next == BaseStep \/ \E i \in Workers : Worker(i)

\* Every thread that can run is eventually scheduled.
Spec == Init /\ [][Next]_vars /\ WF_vars(BaseStep) /\ \A i \in Workers : WF_vars(Worker(i))

-----------------------------------------------------------------------------
(* Properties.                                                             *)

PcOf == {"idle", "threadStart", "latchWait", "latchBlocked", "lockLoop",
         "condBlocked", "serving", "destroy", "join", "done"}

TypeOK ==
    /\ basePc \in PcOf /\ cur \in Workers \cup {1}
    /\ loops \in Seq(Workers \cup {NULL}) /\ Len(loops) <= NumThreads
    /\ next \in 0 .. (IF NumThreads = 0 THEN 0 ELSE NumThreads - 1)
    /\ assigned \in [Workers \cup {BaseLoop} -> 0 .. NumConns]
    /\ childPc \in [Workers -> {"unborn", "setTid", "countDown", "publish",
                                "looping", "unpublish", "done"}]
    /\ loopPtr \in [Workers -> Workers \cup {NULL}]

\* Thread::start() asserts tid_ > 0 once latch_.wait() returns: runInThread()
\* writes tid_ before it counts the latch down.
TidSetWhenLatchOpens ==
    [][basePc = "latchWait" /\ basePc' = "lockLoop" => tid[cur]]_vars

\* While the server dispatches connections, loops_ holds, in order, the
\* loop of every worker and each of them is running loop(): startLoop()
\* never returns before threadFunc() has published its loop.
LoopsAliveWhileServing ==
    basePc = "serving" =>
        /\ Len(loops) = NumThreads
        /\ \A k \in DOMAIN loops : loops[k] = k /\ childPc[k] = "looping"

\* Round-robin dispatch keeps the workers' loads within one connection of
\* each other, and the base loop gets connections only when there are no
\* workers.
RoundRobinBalanced ==
    /\ \A a, b \in Range(loops) : assigned[a] <= assigned[b] + 1
    /\ loops # <<>> => assigned[BaseLoop] = 0

\* Start-up never blocks for good on the latch or on cond_, and destruction
\* joins every worker: the base thread ends with every thread finished.
AllThreadsJoined ==
    <>(basePc = "done" /\ \A i \in Workers : childPc[i] = "done" /\ joined[i])

====
