------------------------ MODULE MC_EventLoopThreadPool ------------------------
(* Three workers, so the base thread's start-up of each interleaves     *)
(* with the earlier ones running, and seven connections, so round-robin   *)
(* wraps twice and ends unbalanced by one.                                *)
(*                                                                         *)
(* Beside it, in the same run, one EventLoopThread's startLoop() and       *)
(* threadFunc() at the level of MutexLock and Condition statements, with   *)
(* up to two spurious wakeups.  The two share no state, so a step is a     *)
(* step of one of them, and each keeps its own fairness.                   *)
EXTENDS EventLoopThreadPool

VARIABLES mowner, mholder, mwaitSet, mwakeState, mpc, mloopPtr, mloopOf,
          mquit, mspurious

mvars == <<mowner, mholder, mwaitSet, mwakeState, mpc, mloopPtr, mloopOf,
           mquit, mspurious>>

Lk == INSTANCE MutexLock
      WITH owner <- mowner, holder <- mholder, waitSet <- mwaitSet,
           wakeState <- mwakeState, pc <- mpc, loopPtr <- mloopPtr,
           loopOf <- mloopOf, quit <- mquit, spurious <- mspurious,
           Parent <- 1, Child <- 2, MaxSpurious <- 2

ThInit == Init /\ Lk!Init

ThNext == \/ Next /\ UNCHANGED mvars
          \/ Lk!Next /\ UNCHANGED vars

ThSpec ==
    /\ ThInit /\ [][ThNext]_<<vars, mvars>>
    /\ WF_<<vars, mvars>>(BaseStep /\ UNCHANGED mvars)
    /\ \A i \in Workers : WF_<<vars, mvars>>(Worker(i) /\ UNCHANGED mvars)
    /\ \A t \in Lk!Threads : WF_<<vars, mvars>>(Lk!Step(t) /\ UNCHANGED vars)

HolderIsOwner == Lk!HolderIsOwner
StartLoopGetsLoop == Lk!StartLoopGetsLoop
ThreadsFinish == Lk!ThreadsFinish

====
