------------------------------ MODULE TimerQueue ------------------------------
(***************************************************************************)
(* muduo's TimerQueue (src/muduo/net/TimerQueue.cc, Timer.cc) on one       *)
(* EventLoop, with one other thread that adds and cancels timers through   *)
(* runInLoop, and timer callbacks that add and cancel timers inline.       *)
(*                                                                         *)
(* Timer objects live at heap addresses Addrs (naturals, ordered as the    *)
(* pointers are); an address is reused once its Timer is deleted, and a    *)
(* TimerId is the pair <<address, sequence>>.  Time is a tick counter;     *)
(* howMuchTimeFromNow() clamps a past expiration to 100us, which here      *)
(* means the timerfd is readable on the next loop iteration.               *)
(***************************************************************************)
EXTENDS Integers, Sequences, SequencesExt, FiniteSetsExt, EventLoop

CONSTANTS
    Addrs,          \* addresses a Timer may be allocated at
    Delays,         \* delays given to runAfter / runEvery, in ticks
    Intervals,      \* interval_: 0 is a one-shot timer, > 0 repeats
    MaxTimers,      \* bound on Timer objects created (s_numCreated_)
    MaxTime,        \* bound on the clock
    MaxPending      \* bound on functors another thread may have queued

ASSUME /\ Addrs \subseteq Nat \ {0}
       /\ Delays \subseteq Nat /\ Intervals \subseteq Nat
       /\ MaxTimers \in Nat /\ MaxTime \in Nat /\ MaxPending \in Nat
       /\ Cardinality(Loops) = 1

L == CHOOSE l \in Loops : TRUE          \* the loop owning the TimerQueue

Free == [seq |-> 0, exp |-> 0, interval |-> 0]   \* no Timer at this address
Disarmed == -1                                    \* timerfd not armed

VARIABLES
    now,                  \* Timestamp::now(), in ticks
    timer,                \* timer[a]: the Timer at address a, or Free
    timers,               \* timers_: set of Entry <<expiration, address>>
    activeTimers,         \* activeTimers_: set of ActiveTimer <<address, sequence>>
    cancelingTimers,      \* cancelingTimers_
    callingExpiredTimers, \* callingExpiredTimers_
    expired,              \* handleRead()'s local vector of expired entries
    runIdx,               \* the expired entry whose callback handleRead() runs next
    armed,                \* when the timerfd becomes readable, or Disarmed
    numCreated,           \* Timer::s_numCreated_
    issued,               \* history: every TimerId returned by addTimer
    cancelled             \* history: every TimerId a cancelInLoop has run for

tqVars == <<now, timer, timers, activeTimers, cancelingTimers,
            callingExpiredTimers, expired, runIdx, armed, numCreated,
            issued, cancelled>>
vars == <<tqVars, loopVars>>

Id(a) == <<a, timer[a].seq>>

\* std::set<Entry> order: by expiration, then by address.
EntryLess(x, y) == x[1] < y[1] \/ (x[1] = y[1] /\ x[2] < y[2])
Earliest(ts) == CHOOSE e \in ts : \A f \in ts : ~EntryLess(f, e)

\* TimerIds whose addTimerInLoop is still queued: no thread can have seen the
\* timer in the queue yet, so only the thread that added it may cancel it,
\* and its cancel is queued behind the add.
PendingAdds == {<<f.addr, timer[f.addr].seq>> : f \in {g \in Queued(L) : g.op = "add"}}

-----------------------------------------------------------------------------
(* Operations of TimerQueue.                                               *)

\* Variant: sequence_ taken with getAndIncrement() instead of incrementAndGet().
NewTimerGetAndIncrement(a, when, i) ==
    /\ numCreated < MaxTimers
    /\ timer[a] = Free
    /\ timer' = [timer EXCEPT ![a] = [seq |-> numCreated, exp |-> when,
                                      interval |-> i]]
    /\ numCreated' = numCreated + 1
    /\ issued' = issued \cup {<<a, numCreated>>}

\* new Timer(cb, when, interval): sequence_ is ++s_numCreated_.
NewTimer(a, when, i) ==
    /\ numCreated < MaxTimers
    /\ timer[a] = Free
    /\ timer' = [timer EXCEPT ![a] = [seq |-> numCreated + 1, exp |-> when,
                                      interval |-> i]]
    /\ numCreated' = numCreated + 1
    /\ issued' = issued \cup {<<a, numCreated + 1>>}

\* howMuchTimeFromNow(when): when - now, raised to at least 100
\* microseconds, which is under one tick of the model clock.
HowMuchTimeFromNow(when) == IF when > now THEN when - now ELSE 0

\* Variant: resetTimerfd() without the floor: an expiration already passed
\* gives timerfd_settime() a zero it_value, which disarms the timerfd.
ResetTimerfdNoFloor(when) == IF when > now THEN when ELSE Disarmed

\* resetTimerfd(timerfd, expiration): timerfd_settime() with the relative
\* it_value above; an expiration already passed makes the timerfd readable
\* at once.
ResetTimerfd(when) == now + HowMuchTimeFromNow(when)

\* Variant: the earliest-changed test only looks at an empty timers_.
InsertTimerEmptyOnly(a, s, when) ==
    /\ timers' = timers \cup {<<when, a>>}
    /\ activeTimers' = activeTimers \cup {<<a, s>>}
    /\ armed' = IF timers = {} THEN ResetTimerfd(when) ELSE armed

\* insert(timer) into timers_ and activeTimers_, and addTimerInLoop's
\* resetTimerfd when the new timer is the earliest.
InsertTimer(a, s, when) ==
    /\ timers' = timers \cup {<<when, a>>}
    /\ activeTimers' = activeTimers \cup {<<a, s>>}
    /\ armed' = IF timers = {} \/ when < Earliest(timers)[1] THEN ResetTimerfd(when) ELSE armed

AddTimerInLoop(a) == InsertTimer(a, timer[a].seq, timer[a].exp)

\* cancelInLoop(timerId): erase and delete an active timer; otherwise, while
\* the expired callbacks run, remember the id so reset() does not re-arm it.
CancelInLoop(id) ==
    /\ cancelled' = cancelled \cup {id}
    /\ \/ /\ id \in activeTimers
          /\ timers' = timers \ {<<timer[id[1]].exp, id[1]>>}
          /\ activeTimers' = activeTimers \ {id}
          /\ timer' = [timer EXCEPT ![id[1]] = Free]
          /\ UNCHANGED cancelingTimers
       \/ /\ id \notin activeTimers
          /\ cancelingTimers' = IF callingExpiredTimers
                                THEN cancelingTimers \cup {id}
                                ELSE cancelingTimers
          /\ UNCHANGED <<timers, activeTimers, timer>>

\* Timer::restart(now): a repeating timer's next expiration.
Restart(a, t) == t + timer[a].interval

\* Variant: reset() without the cancelingTimers_ lookup.
ResetIgnoringCanceling(exp, t) ==
    LET ents  == {exp[i] : i \in DOMAIN exp}
        again == {e[2] : e \in {x \in ents : timer[x[2]].interval > 0}}
        gone  == {e[2] : e \in ents} \ again
        next  == [a \in Addrs |-> IF a \in again
                                  THEN [timer[a] EXCEPT !.exp = Restart(a, t)]
                                  ELSE IF a \in gone THEN Free ELSE timer[a]]
        ts    == timers \cup {<<next[a].exp, a>> : a \in again}
    IN /\ timer' = next
       /\ timers' = ts
       /\ activeTimers' = activeTimers \cup {Id(a) : a \in again}
       /\ armed' = IF ts # {} THEN ResetTimerfd(Earliest(ts)[1]) ELSE armed

\* Variant: insert() runs before restart(), keying the Entry by the old
\* expiration.
ResetInsertBeforeRestart(exp, t) ==
    LET ents  == {exp[i] : i \in DOMAIN exp}
        again == {e[2] : e \in {x \in ents : timer[x[2]].interval > 0
                                            /\ Id(x[2]) \notin cancelingTimers}}
        gone  == {e[2] : e \in ents} \ again
        next  == [a \in Addrs |-> IF a \in again
                                  THEN [timer[a] EXCEPT !.exp = Restart(a, t)]
                                  ELSE IF a \in gone THEN Free ELSE timer[a]]
        ts    == timers \cup {<<timer[a].exp, a>> : a \in again}
    IN /\ timer' = next
       /\ timers' = ts
       /\ activeTimers' = activeTimers \cup {Id(a) : a \in again}
       /\ armed' = IF ts # {} THEN ResetTimerfd(Earliest(ts)[1]) ELSE armed

\* reset(expired, now): re-insert the repeating timers not being cancelled,
\* delete the others, then arm the timerfd for the earliest timer left.
Reset(exp, t) ==
    LET ents  == {exp[i] : i \in DOMAIN exp}
        again == {e[2] : e \in {x \in ents : timer[x[2]].interval > 0
                                            /\ Id(x[2]) \notin cancelingTimers}}
        gone  == {e[2] : e \in ents} \ again
        next  == [a \in Addrs |-> IF a \in again
                                  THEN [timer[a] EXCEPT !.exp = Restart(a, t)]
                                  ELSE IF a \in gone THEN Free ELSE timer[a]]
        ts    == timers \cup {<<next[a].exp, a>> : a \in again}
    IN /\ timer' = next
       /\ timers' = ts
       /\ activeTimers' = activeTimers \cup {Id(a) : a \in again}
       /\ armed' = IF ts # {} THEN ResetTimerfd(Earliest(ts)[1]) ELSE armed

-----------------------------------------------------------------------------
(* Steps of the other thread: addTimer and cancel call runInLoop, which     *)
(* queues the functor because the caller is not the loop thread.           *)

AddTimer(a, d, i) ==
    /\ Len(pending[L]) < MaxPending
    /\ NewTimer(a, now + d, i)
    /\ QueueInLoop(L, [op |-> "add", addr |-> a])
    /\ UNCHANGED <<now, timers, activeTimers, cancelingTimers,
                   callingExpiredTimers, expired, runIdx, armed, cancelled,
                   calling, handled>>

Cancel(id) ==
    /\ Len(pending[L]) < MaxPending
    /\ id \in issued
    /\ QueueInLoop(L, [op |-> "cancel", id |-> id])
    /\ UNCHANGED <<tqVars, calling, handled>>

-----------------------------------------------------------------------------
(* Steps of the loop thread.                                               *)

\* Variant: getExpired() with a sentry that stops before entries at now.
HandleReadBeginStrict ==
    /\ HandleEvent(L, "timerfd")
    /\ ~callingExpiredTimers
    /\ armed # Disarmed /\ armed <= now
    /\ LET due == {e \in timers : e[1] < now}
       IN /\ expired' = SetToSortSeq(due, EntryLess)
          /\ timers' = timers \ due
          /\ activeTimers' = activeTimers \ {Id(e[2]) : e \in due}
    /\ armed' = Disarmed
    /\ callingExpiredTimers' = TRUE
    /\ cancelingTimers' = {}
    /\ runIdx' = 1
    /\ UNCHANGED <<now, timer, numCreated, issued, cancelled, pending, calling>>

\* The timerfd channel's read callback, up to the callback loop: readTimerfd,
\* getExpired(now), callingExpiredTimers_ = true, cancelingTimers_.clear().
HandleReadBegin ==
    /\ HandleEvent(L, "timerfd")
    /\ ~callingExpiredTimers
    /\ armed # Disarmed /\ armed <= now
    /\ LET due == {e \in timers : e[1] <= now}
       IN /\ expired' = SetToSortSeq(due, EntryLess)
          /\ timers' = timers \ due
          /\ activeTimers' = activeTimers \ {Id(e[2]) : e \in due}
    /\ armed' = Disarmed
    /\ callingExpiredTimers' = TRUE
    /\ cancelingTimers' = {}
    /\ runIdx' = 1
    /\ UNCHANGED <<now, timer, numCreated, issued, cancelled, pending, calling>>

\* it.second->run(): the user callback may do nothing, cancel a timer it
\* knows of, or add a timer; both run inline, on the loop thread.
RunExpired ==
    /\ callingExpiredTimers
    /\ runIdx <= Len(expired)
    /\ runIdx' = runIdx + 1
    /\ \/ UNCHANGED <<timer, timers, activeTimers, cancelingTimers, armed,
                      numCreated, issued, cancelled>>
       \/ \E id \in issued \ PendingAdds :
             /\ CancelInLoop(id)
             /\ UNCHANGED <<armed, numCreated, issued>>
       \/ \E a \in Addrs, d \in Delays, i \in Intervals :
             /\ NewTimer(a, now + d, i)
             /\ InsertTimer(a, numCreated + 1, now + d)
             /\ UNCHANGED <<cancelingTimers, cancelled>>
    /\ UNCHANGED <<now, callingExpiredTimers, expired, loopVars>>

\* After the callbacks: callingExpiredTimers_ = false; reset(expired, now).
HandleReadEnd ==
    /\ callingExpiredTimers
    /\ runIdx > Len(expired)
    /\ callingExpiredTimers' = FALSE
    /\ Reset(expired, now)
    /\ expired' = <<>>
    /\ UNCHANGED <<now, cancelingTimers, runIdx, numCreated, issued,
                   cancelled, loopVars>>

StartPendingFunctors ==
    /\ ~callingExpiredTimers
    /\ DoPendingFunctors(L)
    /\ UNCHANGED tqVars

\* A queued addTimerInLoop or cancelInLoop runs.
RunFunctor ==
    /\ calling[L] # <<>>
    /\ LET f == CurrentFunctor(L) IN
         \/ /\ f.op = "add"
            /\ AddTimerInLoop(f.addr)
            /\ UNCHANGED <<timer, cancelingTimers, cancelled>>
         \/ /\ f.op = "cancel"
            /\ CancelInLoop(f.id)
            /\ UNCHANGED armed
    /\ FunctorDone(L)
    /\ UNCHANGED <<now, callingExpiredTimers, expired, runIdx, numCreated,
                   issued, pending, handled>>

\* Time passes while the loop is not inside a callback.
Tick ==
    /\ now < MaxTime
    /\ ~callingExpiredTimers
    /\ now' = now + 1
    /\ UNCHANGED <<timer, timers, activeTimers, cancelingTimers,
                   callingExpiredTimers, expired, runIdx, armed, numCreated,
                   issued, cancelled, loopVars>>

-----------------------------------------------------------------------------

Init ==
    /\ LoopInit
    /\ now = 0
    /\ timer = [a \in Addrs |-> Free]
    /\ timers = {}
    /\ activeTimers = {}
    /\ cancelingTimers = {}
    /\ callingExpiredTimers = FALSE
    /\ expired = <<>>
    /\ runIdx = 1
    /\ armed = Disarmed
    /\ numCreated = 0
    /\ issued = {}
    /\ cancelled = {}

LoopThread ==
    \/ HandleReadBegin
    \/ RunExpired
    \/ HandleReadEnd
    \/ StartPendingFunctors
    \/ RunFunctor

OtherThread ==
    \/ \E a \in Addrs, d \in Delays, i \in Intervals : AddTimer(a, d, i)
    \/ \E id \in issued : Cancel(id)

Next == LoopThread \/ OtherThread \/ Tick

\* The loop thread never stops: poll() returns at the latest after its
\* timeout, and a queued functor is run then.  Every iteration polls, so a
\* timerfd that stays readable is handled even while other threads keep
\* queueing functors: strong fairness on the timerfd's read callback.
Spec == Init /\ [][Next]_vars /\ WF_vars(LoopThread) /\ SF_vars(HandleReadBegin)

-----------------------------------------------------------------------------
(* Properties                                                              *)

Time == 0..(MaxTime + Max(Delays \cup Intervals))
TimerRec == [seq : 1..MaxTimers, exp : Time, interval : Intervals]
Ids == Addrs \X (1..MaxTimers)

TypeOK ==
    /\ now \in 0..MaxTime
    /\ timer \in [Addrs -> TimerRec \cup {Free}]
    /\ timers \subseteq Time \X Addrs
    /\ activeTimers \subseteq Ids
    /\ cancelingTimers \subseteq Ids
    /\ callingExpiredTimers \in BOOLEAN
    /\ expired \in Seq(Time \X Addrs)
    /\ armed \in Time \cup {Disarmed}
    /\ numCreated \in 0..MaxTimers
    /\ issued \subseteq Ids /\ cancelled \subseteq Ids

\* timers_ and activeTimers_ hold the same timers, each once, and every
\* Entry's key is its timer's current expiration (cancelInLoop erases by that
\* key).  Spec section 8, property 2.
TimerListsAgree ==
    /\ activeTimers = {Id(e[2]) : e \in timers}
    /\ Cardinality(activeTimers) = Cardinality(timers)
    /\ \A e \in timers : e[1] = timer[e[2]].exp

\* A timer whose cancelInLoop has run is never armed again: not when the
\* cancel comes from its own callback (the cancelingTimers_ path, scenario S5)
\* nor when it races a handleRead from another thread.
NoCancelledTimerRearmed == cancelled \cap activeTimers = {}

\* Outside handleRead the timerfd is armed to become readable no later than
\* the earliest expiration in timers_, or at once if that has passed, so
\* no timer is left waiting for a wakeup.
ArmedCoversEarliest ==
    (~callingExpiredTimers /\ timers # {})
        => /\ armed # Disarmed
           /\ armed <= Earliest(timers)[1] \/ armed <= now

\* Every timer whose expiration has passed is eventually taken out of
\* timers_ (run, or cancelled) by the loop.
Due(a) == timer[a] # Free /\ <<timer[a].exp, a>> \in timers /\ timer[a].exp <= now
DueTimersRun == \A a \in Addrs : Due(a) ~> ~Due(a)
=============================================================================
