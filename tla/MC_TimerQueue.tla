---------------------------- MODULE MC_TimerQueue ----------------------------
(* TimerQueue instantiated for TLC: two heap addresses and three Timer      *)
(* objects, so an address is reused and a stale TimerId can be cancelled;   *)
(* one-shot and repeating timers; five ticks of time.                       *)
EXTENDS TimerQueue

CONSTANT LoopA

MCLoops == {LoopA}
MCAddrs == {1, 2}
MCDelays == {1, 2}
MCIntervals == {0, 2}
=============================================================================
