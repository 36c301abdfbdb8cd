------------------------------- MODULE LogFile -------------------------------
(***************************************************************************)
(* muduo's rolling log file (src/muduo/base/LogFile.cc).  append() writes  *)
(* a line into the current AppendFile and then decides whether to roll:    *)
(* at once when the file has grown past rollSize_, and otherwise on every  *)
(* checkEveryN_-th line, when the day (kRollPerSeconds_) has changed; on   *)
(* that check it also flushes if flushInterval_ seconds have passed.       *)
(* rollFile() opens a file named after the current second, and refuses    *)
(* unless the clock has moved past the last roll.                          *)
(*                                                                         *)
(* With threadSafe, append() runs under mutex_, so one append is one step. *)
(* The clock is time(NULL): wall-clock seconds, which move forward and may *)
(* be stepped back by an administrator or NTP.  A line is its length; a    *)
(* file is its name and writtenBytes(); disk records how many bytes each   *)
(* file name holds, since AppendFile opens its file for appending.         *)
(* AppendFile (FileUtil.cc, not in the tree; spec_modelled) writes through *)
(* a 64 KiB stdio buffer: unflushed counts the bytes of the current file  *)
(* still in it.  Its flush() empties it, and so does its destructor, whose *)
(* fclose() runs when rollFile() replaces file_.  Within the model's       *)
(* bounds the buffer never fills, so it never flushes by itself.           *)
(***************************************************************************)
EXTENDS Integers

CONSTANTS
    RollSize,        \* rollSize_
    FlushInterval,   \* flushInterval_
    CheckEveryN,     \* checkEveryN_
    RollPerSeconds,  \* kRollPerSeconds_, one day scaled down
    LineLens,        \* lengths of the lines appended
    MaxTime,         \* the clock stops here
    MaxAppends,      \* append() calls in a behaviour
    MaxStepBacks     \* times the clock is stepped back

ASSUME /\ {RollSize, FlushInterval, MaxAppends, MaxStepBacks} \subseteq Nat
       /\ CheckEveryN \in Nat \ {0} /\ RollPerSeconds \in Nat \ {0}
       /\ LineLens \subseteq Nat \ {0} /\ MaxTime \in Nat \ {0}

Time == 1 .. MaxTime

VARIABLES
    now,            \* what time(NULL) returns
    count,          \* count_
    startOfPeriod,  \* startOfPeriod_
    lastRoll,       \* lastRoll_
    lastFlush,      \* lastFlush_
    file,           \* file_: [name, written] (writtenBytes())
    disk,           \* bytes held by the file of each name
    unflushed,      \* bytes of file_ still in AppendFile's buffer
    overrun,        \* lines in a row put in this file while the clock
                    \* was past its period, and that did not roll it
    appends,        \* append() calls so far
    stepBacks       \* clock steps back so far

vars == <<now, count, startOfPeriod, lastRoll, lastFlush, file, disk,
          unflushed, overrun, appends, stepBacks>>

\* now / kRollPerSeconds_ * kRollPerSeconds_: the start of now's day.
Period(t) == (t \div RollPerSeconds) * RollPerSeconds

\* getLogFileName(): basename, the time as %Y%m%d-%H%M%S, host name, pid
\* and ".log".  Only the time varies, to the second, and strftime() is
\* one-to-one on whole seconds, so the second names the file.
GetLogFileName(t) == t

\* rollFile() on the file f that append_unlocked() has just written: it
\* opens a new file only if the clock is past lastRoll_.
RollFileSameSecond(f) ==
    IF now >= lastRoll
    THEN /\ lastRoll' = now
         /\ lastFlush' = now
         /\ startOfPeriod' = Period(now)
         /\ file' = [name |-> GetLogFileName(now), written |-> 0]
    ELSE /\ file' = f
         /\ UNCHANGED <<lastRoll, lastFlush, startOfPeriod>>

RollFile(f) ==
    IF now > lastRoll
    THEN /\ lastRoll' = now
         /\ lastFlush' = now
         /\ startOfPeriod' = Period(now)
         /\ file' = [name |-> GetLogFileName(now), written |-> 0]
    ELSE /\ file' = f
         /\ UNCHANGED <<lastRoll, lastFlush, startOfPeriod>>

\* The line count at which append_unlocked() checks the period.
CheckDueLate(c) == c > CheckEveryN
CheckDue(c) == c >= CheckEveryN

\* append_unlocked(logline, len): file_->append(), then roll on size, or
\* count the line and, every checkEveryN_ lines, roll on a new period or
\* flush after flushInterval_.
AppendUnlocked(len) ==
    LET f == [file EXCEPT !.written = @ + len] IN
    /\ disk' = [disk EXCEPT ![file.name] = @ + len]
    /\ IF f.written > RollSize
       THEN RollFile(f) /\ UNCHANGED count
       ELSE IF ~CheckDue(count + 1)
       THEN /\ count' = count + 1
            /\ file' = f
            /\ UNCHANGED <<lastRoll, lastFlush, startOfPeriod>>
       ELSE /\ count' = 0
            /\ IF Period(now) # startOfPeriod
               THEN RollFile(f)
               ELSE /\ file' = f
                    /\ lastFlush' = IF now - lastFlush > FlushInterval
                                    THEN now ELSE lastFlush
                    /\ UNCHANGED <<lastRoll, startOfPeriod>>

\* The line went to the old file; a roll leaves a new, empty file behind.
CountOverrun ==
    overrun' = IF file'.written = 0 THEN 0
               ELSE IF Period(now) > startOfPeriod THEN overrun + 1
               ELSE 0

\* AppendFile::append() buffers the line; a roll destroys the old file_,
\* whose fclose() flushes it, and append_unlocked()'s flush empties it.
CountUnflushed(len) ==
    unflushed' = IF file'.name # file.name \/ lastFlush' # lastFlush
                 THEN 0 ELSE unflushed + len

\* append(logline, len): append_unlocked() under mutex_.
Append(len) ==
    /\ appends < MaxAppends
    /\ AppendUnlocked(len)
    /\ CountOverrun
    /\ CountUnflushed(len)
    /\ appends' = appends + 1
    /\ UNCHANGED <<now, stepBacks>>

\* flush(): file_->flush() under mutex_.
Flush ==
    /\ unflushed' = 0
    /\ UNCHANGED <<now, count, startOfPeriod, lastRoll, lastFlush, file, disk,
                   overrun, appends, stepBacks>>

\* The clock moves on by a second.
Tick ==
    /\ now < MaxTime
    /\ now' = now + 1
    /\ UNCHANGED <<count, startOfPeriod, lastRoll, lastFlush, file, disk,
                   unflushed, overrun, appends, stepBacks>>

\* The wall clock is set back.
StepBack ==
    /\ stepBacks < MaxStepBacks
    /\ \E t \in 1 .. now - 1 : now' = t
    /\ stepBacks' = stepBacks + 1
    /\ UNCHANGED <<count, startOfPeriod, lastRoll, lastFlush, file, disk,
                   unflushed, overrun, appends>>

\* LogFile(basename, rollSize, ...): counters at 0, then rollFile(), which
\* succeeds since time(NULL) is past 0.
Init ==
    /\ now \in 1 .. RollPerSeconds
    /\ count = 0
    /\ startOfPeriod = Period(now)
    /\ lastRoll = now
    /\ lastFlush = now
    /\ file = [name |-> GetLogFileName(now), written |-> 0]
    /\ disk = [t \in Time |-> 0]
    /\ unflushed = 0
    /\ overrun = 0
    /\ appends = 0
    /\ stepBacks = 0

Next == (\E len \in LineLens : Append(len)) \/ Tick \/ StepBack

Spec == Init /\ [][Next]_vars

-----------------------------------------------------------------------------
(* Properties.                                                             *)

TypeOK ==
    /\ now \in Time /\ lastRoll \in Time /\ lastFlush \in Time
    /\ count \in 0 .. CheckEveryN - 1
    /\ file.name \in Time /\ file.written \in Nat
    /\ disk \in [Time -> Nat] /\ unflushed \in 0 .. file.written

\* The size rollFile() is decided on is the size of the file on disk:
\* every file rollFile() opens has a name no earlier file had, however the
\* clock moves, so writtenBytes() never restarts at 0 on a file that
\* already holds lines.  A second roll within the same second, or one
\* after the clock was set back, would reopen an old file for appending.
WrittenBytesMatchDisk == file.written = disk[file.name]

\* The day is checked only every checkEveryN_ lines: while the clock is
\* past the current file's day, at most checkEveryN_ lines in a row go into
\* that file, the line whose check rolls it included (overrun counts the
\* ones before it), whether or not the size check rolls it first.  A clock
\* set back into the file's day makes its lines belong there again.
OverrunBounded == overrun < CheckEveryN

====
