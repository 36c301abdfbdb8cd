------------------------------- MODULE Logging -------------------------------
(***************************************************************************)
(* muduo's Logger (base/Logging.h, base/Logging.cc) writing through        *)
(* LogStream's FixedBuffer (base/LogStream.h) into a LogFile, the way a    *)
(* program wires them: Logger::setOutput() to LogFile::append() and        *)
(* Logger::setFlush() to LogFile::flush().                                 *)
(*                                                                         *)
(* A LOG_xxx statement tests g_logLevel (TRACE, DEBUG and INFO only),      *)
(* constructs a Logger, whose Impl puts the time, tid and level (and, for  *)
(* LOG_SYSERR and LOG_SYSFATAL, strerror and errno) into its stream; the   *)
(* statement's own pieces follow; ~Logger() appends " - file:line\n",     *)
(* calls g_output() and, for FATAL, g_flush() and abort().  Each piece     *)
(* goes through FixedBuffer::append(), which drops a piece whole when it   *)
(* does not fit.  The record is built in the calling thread's own buffer,  *)
(* so one statement up to g_output() is one step; a piece is its length.   *)
(* One thread logs.  The time zone is fixed, so formatTime()'s per-thread  *)
(* cache of the formatted second changes no byte and is not modelled.      *)
(***************************************************************************)
EXTENDS Integers, Sequences, SequencesExt

CONSTANTS
    RollSize, FlushInterval, CheckEveryN, RollPerSeconds, LineLens,
    MaxTime, MaxAppends, MaxStepBacks,   \* LogFile's, see LogFile.tla
    SmallBuffer,    \* kSmallBuffer, the size of a FixedBuffer
    TimeZoneValid,  \* g_logTimeZone.valid()
    TidLen,         \* CurrentThread::tidStringLength()
    FuncLen,        \* strlen(__func__) of the TRACE and DEBUG statements
    StrerrorLen,    \* strlen(strerror_tl(errno))
    Statements,     \* the LOG_xxx statements the program runs
    EnvLevels,      \* levels initLogLevel() can return in the runs checked
    SetLevels       \* levels the program passes to setLogLevel()

VARIABLES now, count, startOfPeriod, lastRoll, lastFlush, file, disk,
          unflushed, overrun, appends, stepBacks,
          gLogLevel,  \* g_logLevel
          loggerPc    \* where ~Logger() of a FATAL record is

lfVars == <<now, count, startOfPeriod, lastRoll, lastFlush, file, disk,
            unflushed, overrun, appends, stepBacks>>
vars == <<lfVars, gLogLevel, loggerPc>>

LF == INSTANCE LogFile

\* Logger::LogLevel.
TRACE == 0
DEBUG == 1
INFO == 2
WARN == 3
ERROR == 4
FATAL == 5

\* The level each macro constructs its Logger with.
MacroLevel == [TRACE |-> TRACE, DEBUG |-> DEBUG, INFO |-> INFO, WARN |-> WARN,
               ERROR |-> ERROR, FATAL |-> FATAL, SYSERR |-> ERROR,
               SYSFATAL |-> FATAL]

\* LOG_TRACE, LOG_DEBUG and LOG_INFO log only at logLevel() or below.
Enabled(macro) ==
    macro \in {"TRACE", "DEBUG", "INFO"} => gLogLevel <= MacroLevel[macro]

\* The number of characters operator<<(int) writes for n >= 0.
RECURSIVE Digits(_)
Digits(n) == IF n < 10 THEN 1 ELSE 1 + Digits(n \div 10)

\* SourceFile: the part of __FILE__ after its last '/'; a path is the
\* sequence of the lengths of its '/'-separated parts.
Basename(path) == path[Len(path)]

\* formatTime(): 17 characters of date and time, then the microseconds
\* as ".%06dZ " or, with a valid time zone, ".%06d ".
FormatTime == <<17, IF TimeZoneValid THEN 8 ELSE 9>>

\* Impl(level, savedErrno, file, line): formatTime(), the tid,
\* LogLevelName[level], and strerror with errno when it is not 0.
Header(errno) ==
    FormatTime \o <<TidLen, 6>>
    \o (IF errno # 0 THEN <<StrerrorLen, 8, Digits(errno), 2>> ELSE <<>>)

\* Logger(file, line, level, func), for TRACE and DEBUG: func and ' '.
FuncPieces(macro) == IF macro \in {"TRACE", "DEBUG"} THEN <<FuncLen, 1>> ELSE <<>>

\* Impl::finish(): " - ", the basename, ':', the line and '\n'.
Finish(s) == <<3, Basename(s.path), 1, Digits(s.line), 1>>

\* Every piece a statement appends to its LogStream, in order.
Pieces(s) ==
    Header(IF s.macro \in {"SYSERR", "SYSFATAL"} THEN s.errno ELSE 0)
    \o FuncPieces(s.macro) \o s.msgs \o Finish(s)

\* FixedBuffer::append(buf, len): copy only if avail() > len; a piece that
\* does not fit is dropped whole (FIXME: append partially).
FixedAppend(used, len) == IF SmallBuffer - used > len THEN used + len ELSE used

\* buffer().length() when ~Logger() hands the record to g_output().
RecordLen(s) == FoldLeft(FixedAppend, 0, Pieces(s))

\* ~Logger() after g_output(): FATAL goes on to g_flush() and abort().
Dtor(level) == IF level = FATAL THEN "flush" ELSE "idle"

-----------------------------------------------------------------------------
\* A LOG_xxx statement: the level test, the Logger's construction, the
\* statement's pieces, and ~Logger()'s finish() and g_output(), which is
\* LogFile::append().
LogStatement(s) ==
    /\ loggerPc = "idle" /\ Enabled(s.macro)
    /\ LF!Append(RecordLen(s))
    /\ loggerPc' = Dtor(MacroLevel[s.macro])
    /\ UNCHANGED gLogLevel

\* ~Logger() of a FATAL record: g_flush(), which is LogFile::flush().
FlushFatal ==
    /\ loggerPc = "flush"
    /\ LF!Flush
    /\ loggerPc' = "abort"
    /\ UNCHANGED gLogLevel

\* ~Logger() of a FATAL record: abort().  Nothing runs after it.
Abort ==
    /\ loggerPc = "abort"
    /\ loggerPc' = "aborted"
    /\ UNCHANGED <<lfVars, gLogLevel>>

\* Logger::setLogLevel(level).
SetLogLevel(level) ==
    /\ loggerPc = "idle"
    /\ gLogLevel' = level
    /\ UNCHANGED <<lfVars, loggerPc>>

\* The wall clock moves on or is set back while the process runs.
Clock ==
    /\ loggerPc # "aborted"
    /\ LF!Tick \/ LF!StepBack
    /\ UNCHANGED <<gLogLevel, loggerPc>>

\* g_logLevel = initLogLevel(): TRACE or DEBUG when MUDUO_LOG_TRACE or
\* MUDUO_LOG_DEBUG is set, INFO otherwise.
Init ==
    /\ LF!Init
    /\ gLogLevel \in EnvLevels
    /\ loggerPc = "idle"

Next ==
    \/ \E s \in Statements : LogStatement(s)
    \/ FlushFatal \/ Abort
    \/ \E level \in SetLevels : SetLogLevel(level)
    \/ Clock

Spec == Init /\ [][Next]_vars

-----------------------------------------------------------------------------
(* Properties.                                                             *)

TypeOK ==
    /\ LF!TypeOK
    /\ gLogLevel \in TRACE .. FATAL
    /\ loggerPc \in {"idle", "flush", "abort", "aborted"}

====
