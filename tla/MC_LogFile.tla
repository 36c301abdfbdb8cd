------------------------------ MODULE MC_LogFile ------------------------------
(* A Logger writing into a LogFile.  A day of three seconds and a clock    *)
(* that runs through three of them, so a file outlives its day; a check   *)
(* every second line; one step back of the clock.  The statements: a      *)
(* short LOG_INFO (72 bytes); a LOG_INFO whose message so nearly fills the *)
(* 4000-byte buffer that the basename, the line number and the '\n' no     *)
(* longer fit (3999 bytes); and a LOG_SYSFATAL with errno EMFILE (103      *)
(* bytes).  Three short records stay under the roll size, so a size roll   *)
(* can fall in the second of the previous roll, and a long one crosses it. *)
EXTENDS Logging

\* src/muduo/net/TcpConnection.cc, line 180.
MCPath == <<3, 5, 3, 16>>

MCStatements ==
    {[macro |-> "INFO", msgs |-> <<10>>, path |-> MCPath, line |-> 180, errno |-> 0],
     [macro |-> "INFO", msgs |-> <<3957>>, path |-> MCPath, line |-> 180, errno |-> 0],
     [macro |-> "SYSFATAL", msgs |-> <<10>>, path |-> MCPath, line |-> 180, errno |-> 24]}

MCLineLens == {1}

\* Neither environment variable set; setLogLevel(WARN) silences LOG_INFO.
MCEnvLevels == {INFO}
MCSetLevels == {INFO, WARN}

WrittenBytesMatchDisk == LF!WrittenBytesMatchDisk
OverrunBounded == LF!OverrunBounded

====
