CONSTANTS
    RollSize = 250
    FlushInterval = 1
    CheckEveryN = 2
    RollPerSeconds = 3
    LineLens <- MCLineLens
    MaxTime = 7
    MaxAppends = 5
    MaxStepBacks = 1
    SmallBuffer = 4000
    TimeZoneValid = FALSE
    TidLen = 6
    FuncLen = 11
    StrerrorLen = 19
    Statements <- MCStatements
    EnvLevels <- MCEnvLevels
    SetLevels <- MCSetLevels

SPECIFICATION Spec

\* Appends and the clock are bounded, and abort() ends the process.
CHECK_DEADLOCK FALSE

INVARIANT TypeOK WrittenBytesMatchDisk OverrunBounded
