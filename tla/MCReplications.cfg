CONSTANTS
    Nil = Nil
    Server = {s1, s2, s3}
    Candidates = {s1, s2}
    TakeTurns = FALSE
    MaxTerm = 3
    MaxLog = 3
    MaxClientLog = 0
    MaxAppendSize = 4
    MaxWaiting = 0
    MaxFailures = 0
SYMMETRY MCSymmetry
SPECIFICATION ScenesSpec
INVARIANTS
    LogsMatch
    OneLeaderAppends
    CommitIsSafe
    CountedIsStored
    NextIsInLog
PROPERTIES
    CommitNeverGoesBack
CHECK_DEADLOCK FALSE
