CONSTANTS
    Invokers = {"a", "b", "z"}
    Stopper = "z"
    Hosted = {"r1", "r2"}
    CommitWorkers = {"c1", "c2"}
    AppendWorkers = {"a1", "a2"}
    MaxCommits = 2
    MaxAppends = 3
    MaxPauses = 1
    Writers = {"t1", "t2"}
    LogStopper = "tz"
    NumSlots = 2
    FileLimit = 1
    MaxLogFiles = 1
    MaxPuts = 2
    Parts = {"manager"}
SPECIFICATION ThreadsSpec
PROPERTY IgnoredIsExecuted
CHECK_DEADLOCK FALSE
