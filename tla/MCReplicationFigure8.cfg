CONSTANTS
    Nil = Nil
    Server = {s1, s2, s3}
    Candidates = {s1, s2}
    TakeTurns = TRUE
    MaxTerm = 4
    MaxLog = 2
    MaxClientLog = 0
    MaxAppendSize = 1
    MaxWaiting = 0
    MaxFailures = 0
SYMMETRY MCSymmetry
SPECIFICATION MCSpec
INVARIANTS
    CommittedIsDurable
CHECK_DEADLOCK FALSE
