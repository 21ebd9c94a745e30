CONSTANTS
    s1 = s1
    s2 = s2
    s3 = s3
    Server = {s1, s2, s3}
    Nil = Nil
    CustomElectionQuorum = 0
    VoteInfo = {TRUE, FALSE}
    MaxTerm = 2
    Priority <- MCPriority
    Lagging = {s3}
    AllowZeroPriority = FALSE
    RejectionLimit = 2
    MaxWaiting = 0
    Starters = {s1, s2}
    MaxTimeouts = 3
    MaxFailures = 1
    MaxTransfers = 0
SPECIFICATION ScenesSpec
INVARIANT MajorityPreVotes
 
CHECK_DEADLOCK FALSE
