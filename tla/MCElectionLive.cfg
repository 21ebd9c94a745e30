CONSTANTS
    s1 = s1
    s2 = s2
    s3 = s3
    Server = {s1, s2, s3}
    Nil = Nil
    CustomElectionQuorum = 0
    VoteInfo = {TRUE, FALSE}
    MaxTerm = 2
    Priority <- MCPriority
    AllowZeroPriority = FALSE
    RejectionLimit = 2
    MaxWaiting = 0
    Lagging = {s3}
    Starters = {}
    MaxTimeouts = 0
    MaxFailures = 1
    MaxTransfers = 0
SPECIFICATION LiveSpec
PROPERTY NextVoteStarts
CHECK_DEADLOCK FALSE
