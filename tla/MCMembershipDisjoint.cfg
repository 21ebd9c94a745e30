CONSTANTS
    s1 = s1
    s2 = s2
    s3 = s3
    Nil = Nil
    Server <- MCServer
    CustomElectionQuorum = 0
    VoteInfo = {0}
    MaxTerm = 2
    MaxCampaigns = 3
    n1 = n1
    n2 = n2
    n3 = n3
    Node <- MCNode
    Founders <- MCNode
    First = n1
    NoNode = NoNode
    LogSyncStopGap = 1
    LastTerm = 2
    MaxLog = 4
    MaxRequests = 2
    MaxFailures = 3
    Parts = {"membership"}
SYMMETRY PairSymmetry
VIEW PairView
SPECIFICATION PairSpec
INVARIANT LeaderHasCommitted
CHECK_DEADLOCK FALSE
