SPECIFICATION MCFairSpec
CONSTANTS
    c1 = c1
    c2 = c2
    None = None
    Clients <- MCClients
    Batch <- MCBatch
    MaxLog = 4
    MaxElections = 1
    MaxConfs = 0
CHECK_DEADLOCK FALSE
PROPERTY CommitResultIsSet
