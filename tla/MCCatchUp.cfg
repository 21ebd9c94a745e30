CONSTANTS
    Nil = Nil
    Server = {s1, s2}
    Candidates = {s1}
    TakeTurns = FALSE
    MaxTerm = 1
    MaxLog = 3
    MaxClientLog = 3
    MaxAppendSize = 1
    MaxWaiting = 0
    MaxFailures = 2
    MaxIdx = 4
    ConfAt <- MCConfAt
    Distance = 2
    FirstDistance = 1
    Reserved = 1
    Installable = {3, 4}
    Installers = {"h1"}
    Overlap = FALSE
    MaxManual = 1
    MaxSchedules = 1
    MaxInstalls = 1
    Objects = 3
    MaxSnapshots = 2
    MaxContexts = 8
    MaxFaults = 2
    MaxElections = 1
    MaxLate = 0
    JoinerRefuses = FALSE
    LogTerm = {1, 2}
    MaxLogIdx = 5
SPECIFICATION CatchUpSpec
INVARIANTS
    SnapshotOfItsIndex
    CompactedIsCovered
    InstallComplete
    MatchedIsInstalled
    
PROPERTIES
    FollowersCatchUp
    MachineNeverGoesBack
    InstallFinishes
    PeerGetsSnapshot
    
CHECK_DEADLOCK FALSE
