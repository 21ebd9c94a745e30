SPECIFICATION MCSpec
CONSTANTS
    r1 = r1
    r2 = r2
    r3 = r3
    Requests <- MCRequests
    Timed <- MCTimed
    Usages <- MCUsages
    SendRetryMax = 2
    Silent = FALSE
    Calls = {"u1", "u2", "u3"}
    Remotes = {"l1", "l2"}
    Conns = {"k1", "k2", "k3", "k4", "k5"}
    MaxConns = 1
    MaxErrors = 1
    MaxMoves = 1
CHECK_DEADLOCK FALSE
INVARIANT SocketIdleOnSend
PROPERTY KeepsPromise
PROPERTY EverySendReturns
INVARIANT ConnectionIsExclusive
PROPERTY EveryCallAnswered
