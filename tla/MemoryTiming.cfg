CONSTANTS
    p1 = p1
    p2 = p2
    Path = {p1, p2}
    NumWords = {2}
    BackgroundMemoryType = "SIMPLEDRAM"
    Latency = 0
    PerWordLatency = 1
    DRAMRefreshLatency = 2
    MaxBlockingPerAccess = 1
    MaxForwarded = 3
    MaxBlocked = 1
SPECIFICATION Spec
CONSTRAINT Bounded
SYMMETRY PathSymmetry
INVARIANTS
    IInv
    TimeCovered
    BlockingCounted
    NoExecutionLost
    AssertionsHold
