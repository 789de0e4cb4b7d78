SPECIFICATION Spec
CONSTANTS
    Value <- MCValue
    Blocks <- MCBlocks
    Loops <- MCLoops
    NumberLoopTokens = 0
    NumberCalleeTokens = 1
    NumberCallsiteTokens = 1
    LoopPeel = 1
    IdModulus = 32
    BackgroundMemoryType = "SIMPLEDRAM"
    Latency = 1
    PerWordLatency = 1
    DRAMRefreshLatency = 1
    MaxBlockingPerAccess = 1
    MaxCycles = 60
    Programs <- MCPrograms
INVARIANTS ExplorationCovers RetiresProgramOrder NeverAborted SetsMinimal ScopesFollowProgram
PROPERTIES KeepsRetiring
