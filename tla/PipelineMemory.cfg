SPECIFICATION Spec
CONSTANTS
    MaxDataAccesses = 1
    InstrHitLatency = 1
    DataHitLatency = 2
    L2HitLatency = 1
    Configurations <- ThroughAndBack
    Persistence = TRUE
    TimingAnomalyAnalysis = TRUE
    isBCET = FALSE
    IdModulus = 6
    MaxLatency = 3
INVARIANTS TypeOK BackgroundIdDetermined ClientAccessTracked FastForwardOnlyMemory AssertionsHold
PROPERTIES DataAccessFinishes InstrAccessFinishes
