SPECIFICATION IterationSpec
CONSTANTS
    Fact <- MCFact
    Initial <- MCInitial
    Items <- MCItems
    Reads <- MCReads
    Derive <- MCDerive
INVARIANTS TypeOK UpToDate LeastSolution
CHECK_DEADLOCK FALSE
