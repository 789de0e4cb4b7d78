SPECIFICATION Spec
CONSTANTS
    Value <- MCValue
    Blocks <- MCBlocks
    Loops <- MCLoops
    NumberLoopTokens = 0
    NumberCalleeTokens = 1
    NumberCallsiteTokens = 1
    LoopPeel = 2
    EntryPoints = {"nest", "calls", "twice", "rec"}
    START = {0, 1}
    MaxDepth = 3
INVARIANTS ContextsMatchLoops NeverAborted ResultCoversExecution
PROPERTIES Terminates IteratesToSolution
CHECK_DEADLOCK FALSE
