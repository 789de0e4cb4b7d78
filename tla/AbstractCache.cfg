CONSTANTS
    Tag <- MCTag
    Assoc = 1
    MaxWorthwhileTags = 2
    LINE_SIZE = 16
    N_SETS = 4
    AddressSpace = 128
    Interval <- MCInterval
SPECIFICATION Spec
INVARIANTS
    IntervalClassificationSound
CHECK_DEADLOCK FALSE
