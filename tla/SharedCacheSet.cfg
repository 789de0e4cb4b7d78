CONSTANTS
    Tag <- MCTag
    Assoc = 3
    MaxWorthwhileTags = 2
    addrlists <- MCAddrlists
SPECIFICATION SharedSpec
INVARIANTS
    SharedHitSound
