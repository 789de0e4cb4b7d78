CONSTANTS
    Path = {p1, p2}
    Tag = {0, 1, 2}
    Assoc = 2
    MaxWorthwhileTags = 2
SPECIFICATION Spec
INVARIANTS
    TypeOK
    ClassificationSound
    VectorsCanonical
    LessequalIsPrecision
    TransferMonotone
    ImplementsBounds
SYMMETRY PathSymmetry
