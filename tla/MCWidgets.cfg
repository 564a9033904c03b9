SPECIFICATION Spec
CONSTANTS
    t1 = t1
    t2 = t2
    w1 = w1
    w2 = w2
    w3 = w3
    NoWidget = NoWidget
    Tasks = {t1, t2}
    Ids = {w1, w2, w3}
    GridCols = 3
    MaxRows = 2
    AutoSizes <- MCAutoSizes
    ByHand <- MCByHand
SYMMETRY MCSymmetry
INVARIANTS
    TypeOK
    OverlapsExplained
