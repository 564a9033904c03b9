SPECIFICATION Spec
CONSTANTS
    t1 = t1
    t2 = t2
    a = a
    b = b
    c = c
    Tasks = {t1, t2}
    Items = {a, b, c}
    PageSize = 2
SYMMETRY MCSymmetry
INVARIANTS
    TypeOK
    ListingAccurate
    AnswersTrue
