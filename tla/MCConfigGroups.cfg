SPECIFICATION Spec
CONSTANTS
    t1 = t1
    t2 = t2
    db1 = db1
    db2 = db2
    Tasks = {t1, t2}
    Instances = {db1, db2}
SYMMETRY MCSymmetry
INVARIANTS
    RestartTold
    ReportTrue
