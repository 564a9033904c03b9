SPECIFICATION FairSpec
CONSTANTS
    t1 = t1
    t2 = t2
    a1 = a1
    allow0 = allow0
    deny0 = deny0
    web = web
    Tasks = {t1, t2}
    Acls = {a1}
    Keys = {allow0, deny0, web}
    SystemKeys = {allow0, deny0}
    Defaults = {allow0}
    Attempts = 2
    None = None
CHECK_DEADLOCK FALSE
INVARIANTS
    TypeOK
    BookendsKept
PROPERTIES
    OkMeansLanded
    DroppedMeansNotHeld
    UpdateEnds
