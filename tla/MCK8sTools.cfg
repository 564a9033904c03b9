SPECIFICATION Spec
CONSTANTS
    t1 = t1
    t2 = t2
    service = service
    alice = alice
    web = web
    Tasks = {t1, t2}
    Identities = {service, alice}
    Clusters = {cluster}
    Names = {web}
    Unnamed = Unnamed
    MaxDocs = 2
    Absent = Absent
    Outside = Outside
    None = None
SYMMETRY MCSymmetry
INVARIANTS
    TypeOK
    ClientIsolation
    AppliedInOrder
PROPERTIES
    ReadOnlyServer
    NoForceNeverOverwrites
