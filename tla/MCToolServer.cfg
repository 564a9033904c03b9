SPECIFICATION Spec
CONSTANTS
    t1 = t1
    t2 = t2
    service = service
    alice = alice
    HCM = HCM
    Tasks = {t1, t2}
    Service = service
    Callers <- MCCallers
    DefaultRegion = HCM
    Plans <- MCPlans
    Watched <- MCMaintained
    None = None
    MaxVersion = 1
SYMMETRY MCSymmetry
INVARIANTS
    TypeOK
    ReadOnlyServer
    NothingSentUnchecked
    OwnProject
    ListShowsOwnChanges
