SPECIFICATION Spec
CONSTANTS
    t1 = t1
    t2 = t2
    service = service
    alice = alice
    Tasks = {t1, t2}
    Identities = {service, alice}
    Args = {region}
    None = None
    TTL = 1
    MaxFetch = 1
    MaxClock = 3
    MaxVersion = 2
SYMMETRY MCSymmetry
INVARIANTS
    TypeOK
    IdentityIsolation
    BoundedStaleness
    CacheShowsAckedWrites
