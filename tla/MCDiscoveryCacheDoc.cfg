SPECIFICATION Spec
CONSTANTS
    t1 = t1
    t2 = t2
    service = service
    alice = alice
    Tasks = {t1, t2}
    Identities = {service}
    Args = {region}
    None = None
    TTL = 1
    MaxFetch = 1
    MaxClock = 2
    MaxVersion = 2
PROPERTIES
    RefreshFixesStaleness
