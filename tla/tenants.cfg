CONSTANTS
    None = None
    d1 = d1
    d2 = d2
    n1 = n1
    n2 = n2
    n3 = n3
    k1 = k1
    k2 = k2
    k3 = k3
    github = github
    shop = shop
    shops = shops
    p1 = p1
    p2 = p2
    p3 = p3
    t1 = t1
    t2 = t2
    t3 = t3
    Odd = Odd
    Received = Received
    Replay = replay
    Requests = {q1, q2, q3}
    Names = {n1, n2, n3}
    Keys = {k1, k2, k3}
    Defaults <- MCDefaults
    Preset <- MCPreset
    Bodies <- MCBodies
    Deliveries = {v1, v2}
    Sources = {github, shop, shops, replay}
    Providers = {github}
    Wordlike = {github, shop, shops, replay}
    Secrets <- MCSecrets
    Payloads = {p1, p2, p3}
    Texts = {t1, t2, t3, Received}
    Joined <- MCJoined
    Sendings <- MCSendings
    MaxCalls = 3
    MaxCrashes = 1
    MaxFaults = 1
CHECK_DEADLOCK FALSE
SPECIFICATION IntakeSpec
SYMMETRY Clients
INVARIANTS
    TenantTypeOK
    UniqueTenants
    IntakeTypeOK
    RepeatsAreOne
    AnsweredForItself
PROPERTIES
    LockedForGood
    DefaultsSeeded
    RemovedStaysRemoved
    ClosedTakesNothing
