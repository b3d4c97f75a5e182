\* One stream at a time over a route with a reserve key; a secret may be missing,
\* writes to the store may raise, and the ceiling is within reach.
CONSTANTS
    p1 = p1  p2 = p2  k1 = k1  k2 = k2  k3 = k3  m1 = m1  s1 = s1
    NoKey = NoKey
    NoModel = NoModel
    Providers <- TwoProviders
    Keys <- ThreeKeys
    Models <- OneModel
    Capabilities <- TextStreamTools
    StreamSlots <- OneSlot
    Routes <- ReserveRoutes
    Needs <- TextOrTools
    Secrets <- AllButReserve
    MessageProviders <- None
    StreamErrors <- RelayErrors
    MaxEvents = 3
    StoreFaults = TRUE
    RateLimitCooldown = 1
    NetworkCooldown = 1
    ServerCooldown = 1
    RetryLimit = 1
    RouteCandidateLimit = 0
    HardCeiling = 2
SPECIFICATION StreamSpec
INVARIANTS StreamTypeOK ClientSeesOneUpstream EventPerAttempt
PROPERTY KeepsPromise
