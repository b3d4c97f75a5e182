\* A provider that answers in completed messages.
CONSTANTS
    p1 = p1  p2 = p2  k1 = k1  k2 = k2  k3 = k3  m1 = m1  s1 = s1
    NoKey = NoKey
    NoModel = NoModel
    Providers <- TwoProviders
    Keys <- ThreeKeys
    Models <- OneModel
    Capabilities <- TextStreamTools
    StreamSlots <- OneSlot
    Routes <- ReserveRoutes
    Needs <- TextOnly
    Secrets <- ThreeKeys
    MessageProviders <- SecondOnly
    StreamErrors <- RelayErrors
    MaxEvents = 3
    StoreFaults = FALSE
    RateLimitCooldown = 1
    NetworkCooldown = 1
    ServerCooldown = 1
    RetryLimit = 1
    RouteCandidateLimit = 0
    HardCeiling = 4
SPECIFICATION StreamSpec
PROPERTY TextIsDelivered
