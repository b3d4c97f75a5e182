\* A plain request and a stream at a time on two keys of one provider; the
\* process may crash and writes to the store may raise.
CONSTANTS
    p1 = p1  k1 = k1  k2 = k2  m1 = m1  s1 = s1  s2 = s2
    NoKey = NoKey
    NoModel = NoModel
    Providers <- OneProvider
    Keys <- TwoKeys
    Models <- OneModel
    Capabilities <- TextStream
    Slots <- OneChat
    StreamSlots <- OneStream
    Routes <- PairRoutes
    Needs <- TextOnly
    ApiOutcomes <- ChatOutcomes
    CliOutcomes <- None
    StoreFaults = TRUE
    Crashes = TRUE
    Secrets <- TwoKeys
    MessageProviders <- None
    StreamErrors <- StreamClasses
    MaxEvents = 1
    RateLimitCooldown = 1
    NetworkCooldown = 1
    ServerCooldown = 1
    RetryLimit = 1
    RouteCandidateLimit = 2
    HardCeiling = 4
SPECIFICATION GatewaySpec
INVARIANTS Budget EventPerAttempt NothingGivenUpEarly
PROPERTIES FirstCallsAreEligible LossIsLocal ComesBack
