\* One request at a time over a route with a reserve key and an executor, the
\* ceiling within reach, crashes, writes to the store that raise.
CONSTANTS
    p1 = p1  p2 = p2  k1 = k1  k2 = k2  m1 = m1  m2 = m2  s1 = s1  s2 = s2
    NoKey = NoKey
    NoModel = NoModel
    Providers <- TwoProviders
    Keys <- TwoKeys
    Models <- OneModel
    Capabilities <- TextTools
    Slots <- OneSlot
    Routes <- ReserveRoutes
    Needs <- TextOrTools
    ApiOutcomes <- FailoverOutcomes
    CliOutcomes <- ExecOutcomes
    StoreFaults = TRUE
    Crashes = TRUE
    RateLimitCooldown = 1
    NetworkCooldown = 1
    ServerCooldown = 1
    RetryLimit = 2
    RouteCandidateLimit = 0
    HardCeiling = 5
SPECIFICATION Spec
INVARIANTS TypeOK Budget  NobodyForgotten ReserveLast
PROPERTY KeepsRequestPromise
