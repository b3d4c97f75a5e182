\* A provider in cooldown that a success row of one of its models hides.
CONSTANTS
    p1 = p1  p2 = p2  k1 = k1  k2 = k2  m1 = m1  m2 = m2  s1 = s1  s2 = s2
    NoKey = NoKey
    NoModel = NoModel
    Providers <- TwoProviders
    Keys <- TwoKeys
    Models <- TwoModels
    Capabilities <- TextTools
    Slots <- TwoSlots
    Routes <- SharedKeyRoutes
    Needs <- TextOrTools
    ApiOutcomes <- ClaimOutcomes
    CliOutcomes <- NoOutcomes
    StoreFaults = FALSE
    Crashes = FALSE
    RateLimitCooldown = 1
    NetworkCooldown = 1
    ServerCooldown = 1
    RetryLimit = 1
    RouteCandidateLimit = 0
    HardCeiling = 4
SPECIFICATION Spec
INVARIANT ProviderCooldownVisible
