\* Two requests at a time on two keys of one provider; cooldowns of different
\* lengths overlap, and writes to the store may raise.
CONSTANTS
    p1 = p1  p2 = p2  k1 = k1  k2 = k2  m1 = m1  m2 = m2  s1 = s1  s2 = s2
    NoKey = NoKey
    NoModel = NoModel
    Providers <- TwoProviders
    Keys <- TwoKeys
    Models <- OneModel
    Capabilities <- TextTools
    Slots <- TwoSlots
    Routes <- PairRoutes
    Needs <- TextOrTools
    ApiOutcomes <- OverlapOutcomes
    CliOutcomes <- NoOutcomes
    StoreFaults = TRUE
    Crashes = FALSE
    RateLimitCooldown = 2
    NetworkCooldown = 1
    ServerCooldown = 1
    RetryLimit = 1
    RouteCandidateLimit = 0
    HardCeiling = 4
SPECIFICATION FairSpec
INVARIANT NobodyForgotten
PROPERTIES BlastRadius FreshIsEligible Terminates RateLimitEnds
