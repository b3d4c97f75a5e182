\* Failures and successes in any order on two candidates of one provider of
\* either type; error responses with any of six statuses and twelve bodies.
CONSTANTS
    p1 = p1  k1 = k1  k2 = k2  m1 = m1  m2 = m2
    NoKey = NoKey
    NoModel = NoModel
    Providers <- OneProvider
    Keys <- TwoKeys
    Models <- TwoModels
    Capabilities <- TextOnly
    RateLimitCooldown = 1
    NetworkCooldown = 1
    ServerCooldown = 1
    RetryLimit = 0
    RouteCandidateLimit = 0
    HardCeiling = 1
    Route <- KeysAndModels
    Statuses <- EveryBranch
    Bodies <- DecidingBodies
SPECIFICATION Spec
INVARIANTS TypeOK OutForGoodWasTold ThrottledIsNotExhausted SilenceIsNotBlamed
