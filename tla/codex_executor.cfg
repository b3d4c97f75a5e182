\* Two calls at a time; subprocesses of up to two events that exit, hang or outlive
\* their call; removals that fail; the gateway may die.
CONSTANTS
    x1 = x1  m1 = m1  s1 = s1  s2 = s2
    NoKey = NoKey
    NoModel = NoModel
    Providers <- OneProvider
    Keys <- NoKeys
    Models <- OneModel
    Capabilities <- TextOnly
    Slots <- TwoSlots
    Cli <- Codex
    MaxEvents = 2
    MaxStrays = 2
    RateLimitCooldown = 1
    NetworkCooldown = 1
    ServerCooldown = 1
    RetryLimit = 0
    RouteCandidateLimit = 0
    HardCeiling = 1
SPECIFICATION FairSpec
INVARIANTS TypeOK VerdictFollowsEvents ExecutorStaysUsable
PROPERTY CallsEnd
