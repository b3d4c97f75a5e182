\* Up to three rows, written by this version or an older one, in every scope that
\* is written; starts that may be cut off after every statement.
CONSTANTS
    p1 = p1  x1 = x1  k1 = k1  m1 = m1
    NoKey = NoKey
    NoModel = NoModel
    Null = Null
    Providers <- KeyedAndExecutor
    Executors <- ExecutorOnly
    Keys <- OneKey
    Models <- OneModel
    HealthValues <- HealthObserved
    QuotaValues <- QuotaObserved
    MaxRows = 3
SPECIFICATION Spec
INVARIANTS TypeOK StartsAlways Migrated LookupsAgree DoubleAgrees
PROPERTY KeepsObservations
