\* Right and wrong configurations, two routes, pools of three and four keys.
CONSTANTS
    VirtualModels <- RoutesOfBase
    Files <- AllFiles
    Matrix <- ProbedMatrix
    ProviderIds <- SomeIds
    KeyIds <- SomeKeys
    ModelIds <- SomeModels
    Capabilities <- TextStream
    Unset = Unset
    NoModel = NoModel
    Blank = ""
    NoKey = NoKey
    CounterPeriod = 12
    Window = 4
SPECIFICATION Spec
INVARIANTS TypeOK PoolComplete ValidatedServes EveryKeyLeads
