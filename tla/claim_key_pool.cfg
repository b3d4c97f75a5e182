\* Two rotating pools of two keys on one route, with and without the capability matrix.
CONSTANTS
    VirtualModels <- RoutesOfBase
    Files <- EvenFile
    Matrix <- ProbedMatrix
    ProviderIds <- SomeIds
    KeyIds <- SomeKeys
    ModelIds <- SomeModels
    Capabilities <- TextStream
    Unset = Unset
    NoModel = NoModel
    Blank = ""
    NoKey = NoKey
    CounterPeriod = 12
    Window = 4
SPECIFICATION Spec
INVARIANT KeysShareFairly
