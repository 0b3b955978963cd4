SPECIFICATION AccessSpec
CONSTANTS
    NULL = NULL
    NoKey = NoKey
    Handlers = {h1}
    Callers = {c1}
    Keys = {k1, k2}
    Secret = Secret
    TTL = 1
    MaxVersion = 2
    Tables <- MCTables
    Bodies <- MCBodies
    HeaderSets <- MCHeaderSets
    Nominations <- MCNominations
SYMMETRY MCSymmetry
INVARIANTS
    AccessTypeOK
    OnlyHoldersPass
    UpstreamGets
    NothingBeforeBootstrap
