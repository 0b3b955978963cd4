SPECIFICATION Spec
CONSTANTS
    Handlers = {h1, h2}
    Keys = {k1, k2}
    NoKey = NoKey
    TTL = 2
    MaxVersion = 3
SYMMETRY MCSymmetry
INVARIANTS
    SessionsKnowTheKey
    BootstrapOnce
PROPERTIES
    ResetEndsSessions
