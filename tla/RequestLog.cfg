SPECIFICATION MCSpec
CONSTANTS
    NULL = NULL
    Handlers = {h1, h2}
    Keys = {k1}
    Window = 1
    MaxTime = 2
    MaxRows = 2
    Loads = {l1, l2}
    Filters = {"failure"}
    Limits = {1}
SYMMETRY MCSymmetry
INVARIANTS
    TypeOK
    PagingSkipsNothing
PROPERTIES
    LogIsComplete
    ExpiredRowsGo
