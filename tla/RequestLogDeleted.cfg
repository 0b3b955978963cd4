SPECIFICATION Spec
CONSTANTS
    NULL = NULL
    Handlers = {h1}
    Keys = {k1}
    Window = 1
    MaxTime = 1
    MaxRows = 1
PROPERTIES
    EveryRequestLogged
