SPECIFICATION ServiceSpec
CONSTANTS
    AuthModes = {"lowerCase", "otherCase"}
    MaxStops = 2
    Handlers = {h1, h2}
    Grace = 2
INVARIANTS
    ServiceTypeOK
    ServesWholeSchema
    DatabaseClosesLast
PROPERTIES
    EditsSurviveRestarts
    ServesAgain
    ShutdownEnds
