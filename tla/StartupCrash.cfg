SPECIFICATION Spec
CONSTANTS
    AuthModes = {"lowerCase", "otherCase"}
    MaxStops = 1
INVARIANTS
    EnvironmentReachesDatabase
