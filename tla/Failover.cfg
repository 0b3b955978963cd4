SPECIFICATION Spec
CONSTANTS
    NULL = NULL
    Handlers = {h1, h2}
    Thresholds = {1, 2}
    Cooldowns = {1}
    SeededEgress = "ok"
    MaxId = 2
    MaxFailures = 2
    Payloads <- MCPayloads
SYMMETRY MCSymmetry
INVARIANTS
    TypeOK
    PrioritiesDense
    CooldownOnlyAtThreshold
PROPERTIES
    ThresholdAlwaysTrips
    SwitchOnlyAfterThreshold
    HealthOnlyFromOwnResults
    NewKeysAreNobodysKey
    OrderSpec
