SPECIFICATION Spec
CONSTANTS
    NULL = NULL
    Handlers = {h1, h2}
    Thresholds = {1}
    Cooldowns = {2}
    SeededEgress = "ok"
    MaxId = 1
    MaxFailures = 1
    Payloads = {}
PROPERTIES
    CooldownRunsItsFullTime
