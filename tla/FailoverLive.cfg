SPECIFICATION FairSpec
CONSTANTS
    NULL = NULL
    Handlers = {h1, h2}
    Thresholds = {1, 2}
    Cooldowns = {2}
    SeededEgress = "unusable"
    MaxId = 1
    MaxFailures = 2
    Payloads <- MCPayloads
PROPERTIES
    CooldownIsTemporary
    OnlyPeersHang
