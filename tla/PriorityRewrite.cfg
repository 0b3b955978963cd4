SPECIFICATION Spec
CONSTANTS
    NULL = NULL
    MaxId = 4
    Payloads <- MCPayloads
INVARIANTS
    TypeOK
    NoClash
PROPERTIES
    OrderSpec
    CommitsAreOperations
