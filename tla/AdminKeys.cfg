SPECIFICATION Spec
CONSTANTS
    NULL = NULL
    Handlers = {h1, h2}
    Aliases = {a1}
    Secrets = {s1, s2}
    ShortSecrets = {}
    Amounts = {0, 2, 3}
    Unlimited = 3
    MaxId = 2
SYMMETRY MCSymmetry
INVARIANTS
    TypeOK
    HintMatchesSecret
    BalanceIsOwn
PROPERTIES
    EditsLoseOnlyToOverlap
