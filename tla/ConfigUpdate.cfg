SPECIFICATION FairSpec
CONSTANTS
    Handlers = {h1, h2}
    Columns = {c1}
    Values = {v1, v2}
    Unacceptable = Unacceptable
    Default = v1
    RedirectLists <- MCRedirectLists
    NULL = NULL
INVARIANTS
    TypeOK
    RedirectsAreOneList
    AcceptedNeverClashes
PROPERTIES
    LostOnlyToOverlap
    CallsEnd
