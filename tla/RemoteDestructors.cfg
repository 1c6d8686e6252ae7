CONSTANTS
    top = top
    s1 = s1
    c1 = c1
    ClientObjs <- OneClientObj
    ServerObjs <- TopAndOne
    TopObj <- top
    MaxRefs = 1
    MaxDepth = 2
    MaxArgs = 1
    DestructorsCall = FALSE
SPECIFICATION DestructorsFairSpec
INVARIANTS
    NoAbort
PROPERTIES
    CollectionEnds
    CloseReachesPeer
    CallsReturn
CHECK_DEADLOCK FALSE
