CONSTANTS
    top = top
    s1 = s1
    c1 = c1
    ClientObjs <- OneClientObj
    ServerObjs <- TopOnly
    TopObj <- top
    MaxRefs = 1
    MaxDepth = 2
    MaxArgs = 1
    DestructorsCall = TRUE
SPECIFICATION DestructorsSpec
INVARIANTS
    NoAbort
CHECK_DEADLOCK FALSE
