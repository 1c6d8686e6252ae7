CONSTANTS
    top = top
    s1 = s1
    c1 = c1
    ClientObjs <- OneClientObj
    ServerObjs <- TopAndOne
    TopObj <- top
    MaxRefs = 2
    MaxDepth = 2
    MaxArgs = 2
SPECIFICATION Spec
INVARIANTS
    NoAbort
    FlipFlop
    RepliesMatch
    ExportedWhileReferenced
    NoLeakedExport
    RefcountExact
    OwnerKeepsOpen
PROPERTIES
    ImplementsCall
CHECK_DEADLOCK FALSE
