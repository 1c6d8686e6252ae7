CONSTANTS
    t1 = t1
    t2 = t2
    u1 = u1
    p = p
    q = q
    Callers <- TwoAndOne
    Processes <- TwoProcesses
    ProcessOf <- Of
    MaxTime = 2
    MaxVersion = 2
SPECIFICATION LoaderSpec
INVARIANTS
    OneClass
PROPERTIES
    LoadedIsCurrent
