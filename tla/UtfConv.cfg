CONSTANTS
    Strings8 <- FourBytes
    Strings16 <- ThreeUnits
SPECIFICATION Spec
INVARIANTS
    RoundTrip
    OutputWellFormed
    PermissiveGoesThrough
CHECK_DEADLOCK FALSE
