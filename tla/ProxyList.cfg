CONSTANTS
    p1 = p1
    p2 = p2
    p3 = p3
    Proxies <- ThreeProxies
    EndNode = EndNode
    Main = Main
    NoOne = NoOne
SPECIFICATION Spec
INVARIANTS
    RingIntact
    MutexLifetime
    ReleasedOnce
    DisposedEmpty
