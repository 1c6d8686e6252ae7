CONSTANTS
    c1 = c1
    c2 = c2
    Clients <- TwoClients
    NoConn = NoConn
    MaxProcs = 2
    MaxThreads = 2
    MaxFaults = 1
    DelayLimit = 2
SPECIFICATION FairSpec
INVARIANTS
    PoolExact
    ConnectionOwned
    NoIdleProcess
    WorkersAttached
PROPERTIES
    QueuedIsTaken
    PoolRefilled
CHECK_DEADLOCK FALSE
