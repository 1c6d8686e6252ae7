CONSTANTS
    t1 = t1
    t2 = t2
    t3 = t3
    Threads <- ThreeThreads
    PiggybackSizes <- OneOrTwo
    MaxMails = 1
    MaxCrashes = 1
SPECIFICATION FairSpec
CHECK_DEADLOCK FALSE
INVARIANTS
    EntriesAlive
PROPERTIES
    Answered
    ImplementsStore
