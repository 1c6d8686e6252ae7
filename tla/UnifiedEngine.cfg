CONSTANTS
    t1 = t1
    t2 = t2
    cpp = cpp
    Main = Main
    Threads <- TwoThreads
    NoThread = NoThread
    Lua = Lua
    Java = Java
    Others <- OnlyCpp
    ScriptJoins = TRUE
    MaxCalls <- FiveAndTwo
SPECIFICATION FairSpec
INVARIANTS
    LockExact
    ContextsExact
    GlobalImported
    EnginesOutliveThreads
PROPERTIES
    EnginesFixedWhileWaiting
    WaitReturns
    ThreadsEnd
CHECK_DEADLOCK FALSE
