CONSTANTS
    t1 = t1
    t2 = t2
    cpp = cpp
    Main = Main
    Threads <- OneThread
    NoThread = NoThread
    Lua = Lua
    Java = Java
    Others <- NoOthers
    ScriptJoins = TRUE
    MaxCalls <- FourAndOne
SPECIFICATION FairSpec
PROPERTIES
    JoinReturns
CHECK_DEADLOCK FALSE
