---------------------------- MODULE UnifiedEngine ----------------------------
(***************************************************************************)
(* A unified engine of ASE run by aserun: the engines it loads on demand   *)
(* (asedelayscr.cpp, asedelayvar.cpp), the mutex they share, the threads   *)
(* that cross from one engine into another, and the end of the program     *)
(* (aserun.cpp, aseruntime.cpp).                                           *)
(*                                                                         *)
(* The engine mutex is recursive and protects the Lua virtual machine.     *)
(* Lua code runs inside a callfromase_guard, which locks it and takes a    *)
(* context; a call from Lua to an object marked multithreaded runs inside  *)
(* a callfromlua_guard, which unlocks it once.  Threads other than the     *)
(* main thread are Java threads started by the script; their code is       *)
(* foreign to this model except for its calls into ASE.                    *)
(***************************************************************************)
EXTENDS Integers, Sequences, FiniteSets

CONSTANTS
    Main,           \* the main thread
    Threads,        \* the Java threads
    NoThread,       \* no owner of the mutex, no thread joined
    Lua, Java,      \* the engine of the script, the engine with threads
    Others,         \* further engines
    ScriptJoins,    \* whether the script itself joins threads
    MaxCalls        \* bound: MaxCalls[t] calls of t across an engine boundary

AllThreads == Threads \cup {Main}
Engines == {Lua, Java} \cup Others

ASSUME ThreadsAssumption == Main \notin Threads /\ NoThread \notin AllThreads
ASSUME EnginesAssumption == Lua # Java /\ {Lua, Java} \cap Others = {}
ASSUME BoundsAssumption == MaxCalls \in [AllThreads -> Nat] /\ ScriptJoins \in BOOLEAN

VARIABLES
    main,       \* the progress of aserun_main, see Program
    mutex,      \* ase_unified_engine::impl_type::mutex
    stack,      \* stack[t]: the guards and calls on the stack of thread t
    status,     \* status[t]: the life of Java thread t
    calls,      \* calls[t]: calls thread t has made
    real,       \* real[e]: real_engine of the delay engine of e
    aseglobal,  \* aseglobal[e]: the delay engine of e still has the ASE global
    imported,   \* imported[e]: import_ase_global gave it to the real engine
    loaded,     \* loaded[e]: real_variant_loaded of the global variant of e
    cached,     \* cached_contexts of the Lua engine
    contexts    \* the number of Lua contexts created

vars == <<main, mutex, stack, status, calls, real, aseglobal, imported,
          loaded, cached, contexts>>
engineVars == <<real, aseglobal, imported, loaded>>
luaVars == <<cached, contexts>>

(***************************************************************************)
(* A frame is a guard of the mutex or a call out of Lua:                   *)
(*   load       ase_unified_engine::load_file                              *)
(*   delayload  ase_delay_script_engine::load_file                         *)
(*   use        ase_delay_variant_impl::load_real_variant of eng's global  *)
(*   get        ase_delay_script_engine::get_real_engine of eng            *)
(*   lua        callfromase_guard: Lua code running in context ctx         *)
(*   out        code called by Lua; unlocked if callfromlua_guard unlocked *)
(*              the mutex for it; waiting for thread join to end, if any.  *)
(* A guard is pushed when its constructor calls lock() and becomes locked  *)
(* when that returns.                                                      *)
(***************************************************************************)
Guards == {"load", "delayload", "use", "get", "lua"}
Frame == [kind : Guards \cup {"out"}, eng : Engines, ctx : Nat,
          locked : BOOLEAN, unlocked : BOOLEAN, join : AllThreads \cup {NoThread}]

Program == [phase : {"load", "wait", "dispose", "ended"}, failed : BOOLEAN,
            todo : SUBSET Engines, joining : BOOLEAN]

TypeOK ==
    /\ main \in Program
    /\ mutex \in [owner : AllThreads \cup {NoThread}, depth : Nat]
    /\ stack \in [AllThreads -> Seq(Frame)]
    /\ status \in [Threads -> {"new", "running", "ended"}]
    /\ calls \in [AllThreads -> Nat]
    /\ real \in [Engines -> {"none", "loaded", "disposed", "destroyed"}]
    /\ aseglobal \in [Engines -> BOOLEAN]
    /\ imported \in [Engines -> BOOLEAN]
    /\ loaded \in [Engines -> BOOLEAN]
    /\ cached \in Seq(Nat)
    /\ contexts \in Nat

(* prepare_globals has run: every delay engine has the ASE global and the   *)
(* delay variants of all globals exist.                                     *)
Init ==
    /\ main = [phase |-> "load", failed |-> FALSE, todo |-> Engines, joining |-> FALSE]
    /\ mutex = [owner |-> NoThread, depth |-> 0]
    /\ stack = [t \in AllThreads |-> <<>>]
    /\ status = [t \in Threads |-> "new"]
    /\ calls = [t \in AllThreads |-> 0]
    /\ real = [e \in Engines |-> "none"]
    /\ aseglobal = [e \in Engines |-> TRUE]
    /\ imported = [e \in Engines |-> FALSE]
    /\ loaded = [e \in Engines |-> FALSE]
    /\ cached = <<>>
    /\ contexts = 0

-----------------------------------------------------------------------------
(* The mutex and the stacks.                                                *)

Free(t) == mutex.owner \in {t, NoThread}
Lock(t) == mutex' = [owner |-> t, depth |-> mutex.depth + 1]

(* unlock() n times; by a thread that is not the owner it fails and the     *)
(* error is ignored.                                                        *)
Unlock(t, n) ==
    mutex' = IF mutex.owner # t THEN mutex
             ELSE IF mutex.depth <= n THEN [owner |-> NoThread, depth |-> 0]
             ELSE [mutex EXCEPT !.depth = @ - n]

NewFrame(k, e) ==
    [kind |-> k, eng |-> e, ctx |-> 0, locked |-> FALSE, unlocked |-> FALSE,
     join |-> NoThread]

Height(t) == Len(stack[t])
Top(t) == stack[t][Height(t)]
At(t, k) == stack[t] # <<>> /\ Top(t).kind = k
Inside(t, k) == At(t, k) /\ Top(t).locked
Below(t, n) == SubSeq(stack[t], 1, Height(t) - n)
Push(t, f) == stack' = [stack EXCEPT ![t] = Append(@, f)]
Pop(t, n) == stack' = [stack EXCEPT ![t] = Below(t, n)]

(* t runs code that is not Lua's and not ASE's.                             *)
Foreign(t) ==
    \/ t \in Threads /\ stack[t] = <<>> /\ status[t] = "running"
    \/ At(t, "out") /\ Top(t).join = NoThread

(* The unified engine exists.                                               *)
Alive == main.phase # "ended"

(* A call of t across an engine boundary.                                   *)
Calling(t) ==
    /\ Alive
    /\ calls[t] < MaxCalls[t]
    /\ calls' = [calls EXCEPT ![t] = @ + 1]

-----------------------------------------------------------------------------
(* The guards are entered.                                                  *)

(* callfromase_guard takes the last cached context, or creates one.         *)
NextContext == IF cached = <<>> THEN contexts + 1 ELSE cached[Len(cached)]

(* Mutant of CachedRest: a cached context is used but stays in the cache.   *)
CachedRestKept == cached

CachedRest == IF cached = <<>> THEN <<>> ELSE SubSeq(cached, 1, Len(cached) - 1)

(* lock() returns.                                                          *)
Acquire(t) ==
    /\ Alive
    /\ stack[t] # <<>> /\ Top(t).kind \in Guards /\ ~Top(t).locked
    /\ Free(t)
    /\ Lock(t)
    /\ IF Top(t).kind = "lua"
       THEN /\ stack' = [stack EXCEPT ![t][Height(t)].locked = TRUE,
                                      ![t][Height(t)].ctx = NextContext]
            /\ cached' = CachedRest
            /\ contexts' = IF cached = <<>> THEN NextContext ELSE contexts
       ELSE /\ stack' = [stack EXCEPT ![t][Height(t)].locked = TRUE]
            /\ UNCHANGED luaVars
    /\ UNCHANGED <<main, status, calls, engineVars>>

(* aserun loads the script.                                                 *)
RunScript ==
    /\ main.phase = "load" /\ stack[Main] = <<>>
    /\ Push(Main, NewFrame("load", Lua))
    /\ UNCHANGED <<main, mutex, status, calls, engineVars, luaVars>>

(* A script file is loaded through ASE.Host.Load.                           *)
LoadFile(t) ==
    /\ Foreign(t) /\ Calling(t)
    /\ Push(t, NewFrame("load", Lua))
    /\ UNCHANGED <<main, mutex, status, engineVars, luaVars>>

(* The global variant of engine e is used for the first time.  Once it is   *)
(* loaded, load_real_variant locks and unlocks and changes nothing.         *)
UseGlobal(t, e) ==
    /\ Foreign(t) /\ Calling(t) /\ ~loaded[e]
    /\ Push(t, NewFrame("use", e))
    /\ UNCHANGED <<main, mutex, status, engineVars, luaVars>>

(* A Lua object is used through its variant.  Java code has Lua objects     *)
(* only through proxies, which dispose_proxies of its engine empties.       *)
CallLua(t) ==
    /\ Foreign(t) /\ Calling(t)
    /\ real[Lua] # "none"
    /\ stack[t] = <<>> => real[Java] = "loaded"
    /\ Push(t, NewFrame("lua", Lua))
    /\ UNCHANGED <<main, mutex, status, engineVars, luaVars>>

(* load_file and load_real_variant need the real engine; without one        *)
(* get_real_engine is entered.  (With one it locks, tests and unlocks.)     *)
NeedEngine(t) ==
    /\ Alive
    /\ Inside(t, "load") \/ Inside(t, "use")
    /\ real[Top(t).eng] = "none"
    /\ Push(t, NewFrame("get", Top(t).eng))
    /\ UNCHANGED <<main, mutex, status, calls, engineVars, luaVars>>

(* load_file of the delay engine, which then runs EvalString of Lua.        *)
EnterFile(t) ==
    /\ Alive
    /\ \/ Inside(t, "load") /\ real[Lua] # "none" /\ Push(t, NewFrame("delayload", Lua))
       \/ Inside(t, "delayload") /\ Push(t, NewFrame("lua", Lua))
    /\ UNCHANGED <<main, mutex, status, calls, engineVars, luaVars>>

-----------------------------------------------------------------------------
(* The guards are left.                                                     *)

(* Mutant of Leave: an exception leaves the mutex locked.                   *)
LeaveLocked(t, n, ok) ==
    /\ Pop(t, n)
    /\ IF ok THEN Unlock(t, n) ELSE UNCHANGED mutex
    /\ main' = IF t # Main \/ Height(t) > n THEN main
               ELSE IF ok THEN [main EXCEPT !.phase = "wait"]
               ELSE [main EXCEPT !.phase = "dispose", !.failed = TRUE]

(* The last n frames of t, all guards, are left; ok is FALSE when an        *)
(* exception leaves them.  When load_file has returned to aserun it waits   *)
(* for the threads; after an exception it does not.                         *)
Leave(t, n, ok) ==
    /\ Pop(t, n)
    /\ Unlock(t, n)
    /\ main' = IF t # Main \/ Height(t) > n THEN main
               ELSE IF ok THEN [main EXCEPT !.phase = "wait"]
               ELSE [main EXCEPT !.phase = "dispose", !.failed = TRUE]

(* Mutant of MayCreate: the test of the thread is left out.                 *)
MayCreateAnywhere(t) == TRUE

MayCreate(t) == t = Main

(* get_real_engine in the main thread creates the engine, gives it the ASE  *)
(* global and publishes it; what called it goes on.                         *)
CreateEngine(t) ==
    /\ Alive
    /\ Inside(t, "get")
    /\ LET e == Top(t).eng
       IN  /\ MayCreate(t)
           /\ real' = [real EXCEPT ![e] = "loaded"]
           /\ imported' = [imported EXCEPT ![e] = aseglobal[e]]
    /\ Leave(t, 1, TRUE)
    /\ UNCHANGED <<status, calls, aseglobal, loaded, luaVars>>

(* get_real_engine throws: in any thread but the main one always, in the    *)
(* main one when the library or the engine cannot be created.  The load or  *)
(* the use that called it fails.                                            *)
CreateFails(t) ==
    /\ Alive
    /\ Inside(t, "get")
    /\ Leave(t, 2, FALSE)
    /\ UNCHANGED <<status, calls, engineVars, luaVars>>

(* load_real_variant keeps the real variant.                                *)
KeepGlobal(t) ==
    /\ Alive
    /\ Inside(t, "use") /\ real[Top(t).eng] # "none"
    /\ loaded' = [loaded EXCEPT ![Top(t).eng] = TRUE]
    /\ Leave(t, 1, TRUE)
    /\ UNCHANGED <<status, calls, real, aseglobal, imported, luaVars>>

(* A file is refused: no handler for its type.                              *)
LoadFails(t) ==
    /\ Alive
    /\ Inside(t, "load")
    /\ Leave(t, 1, FALSE)
    /\ UNCHANGED <<status, calls, engineVars, luaVars>>

(* Lua code returns or throws: ~callfromase_guard caches the context.  The  *)
(* code of a file returns through both load_file functions.                 *)
LuaReturns(t) ==
    /\ Alive
    /\ Inside(t, "lua")
    /\ cached' = Append(cached, Top(t).ctx)
    /\ IF Height(t) > 1 /\ stack[t][Height(t) - 1].kind = "delayload"
       THEN \E ok \in BOOLEAN : Leave(t, 3, ok)
       ELSE Leave(t, 1, TRUE)
    /\ UNCHANGED <<status, calls, engineVars, contexts>>

-----------------------------------------------------------------------------
(* Calls out of Lua.                                                        *)

(* Lua calls an object; callfromlua_guard unlocks the mutex if the object   *)
(* is marked multithreaded, which Java objects are.                         *)
CallOut(t, multithreaded) ==
    /\ Inside(t, "lua") /\ Calling(t)
    /\ multithreaded => real[Java] = "loaded"
    /\ Push(t, [NewFrame("out", Lua) EXCEPT !.unlocked = multithreaded])
    /\ IF multithreaded THEN Unlock(t, 1) ELSE UNCHANGED mutex
    /\ UNCHANGED <<main, status, engineVars, luaVars>>

(* Mutant of CallOutReturns: the mutex is not locked again.                 *)
CallOutReturnsUnlocked(t) ==
    /\ Alive
    /\ At(t, "out")
    /\ Top(t).join \in Threads => status[Top(t).join] = "ended"
    /\ UNCHANGED mutex
    /\ Pop(t, 1)
    /\ UNCHANGED <<main, status, calls, engineVars, luaVars>>

(* The call returns or throws; ~callfromlua_guard locks the mutex again.    *)
CallOutReturns(t) ==
    /\ Alive
    /\ At(t, "out")
    /\ Top(t).join \in Threads => status[Top(t).join] = "ended"
    /\ IF Top(t).unlocked THEN Free(t) /\ Lock(t) ELSE UNCHANGED mutex
    /\ Pop(t, 1)
    /\ UNCHANGED <<main, status, calls, engineVars, luaVars>>

(* Thread.start: a Java method called from Lua, or by a Java thread.        *)
StartThread(t, c) ==
    /\ Alive
    /\ Foreign(t) /\ (At(t, "out") => Top(t).unlocked)
    /\ status[c] = "new"
    /\ status' = [status EXCEPT ![c] = "running"]
    /\ UNCHANGED <<main, mutex, stack, calls, engineVars, luaVars>>

(* Thread.join, called by the script in the main thread.                    *)
Join(c) ==
    /\ Alive /\ ScriptJoins
    /\ At(Main, "out") /\ Foreign(Main) /\ Top(Main).unlocked
    /\ status[c] # "new"
    /\ stack' = [stack EXCEPT ![Main][Height(Main)].join = c]
    /\ UNCHANGED <<main, mutex, status, calls, engineVars, luaVars>>

EndThread(c) ==
    /\ Alive
    /\ status[c] = "running" /\ stack[c] = <<>>
    /\ status' = [status EXCEPT ![c] = "ended"]
    /\ UNCHANGED <<main, mutex, stack, calls, engineVars, luaVars>>

-----------------------------------------------------------------------------
(* The end of the program.                                                  *)

(* Mutant of WaitEngine: wait_threads is not passed on to the real engine.  *)
WaitEngineAlone(e) ==
    /\ main.phase = "wait" /\ ~main.joining /\ e \in main.todo
    /\ aseglobal' = [aseglobal EXCEPT ![e] = FALSE]
    /\ main' = [main EXCEPT !.todo = @ \ {e}]
    /\ UNCHANGED <<mutex, stack, status, calls, real, imported, loaded, luaVars>>

(* Mutant of WaitEngine: wait_threads locks the engine mutex.               *)
WaitEngineLocked(e) ==
    /\ main.phase = "wait" /\ ~main.joining /\ e \in main.todo
    /\ Free(Main) /\ Lock(Main)
    /\ aseglobal' = [aseglobal EXCEPT ![e] = FALSE]
    /\ main' = [main EXCEPT !.todo = @ \ {e},
                            !.joining = (e = Java /\ real[e] = "loaded")]
    /\ UNCHANGED <<stack, status, calls, real, imported, loaded, luaVars>>

(* wait_threads of the delay engine e, which takes no lock; the Java engine *)
(* then joins its threads, the others do nothing.                           *)
WaitEngine(e) ==
    /\ main.phase = "wait" /\ ~main.joining /\ e \in main.todo
    /\ aseglobal' = [aseglobal EXCEPT ![e] = FALSE]
    /\ main' = [main EXCEPT !.todo = @ \ {e},
                            !.joining = (e = Java /\ real[e] = "loaded")]
    /\ UNCHANGED <<mutex, stack, status, calls, real, imported, loaded, luaVars>>

(* Util.joinAll returns when no other thread is left.                       *)
JoinAll ==
    /\ main.joining
    /\ \A c \in Threads : status[c] # "running"
    /\ main' = [main EXCEPT !.joining = FALSE]
    /\ UNCHANGED <<mutex, stack, status, calls, engineVars, luaVars>>

WaitEnds ==
    /\ main.phase = "wait" /\ ~main.joining /\ main.todo = {}
    /\ main' = [main EXCEPT !.phase = "dispose", !.todo = Engines]
    /\ UNCHANGED <<mutex, stack, status, calls, engineVars, luaVars>>

(* dispose_proxies of the delay engine e, under the mutex.                  *)
Dispose(e) ==
    /\ main.phase = "dispose" /\ e \in main.todo
    /\ Free(Main)
    /\ aseglobal' = [aseglobal EXCEPT ![e] = FALSE]
    /\ real' = [real EXCEPT ![e] = IF @ = "loaded" THEN "disposed" ELSE @]
    /\ main' = [main EXCEPT !.todo = @ \ {e}]
    /\ UNCHANGED <<mutex, stack, status, calls, imported, loaded, luaVars>>

(* The engines, their contexts and the mutex are destroyed, without a lock. *)
Destroy ==
    /\ main.phase = "dispose" /\ main.todo = {}
    /\ main' = [main EXCEPT !.phase = "ended"]
    /\ real' = [e \in Engines |-> IF real[e] = "none" THEN "none" ELSE "destroyed"]
    /\ UNCHANGED <<mutex, stack, status, calls, aseglobal, imported, loaded, luaVars>>

-----------------------------------------------------------------------------
(* What t does that cannot wait for ever: leave and enter guards, return.   *)
Progress(t) ==
    \/ Acquire(t) \/ NeedEngine(t) \/ EnterFile(t)
    \/ CreateEngine(t) \/ CreateFails(t) \/ KeepGlobal(t) \/ LoadFails(t)
    \/ LuaReturns(t) \/ CallOutReturns(t)
    \/ t \in Threads /\ EndThread(t)

Call(t) ==
    \/ LoadFile(t) \/ CallLua(t)
    \/ \E e \in Engines : UseGlobal(t, e)
    \/ \E b \in BOOLEAN : CallOut(t, b)
    \/ \E c \in Threads : StartThread(t, c)

MainProgram ==
    \/ RunScript \/ JoinAll \/ WaitEnds \/ Destroy
    \/ \E e \in Engines : WaitEngine(e) \/ Dispose(e)

Next ==
    \/ MainProgram
    \/ \E t \in AllThreads : Progress(t) \/ Call(t)
    \/ \E c \in Threads : Join(c)

Spec == Init /\ [][Next]_vars

FairSpec ==
    /\ Spec
    /\ WF_vars(MainProgram)
    /\ \A t \in AllThreads : WF_vars(Progress(t))

-----------------------------------------------------------------------------
(* Properties.                                                              *)

(* The locks held by a thread with stack s: one for each locked guard, less *)
(* one for each call out of Lua that unlocked the mutex.                    *)
LockedIn(s) == {i \in 1 .. Len(s) : s[i].locked}
UnlockedIn(s) == {i \in 1 .. Len(s) : s[i].unlocked}
HeldIn(s) == Cardinality(LockedIn(s)) - Cardinality(UnlockedIn(s))

(* The depth of the recursive mutex is exactly what the guards of its owner *)
(* hold, through every nesting of loads, calls into Lua and calls out of    *)
(* it, returns and exceptions; the other threads hold nothing.              *)
LockExact ==
    /\ mutex.owner = NoThread <=> mutex.depth = 0
    /\ \A t \in AllThreads : HeldIn(stack[t]) = IF mutex.owner = t THEN mutex.depth ELSE 0

(* Whoever runs Lua code, loads a file or creates an engine owns the mutex: *)
(* no two threads are in the Lua virtual machine at once.                   *)
LuaExclusive ==
    \A t \in AllThreads : (\E k \in Guards : Inside(t, k)) => mutex.owner = t

(* Every context created is in the cache or in use by one guard, and never  *)
(* in two places: a suspended call keeps its context for itself.            *)
ContextsExact ==
    LET used(t) == {i \in LockedIn(stack[t]) : stack[t][i].kind = "lua"}
        places == {<<NoThread, i>> : i \in 1 .. Len(cached)} \cup
                  UNION {{t} \X used(t) : t \in AllThreads}
        ctx(p) == IF p[1] = NoThread THEN cached[p[2]] ELSE stack[p[1]][p[2]].ctx
    IN  /\ {ctx(p) : p \in places} = 1 .. contexts
        /\ \A p, q \in places : ctx(p) = ctx(q) => p = q

(* While the main thread is in wait_threads, which reads real_engine and    *)
(* clears aseglobal without the lock, no thread writes real_engine.         *)
EnginesFixedWhileWaiting == [][main.phase = "wait" => UNCHANGED real]_vars

(* Every engine was given the ASE global when it was created, although      *)
(* wait_threads and dispose_proxies clear it while threads go on using the  *)
(* variants that load engines.                                              *)
GlobalImported == \A e \in Engines : real[e] # "none" => imported[e]

(* A global variant counts as loaded only if its engine exists: a failed or *)
(* refused load leaves it to be tried again.                                *)
LoadedIsReal == \A e \in Engines : loaded[e] => real[e] # "none"

(* When load_file returned, the engines are destroyed only after every Java *)
(* thread has ended and left them.                                          *)
EnginesOutliveThreads ==
    main.phase = "ended" /\ ~main.failed =>
        /\ mutex.owner = NoThread
        /\ \A c \in Threads : status[c] # "running" /\ stack[c] = <<>>

(* wait_threads returns: it holds no lock its threads need.                 *)
WaitReturns == main.joining ~> ~main.joining

(* Every thread ends, unless the engines are destroyed under it or the      *)
(* script itself is in join(): no thread waits for the mutex for ever.      *)
ThreadsEnd == \A c \in Threads :
    status[c] = "running" ~>
        \/ status[c] = "ended"
        \/ main.phase = "ended"
        \/ At(Main, "out") /\ Top(Main).join # NoThread

(* A script that joins its threads comes back from join(), as the samples   *)
(* javathread.lua and javathread.js do.                                     *)
JoinReturns == \A c \in Threads :
    (At(Main, "out") /\ Top(Main).join = c) ~> ~(At(Main, "out") /\ Top(Main).join = c)
=============================================================================
