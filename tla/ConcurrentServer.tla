--------------------------- MODULE ConcurrentServer ---------------------------
(***************************************************************************)
(* The concurrent remoting server (asermt_concurrent.cpp): a program that  *)
(* listens, forks processes and replaces those that end, and in each of    *)
(* them starts threads (aseio_thread.cpp) that accept connections          *)
(* (aseio_listener.cpp) and serve them.  With num_procs = 0 the program is *)
(* itself the only process; with num_threads = 0 a process accepts in its  *)
(* main thread.                                                            *)
(*                                                                         *)
(* What a worker does with a connection is the module RemoteProtocol; here *)
(* it serves it and then closes it.  shut_flag is not modelled: nothing    *)
(* calls set_shut.                                                         *)
(***************************************************************************)
EXTENDS Naturals, FiniteSets, Sequences

CONSTANTS
    MaxProcs,       \* bound: the option num_procs
    MaxThreads,     \* bound: the option num_threads
    MaxFaults,      \* bound: crashes and failing thread starts
    DelayLimit,     \* 2 to the width of delay_sec in bits
    Clients,        \* the clients; each connects at most once
    NoConn

ASSUME BoundsAssumption ==
    /\ MaxProcs \in Nat \ {0} /\ MaxThreads \in Nat \ {0}
    /\ MaxFaults \in Nat /\ DelayLimit \in Nat \ {0}
ASSUME ClientsAssumption == IsFiniteSet(Clients) /\ NoConn \notin Clients

(* Process identifiers; the kernel uses one again once it is reaped.        *)
Procs == 1 .. MaxProcs
Workers == 0 .. MaxThreads - 1

VARIABLES
    opts,       \* ase_remote_concurrent_server_options, and what the program
                \* did before: preloaded, the delay engine has been loaded
    main,       \* where main_proc is: "fork", "wait", "sleep", or "run" when
                \* the program is a worker process itself
    pids,       \* the forked processes it knows
    delay_sec,
    status,     \* status[p]: the life of process p, see Live and Zombie
    started,    \* started[p]: threads started, the index i of the loop
    worker,     \* worker[p][w]: where thread w of process p is
    conn,       \* conn[p][w]: the connection it holds
    real,       \* real[p]: the delay engine of process p is loaded
    attached,   \* attached[p]: threads that child_thread_initialized attached
    client,     \* client[c]: the life of the connection of client c
    backlog,    \* the connections no one accepted yet, in the kernel
    faults      \* faults so far

mainVars == <<main, pids, delay_sec>>
workerVars == <<worker, conn>>
engineVars == <<real, attached>>
clientVars == <<client, backlog>>
vars == <<opts, mainVars, status, started, workerVars, engineVars, clientVars,
          faults>>

Live == {"start", "inline", "join", "unwind"}
Zombie == {"exited", "core"}
Status == {"none"} \cup Live \cup Zombie
Place == {"none", "init", "accept", "retry", "serve"}

Options == [num_procs : 0 .. MaxProcs, num_threads : 0 .. MaxThreads,
            preloaded : BOOLEAN]

TypeOK ==
    /\ opts \in Options
    /\ main \in {"fork", "wait", "sleep", "run"}
    /\ pids \in SUBSET Procs
    /\ delay_sec \in 0 .. DelayLimit - 1
    /\ status \in [Procs -> Status]
    /\ started \in [Procs -> 0 .. MaxThreads]
    /\ worker \in [Procs -> [Workers -> Place]]
    /\ conn \in [Procs -> [Workers -> Clients \cup {NoConn}]]
    /\ real \in [Procs -> BOOLEAN]
    /\ attached \in [Procs -> SUBSET Workers]
    /\ client \in [Clients -> {"idle", "queued", "accepted", "closed", "lost"}]
    /\ backlog \in Seq(Clients)
    /\ faults \in 0 .. MaxFaults

(* ase_server_file_main has loaded the file and called wait_threads; the    *)
(* listener listens.                                                        *)
Init ==
    /\ opts \in Options
    /\ main = IF opts.num_procs = 0 THEN "run" ELSE "fork"
    /\ pids = {}
    /\ delay_sec = 1 % DelayLimit
    /\ status = [p \in Procs |-> IF opts.num_procs = 0 /\ p = 1 THEN "start" ELSE "none"]
    /\ started = [p \in Procs |-> 0]
    /\ worker = [p \in Procs |-> [w \in Workers |-> "none"]]
    /\ conn = [p \in Procs |-> [w \in Workers |-> NoConn]]
    /\ real = [p \in Procs |-> opts.preloaded]
    /\ attached = [p \in Procs |-> {}]
    /\ client = [c \in Clients |-> "idle"]
    /\ backlog = <<>>
    /\ faults = 0

(* A client's connection enters the backlog of the listening socket.        *)
Connect(c) ==
    /\ client[c] = "idle"
    /\ client' = [client EXCEPT ![c] = "queued"]
    /\ backlog' = Append(backlog, c)
    /\ UNCHANGED <<opts, mainVars, status, started, workerVars, engineVars, faults>>

-----------------------------------------------------------------------------
(* main_proc of a program that forks.                                       *)

(* fork() succeeds.  A fork() that fails is retried after a second and      *)
(* changes nothing.                                                         *)
Fork(p) ==
    /\ main = "fork"
    /\ Cardinality(pids) < opts.num_procs
    /\ status[p] = "none"
    /\ \A q \in Procs : q < p => status[q] # "none"
    /\ status' = [status EXCEPT ![p] = "start"]
    /\ pids' = pids \cup {p}
    /\ UNCHANGED <<opts, main, delay_sec, started, workerVars, engineVars,
                   clientVars, faults>>

Forked ==
    /\ main = "fork"
    /\ Cardinality(pids) >= opts.num_procs
    /\ main' = "wait"
    /\ UNCHANGED <<opts, pids, delay_sec, status, started, workerVars, engineVars,
                   clientVars, faults>>

(* Mutant of Reaped: a process that dumped core is not erased.              *)
ReapedNormally(p) == pids \ {q \in {p} : status[q] = "exited"}

(* pids.erase                                                               *)
Reaped(p) == pids \ {p}

(* waitpid returns process p; after a core dump the program sleeps.         *)
Wait(p) ==
    /\ main = "wait"
    /\ status[p] \in Zombie
    /\ status' = [status EXCEPT ![p] = "none"]
    /\ pids' = Reaped(p)
    /\ main' = IF status[p] = "core" THEN "sleep" ELSE "fork"
    /\ UNCHANGED <<opts, delay_sec, started, workerVars, engineVars, clientVars,
                   faults>>

(* waitpid is interrupted: st is still 0.                                   *)
WaitFails ==
    /\ main = "wait"
    /\ main' = "fork"
    /\ UNCHANGED <<opts, pids, delay_sec, status, started, workerVars, engineVars,
                   clientVars, faults>>

(* Mutant of Delay: the program gives up when the delay overflows.          *)
DelayChecked ==
    /\ delay_sec * 2 < DelayLimit
    /\ delay_sec' = delay_sec * 2

(* "no problem even if it overflows": nanosleep with a delay that is not a  *)
(* time returns at once.                                                    *)
Delay == delay_sec' = (delay_sec * 2) % DelayLimit

Slept ==
    /\ main = "sleep"
    /\ Delay
    /\ main' = "fork"
    /\ UNCHANGED <<opts, pids, status, started, workerVars, engineVars, clientVars,
                   faults>>

-----------------------------------------------------------------------------
(* worker_main: a process starts its threads.                               *)

(* The connections the kernel closes when process p ends.                   *)
Held(p) == {conn[p][w] : w \in Workers} \ {NoConn}

(* Process p ends, as a zombie of state s: its memory goes, its connections *)
(* are closed, and the next process is a copy of the program.               *)
End(p, s) ==
    /\ status' = [status EXCEPT ![p] = s]
    /\ started' = [started EXCEPT ![p] = 0]
    /\ worker' = [worker EXCEPT ![p] = [w \in Workers |-> "none"]]
    /\ conn' = [conn EXCEPT ![p] = [w \in Workers |-> NoConn]]
    /\ real' = [real EXCEPT ![p] = opts.preloaded]
    /\ attached' = [attached EXCEPT ![p] = {}]
    /\ client' = [c \in Clients |-> IF c \in Held(p) THEN "lost" ELSE client[c]]
    /\ UNCHANGED <<opts, mainVars, backlog>>

(* num_threads = 0: thr_main in the main thread.                            *)
RunInline(p) ==
    /\ status[p] = "start"
    /\ opts.num_threads = 0
    /\ status' = [status EXCEPT ![p] = "inline"]
    /\ worker' = [worker EXCEPT ![p][0] = "init"]
    /\ UNCHANGED <<opts, mainVars, started, conn, engineVars, clientVars, faults>>

StartThread(p) ==
    /\ status[p] = "start"
    /\ started[p] < opts.num_threads
    /\ worker' = [worker EXCEPT ![p][started[p]] = "init"]
    /\ started' = [started EXCEPT ![p] = @ + 1]
    /\ UNCHANGED <<opts, mainVars, status, conn, engineVars, clientVars, faults>>

(* Mutant of AfterStart: the process waits also when no thread runs.        *)
AfterStartIgnored(p) == "join"

(* ~ptr_array joins the threads that run, which never end; with none the    *)
(* exception leaves worker_main.                                            *)
AfterStart(p) == IF started[p] = 0 THEN "unwind" ELSE "join"

StartFails(p) ==
    /\ status[p] = "start"
    /\ started[p] < opts.num_threads
    /\ faults < MaxFaults
    /\ faults' = faults + 1
    /\ status' = [status EXCEPT ![p] = AfterStart(p)]
    /\ UNCHANGED <<opts, mainVars, started, workerVars, engineVars, clientVars>>

AllStarted(p) ==
    /\ status[p] = "start"
    /\ opts.num_threads > 0
    /\ started[p] = opts.num_threads
    /\ status' = [status EXCEPT ![p] = "join"]
    /\ UNCHANGED <<opts, mainVars, started, workerVars, engineVars, clientVars, faults>>

(* The exception reaches ase_server_file_main, also in a forked process:    *)
(* it does not fork; main returns 0.                                        *)
Unwind(p) ==
    /\ status[p] = "unwind"
    /\ End(p, "exited")
    /\ UNCHANGED faults

(* A process is killed, with a core dump or without, or calls abort.        *)
Crash(p) ==
    /\ status[p] \in Live
    /\ faults < MaxFaults
    /\ faults' = faults + 1
    /\ \E s \in Zombie : End(p, s)

-----------------------------------------------------------------------------
(* thr_main: the threads.                                                   *)

(* child_thread_initialized reaches the engine if it is loaded.             *)
ThreadInit(p, w) ==
    /\ worker[p][w] = "init"
    /\ worker' = [worker EXCEPT ![p][w] = "accept"]
    /\ attached' = [attached EXCEPT ![p] = IF real[p] THEN @ \cup {w} ELSE @]
    /\ UNCHANGED <<opts, mainVars, status, started, conn, real, clientVars, faults>>

Accept(p, w) ==
    /\ worker[p][w] = "accept"
    /\ backlog # <<>>
    /\ backlog' = Tail(backlog)
    /\ worker' = [worker EXCEPT ![p][w] = "serve"]
    /\ conn' = [conn EXCEPT ![p][w] = Head(backlog)]
    /\ client' = [client EXCEPT ![Head(backlog)] = "accepted"]
    /\ UNCHANGED <<opts, mainVars, status, started, engineVars, faults>>

(* Mutant of AfterFailure: a failing accept ends the loop.                  *)
AfterFailureEnds == "ended"

(* The exception is ignored, the thread sleeps for a second.                *)
AfterFailure == "retry"

(* accept(2) fails.                                                         *)
AcceptFails(p, w) ==
    /\ worker[p][w] = "accept"
    /\ worker' = [worker EXCEPT ![p][w] = AfterFailure]
    /\ UNCHANGED <<opts, mainVars, status, started, conn, engineVars, clientVars, faults>>

(* accept(2) succeeds and set_socket_options fails: the connection is       *)
(* closed by the destructor of its stream.                                  *)
AcceptDrops(p, w) ==
    /\ worker[p][w] = "accept"
    /\ backlog # <<>>
    /\ backlog' = Tail(backlog)
    /\ client' = [client EXCEPT ![Head(backlog)] = "lost"]
    /\ worker' = [worker EXCEPT ![p][w] = AfterFailure]
    /\ UNCHANGED <<opts, mainVars, status, started, conn, engineVars, faults>>

Retry(p, w) ==
    /\ worker[p][w] = "retry"
    /\ worker' = [worker EXCEPT ![p][w] = "accept"]
    /\ UNCHANGED <<opts, mainVars, status, started, conn, engineVars, clientVars, faults>>

(* Mutant of Released: the next connection is accepted over the old one.    *)
ReleasedNever(p, w) == conn[p][w]

(* The buffered stream, which owns the connection, is destroyed.            *)
Released(p, w) == NoConn

(* ase_remote_server_execute returns or throws.                             *)
Served(p, w) ==
    /\ worker[p][w] = "serve"
    /\ client' = [client EXCEPT ![conn[p][w]] = "closed"]
    /\ worker' = [worker EXCEPT ![p][w] = "accept"]
    /\ conn' = [conn EXCEPT ![p][w] = Released(p, w)]
    /\ UNCHANGED <<opts, mainVars, status, started, engineVars, backlog, faults>>

(* Mutant of MayLoad: any thread loads an engine.                           *)
MayLoadAlways(p) == TRUE

(* get_real_engine: the current thread is the main thread of the process.   *)
MayLoad(p) == status[p] = "inline"

(* A request uses the global of the delay engine for the first time.  In    *)
(* any other thread get_real_engine throws and nothing changes.             *)
LoadEngine(p, w) ==
    /\ worker[p][w] = "serve"
    /\ ~real[p]
    /\ MayLoad(p)
    /\ real' = [real EXCEPT ![p] = TRUE]
    /\ UNCHANGED <<opts, mainVars, status, started, workerVars, attached, clientVars,
                   faults>>

-----------------------------------------------------------------------------
MainStep == (\E p \in Procs : Fork(p)) \/ Forked \/ Slept
StartStep == \E p \in Procs : RunInline(p) \/ StartThread(p) \/ AllStarted(p) \/ Unwind(p)
Reap == \E p \in Procs : Wait(p)

ThreadStep(p, w) ==
    \/ ThreadInit(p, w) \/ Retry(p, w)
    \/ Accept(p, w) \/ AcceptFails(p, w) \/ AcceptDrops(p, w)
    \/ Served(p, w) \/ LoadEngine(p, w)

Next ==
    \/ MainStep \/ Reap \/ WaitFails \/ StartStep
    \/ \E p \in Procs : StartFails(p) \/ Crash(p)
    \/ \E p \in Procs, w \in Workers : ThreadStep(p, w)
    \/ \E c \in Clients : Connect(c)

(***************************************************************************)
(* The program and its processes run; fork(2) and accept(2) succeed in the *)
(* end and waitpid(2) is not interrupted for ever; a connection ends, by   *)
(* its peer or by the socket's timeout.                                    *)
(***************************************************************************)
Fairness ==
    /\ WF_vars(MainStep) /\ SF_vars(Reap) /\ WF_vars(StartStep)
    /\ WF_vars(\E p \in Procs, w \in Workers : ThreadInit(p, w))
    /\ WF_vars(\E p \in Procs, w \in Workers : Retry(p, w))
    /\ WF_vars(\E p \in Procs, w \in Workers : Served(p, w))
    /\ SF_vars(\E p \in Procs, w \in Workers : Accept(p, w))

Spec == Init /\ [][Next]_vars
FairSpec == Spec /\ Fairness

-----------------------------------------------------------------------------
(* pids is exactly the set of children not yet reaped, whatever ends when:  *)
(* the program never forks more than num_procs and never waits with fewer   *)
(* (main_proc would wait for ever for a child it lost).                     *)
PoolExact ==
    opts.num_procs > 0 =>
        /\ pids = {p \in Procs : status[p] \in Live \cup Zombie}
        /\ Cardinality(pids) <= opts.num_procs
        /\ main = "wait" => Cardinality(pids) = opts.num_procs

(* An accepted connection is held by exactly one thread, of a process that  *)
(* lives: none leaks when serving fails or a process dies.                  *)
ConnectionOwned ==
    \A c \in Clients :
        LET holders == {h \in Procs \X Workers : conn[h[1]][h[2]] = c}
        IN  /\ client[c] = "accepted" => \E h \in holders : status[h[1]] \in Live
            /\ client[c] # "accepted" => holders = {}
            /\ \A g, h \in holders : g = h

(* A process that waits for its threads has one that accepts: a process     *)
(* whose first thread failed to start does not stay behind, idle, as one of *)
(* the num_procs that main_proc keeps.                                      *)
NoIdleProcess ==
    \A p \in Procs :
        status[p] \in {"inline", "join"} => \E w \in Workers : worker[p][w] # "none"

(* A thread past child_thread_initialized is attached to the engine of its  *)
(* process if that is loaded: no engine is loaded behind its back.          *)
WorkersAttached ==
    \A p \in Procs, w \in Workers :
        real[p] /\ worker[p][w] \in {"accept", "retry", "serve"} /\ status[p] # "inline"
            => w \in attached[p]

(* A connection in the backlog is accepted in the end, whatever fails on    *)
(* the way, unless the program that serves without forking has ended.       *)
QueuedIsTaken ==
    \A c \in Clients :
        client[c] = "queued" ~> (client[c] # "queued" \/ \E p \in Procs :
                                    status[p] \in Zombie /\ opts.num_procs = 0)

(* Processes that end are replaced: again and again num_procs of them live. *)
PoolRefilled ==
    []<>(Cardinality({p \in Procs : status[p] \in Live}) >= opts.num_procs)
=============================================================================
