------------------------ MODULE ConcurrentServer_proofs ------------------------
(***************************************************************************)
(* Proofs about ConcurrentServer, for any number of processes, threads,    *)
(* clients and faults, and any width of the delay.                         *)
(***************************************************************************)
EXTENDS ConcurrentServer, FiniteSetTheorems, SequenceTheorems, TLAPS

-----------------------------------------------------------------------------
(* Types.                                                                   *)

LEMMA TypeInit == Init => TypeOK
<1> SUFFICES ASSUME Init PROVE TypeOK
  OBVIOUS
<1>1. delay_sec \in 0 .. DelayLimit - 1
  BY BoundsAssumption DEF Init
<1>2. /\ opts \in Options /\ opts.preloaded \in BOOLEAN
      /\ pids \in SUBSET Procs
  BY DEF Init, Options
<1>3. /\ main \in {"fork", "wait", "sleep", "run"}
      /\ status \in [Procs -> Status]
      /\ started \in [Procs -> 0 .. MaxThreads]
  BY BoundsAssumption DEF Init, Status, Live
<1>4. /\ worker \in [Procs -> [Workers -> Place]]
      /\ conn \in [Procs -> [Workers -> Clients \cup {NoConn}]]
  BY DEF Init, Place
<1>5. /\ real \in [Procs -> BOOLEAN] /\ attached \in [Procs -> SUBSET Workers]
      /\ client \in [Clients -> {"idle", "queued", "accepted", "closed", "lost"}]
  BY <1>2 DEF Init
<1>6. backlog \in Seq(Clients) /\ faults \in 0 .. MaxFaults
  BY BoundsAssumption, EmptySeq DEF Init
<1> QED
  BY <1>1, <1>2, <1>3, <1>4, <1>5, <1>6 DEF TypeOK

(* The end of a process keeps the type.                                     *)
LEMMA TypeEnd ==
    ASSUME TypeOK, NEW p \in Procs, NEW s \in Zombie, End(p, s), faults' \in 0 .. MaxFaults
    PROVE  TypeOK'
<1>1. opts' \in Options /\ opts'.preloaded \in BOOLEAN /\ opts' = opts
  BY DEF End, TypeOK, Options
<1>2. /\ main' \in {"fork", "wait", "sleep", "run"} /\ pids' \in SUBSET Procs
      /\ delay_sec' \in 0 .. DelayLimit - 1 /\ backlog' \in Seq(Clients)
  BY DEF End, TypeOK, mainVars
<1>3. /\ status' \in [Procs -> Status] /\ started' \in [Procs -> 0 .. MaxThreads]
  BY BoundsAssumption DEF End, TypeOK, Status
<1>4. /\ worker' \in [Procs -> [Workers -> Place]]
      /\ conn' \in [Procs -> [Workers -> Clients \cup {NoConn}]]
  BY DEF End, TypeOK, Place
<1>5. real' \in [Procs -> BOOLEAN] /\ attached' \in [Procs -> SUBSET Workers]
  BY <1>1 DEF End, TypeOK
<1>6. client' \in [Clients -> {"idle", "queued", "accepted", "closed", "lost"}]
  BY DEF End, TypeOK
<1> QED
  BY <1>1, <1>2, <1>3, <1>4, <1>5, <1>6 DEF TypeOK

(* The steps of the program and of the start of a process keep the type.    *)
LEMMA TypeMain ==
    ASSUME TypeOK, MainStep \/ Reap \/ WaitFails \/ StartStep
                   \/ \E p \in Procs : StartFails(p) \/ Crash(p)
    PROVE  TypeOK'
<1> USE DEF vars, mainVars, workerVars, engineVars, clientVars
<1>1. ASSUME NEW p \in Procs, Fork(p) PROVE TypeOK'
  BY <1>1 DEF Fork, TypeOK, Status, Live
<1>2. CASE Forked
  BY <1>2 DEF Forked, TypeOK
<1>3. CASE Slept
  <2>1. delay_sec' \in 0 .. DelayLimit - 1
    BY <1>3, BoundsAssumption DEF Slept, Delay, TypeOK
  <2> QED
    BY <1>3, <2>1 DEF Slept, TypeOK
<1>4. ASSUME NEW p \in Procs, RunInline(p) PROVE TypeOK'
  BY <1>4, BoundsAssumption DEF RunInline, TypeOK, Status, Live, Place, Workers
<1>5. ASSUME NEW p \in Procs, StartThread(p) PROVE TypeOK'
  <2>1. started[p] \in 0 .. MaxThreads /\ started[p] + 1 \in 0 .. MaxThreads
    BY <1>5, BoundsAssumption DEF StartThread, TypeOK, Options
  <2>2. started' \in [Procs -> 0 .. MaxThreads]
    BY <1>5, <2>1 DEF StartThread, TypeOK
  <2>3. worker' \in [Procs -> [Workers -> Place]]
    BY <1>5 DEF StartThread, TypeOK, Place
  <2> QED
    BY <1>5, <2>2, <2>3 DEF StartThread, TypeOK
<1>6. ASSUME NEW p \in Procs, AllStarted(p) PROVE TypeOK'
  BY <1>6 DEF AllStarted, TypeOK, Status, Live
<1>7. ASSUME NEW p \in Procs, Unwind(p) PROVE TypeOK'
  BY <1>7, TypeEnd DEF Unwind, TypeOK, Zombie
<1>8. ASSUME NEW p \in Procs, Wait(p) PROVE TypeOK'
  BY <1>8 DEF Wait, Reaped, TypeOK, Status
<1>9. CASE WaitFails
  BY <1>9 DEF WaitFails, TypeOK
<1>10. ASSUME NEW p \in Procs, StartFails(p) PROVE TypeOK'
  <2>1. faults' \in 0 .. MaxFaults
    BY <1>10, BoundsAssumption DEF StartFails, TypeOK
  <2> QED
    BY <1>10, <2>1 DEF StartFails, AfterStart, TypeOK, Status, Live
<1>11. ASSUME NEW p \in Procs, Crash(p) PROVE TypeOK'
  <2>1. faults' \in 0 .. MaxFaults
    BY <1>11, BoundsAssumption DEF Crash, TypeOK
  <2> QED
    BY <1>11, <2>1, TypeEnd DEF Crash
<1> QED
  BY <1>1, <1>2, <1>3, <1>4, <1>5, <1>6, <1>7, <1>8, <1>9, <1>10, <1>11
     DEF MainStep, Reap, StartStep

(* The steps of a thread and of a client keep the type.                     *)
LEMMA TypeThread ==
    ASSUME TypeOK, (\E p \in Procs, w \in Workers : ThreadStep(p, w))
                   \/ \E c \in Clients : Connect(c)
    PROVE  TypeOK'
<1> USE DEF vars, mainVars, workerVars, engineVars, clientVars
<1>1. ASSUME NEW p \in Procs, NEW w \in Workers, ThreadInit(p, w) PROVE TypeOK'
  BY <1>1 DEF ThreadInit, TypeOK, Place
<1>2. ASSUME NEW p \in Procs, NEW w \in Workers, Retry(p, w) PROVE TypeOK'
  BY <1>2 DEF Retry, TypeOK, Place
<1>3. ASSUME NEW p \in Procs, NEW w \in Workers, Accept(p, w) PROVE TypeOK'
  <2>1. Head(backlog) \in Clients /\ Tail(backlog) \in Seq(Clients)
    BY <1>3, HeadTailProperties DEF Accept, TypeOK
  <2>2. worker' \in [Procs -> [Workers -> Place]]
    BY <1>3 DEF Accept, TypeOK, Place
  <2>3. conn' \in [Procs -> [Workers -> Clients \cup {NoConn}]]
    BY <1>3, <2>1 DEF Accept, TypeOK
  <2>4. client' \in [Clients -> {"idle", "queued", "accepted", "closed", "lost"}]
    BY <1>3 DEF Accept, TypeOK
  <2> QED
    BY <1>3, <2>1, <2>2, <2>3, <2>4 DEF Accept, TypeOK
<1>4. ASSUME NEW p \in Procs, NEW w \in Workers, AcceptFails(p, w) PROVE TypeOK'
  BY <1>4 DEF AcceptFails, AfterFailure, TypeOK, Place
<1>5. ASSUME NEW p \in Procs, NEW w \in Workers, AcceptDrops(p, w) PROVE TypeOK'
  <2>1. Tail(backlog) \in Seq(Clients)
    BY <1>5, HeadTailProperties DEF AcceptDrops, TypeOK
  <2>2. worker' \in [Procs -> [Workers -> Place]]
    BY <1>5 DEF AcceptDrops, AfterFailure, TypeOK, Place
  <2> QED
    BY <1>5, <2>1, <2>2 DEF AcceptDrops, TypeOK
<1>6. ASSUME NEW p \in Procs, NEW w \in Workers, Served(p, w) PROVE TypeOK'
  <2>1. worker' \in [Procs -> [Workers -> Place]]
    BY <1>6 DEF Served, TypeOK, Place
  <2>2. conn' \in [Procs -> [Workers -> Clients \cup {NoConn}]]
    BY <1>6 DEF Served, Released, TypeOK
  <2> QED
    BY <1>6, <2>1, <2>2 DEF Served, TypeOK
<1>7. ASSUME NEW p \in Procs, NEW w \in Workers, LoadEngine(p, w) PROVE TypeOK'
  BY <1>7 DEF LoadEngine, TypeOK
<1>8. ASSUME NEW c \in Clients, Connect(c) PROVE TypeOK'
  <2>1. Append(backlog, c) \in Seq(Clients)
    BY AppendProperties DEF TypeOK
  <2> QED
    BY <1>8, <2>1 DEF Connect, TypeOK
<1> QED
  BY <1>1, <1>2, <1>3, <1>4, <1>5, <1>6, <1>7, <1>8 DEF ThreadStep

LEMMA TypeNext == TypeOK /\ [Next]_vars => TypeOK'
<1> SUFFICES ASSUME TypeOK, [Next]_vars PROVE TypeOK'
  OBVIOUS
<1>1. CASE Next
  BY <1>1, TypeMain, TypeThread DEF Next
<1>2. CASE UNCHANGED vars
  BY <1>2 DEF vars, mainVars, workerVars, engineVars, clientVars, TypeOK
<1> QED
  BY <1>1, <1>2

(* The program and its processes keep their type (asermt_concurrent.cpp).   *)
THEOREM ServerTypeCorrect == Spec => []TypeOK
<1> QED
  BY TypeInit, TypeNext, PTL DEF Spec

-----------------------------------------------------------------------------
(* The pool of processes.                                                   *)

(* The processes not reaped, without their states.                          *)
Children == {p \in Procs : status[p] # "none"}

LEMMA ChildrenAll ==
    ASSUME TypeOK
    PROVE  {p \in Procs : status[p] \in Live \cup Zombie} = Children
  BY DEF TypeOK, Status, Live, Zombie, Children

LEMMA PidsFinite ==
    ASSUME TypeOK
    PROVE  IsFiniteSet(pids) /\ Cardinality(pids) \in Nat
<1>1. IsFiniteSet(Procs)
  BY FS_Interval, BoundsAssumption DEF Procs
<1>2. IsFiniteSet(pids)
  BY <1>1, FS_Subset DEF TypeOK
<1> QED
  BY <1>2, FS_CardinalityType

LEMMA PoolInit == Init => PoolExact
<1> SUFFICES ASSUME Init, opts.num_procs > 0
             PROVE  /\ pids = {p \in Procs : status[p] \in Live \cup Zombie}
                    /\ Cardinality(pids) <= opts.num_procs
                    /\ main = "wait" => Cardinality(pids) = opts.num_procs
  BY DEF PoolExact
<1>0. opts.num_procs \in Nat
  BY DEF Init, Options
<1>1. \A p \in Procs : status[p] = "none"
  BY <1>0 DEF Init
<1>2. pids = {p \in Procs : status[p] \in Live \cup Zombie}
  BY <1>1 DEF Init, Live, Zombie
<1>3. Cardinality(pids) = 0
  BY FS_EmptySet DEF Init
<1>4. main # "wait"
  BY <1>0 DEF Init
<1> QED
  BY <1>0, <1>2, <1>3, <1>4

(* A step that creates and reaps no process keeps the pool exact.           *)
LEMMA PoolKept ==
    ASSUME TypeOK, TypeOK', PoolExact,
           opts' = opts, pids' = pids, main' = "wait" => main = "wait",
           \A p \in Procs : status'[p] = "none" <=> status[p] = "none"
    PROVE  PoolExact'
<1>1. Children' = Children
  BY DEF Children
<1>2. {p \in Procs : status[p] \in Live \cup Zombie}' = Children'
  BY DEF TypeOK, Status, Live, Zombie, Children
<1> QED
  BY <1>1, <1>2, ChildrenAll DEF PoolExact

LEMMA PoolNext == TypeOK /\ TypeOK' /\ PoolExact /\ [Next]_vars => PoolExact'
<1> SUFFICES ASSUME TypeOK, TypeOK', PoolExact, [Next]_vars PROVE PoolExact'
  OBVIOUS
<1> USE DEF vars, mainVars, workerVars, engineVars, clientVars
<1>0. /\ \A p \in Procs : status[p] \in Status
      /\ Cardinality(pids) \in Nat /\ IsFiniteSet(pids)
      /\ opts.num_procs \in Nat
      /\ pids \subseteq Procs
  <2>1. opts.num_procs \in 0 .. MaxProcs
    BY DEF TypeOK, Options
  <2>2. opts.num_procs \in Nat
    BY <2>1
  <2>3. pids \subseteq Procs /\ \A p \in Procs : status[p] \in Status
    BY DEF TypeOK
  <2> QED
    BY <2>2, <2>3, PidsFinite
<1>1. ASSUME NEW p \in Procs, Fork(p) PROVE PoolExact'
  <2> SUFFICES ASSUME opts'.num_procs > 0
               PROVE  /\ pids' = Children' /\ Cardinality(pids') <= opts'.num_procs
                      /\ main' = "wait" => Cardinality(pids') = opts'.num_procs
    BY ChildrenAll DEF PoolExact, Children, TypeOK, Status, Live, Zombie
  <2>1. opts' = opts /\ pids = Children /\ pids' = pids \cup {p} /\ p \notin Children
    BY <1>1, ChildrenAll DEF Fork, PoolExact, Children
  <2>2. Children' = Children \cup {p}
    BY <1>1 DEF Fork, Children, TypeOK
  <2>3. Cardinality(pids') = Cardinality(pids) + 1
    BY <2>1, <1>0, FS_AddElement
  <2> QED
    BY <1>1, <1>0, <2>1, <2>2, <2>3 DEF Fork
<1>2. CASE Forked
  <2>1. /\ opts' = opts /\ pids' = pids /\ status' = status
        /\ Cardinality(pids) >= opts.num_procs
    BY <1>2 DEF Forked
  <2>2. CASE opts.num_procs > 0
    <3>1. Cardinality(pids) = opts.num_procs
      BY <1>0, <2>1, <2>2 DEF PoolExact
    <3> QED
      BY <2>1, <3>1 DEF PoolExact
  <2>3. CASE ~(opts.num_procs > 0)
    BY <2>1, <2>3 DEF PoolExact
  <2> QED
    BY <2>2, <2>3
<1>3. CASE Slept
  BY <1>3, PoolKept DEF Slept
<1>4. ASSUME NEW p \in Procs, Wait(p) PROVE PoolExact'
  <2> SUFFICES ASSUME opts'.num_procs > 0
               PROVE  /\ pids' = Children' /\ Cardinality(pids') <= opts'.num_procs
                      /\ main' = "wait" => Cardinality(pids') = opts'.num_procs
    BY ChildrenAll DEF PoolExact, Children, TypeOK, Status, Live, Zombie
  <2>1. opts' = opts /\ pids = Children /\ pids' = pids \ {p}
        /\ Cardinality(pids) <= opts.num_procs
    BY <1>4, ChildrenAll DEF Wait, Reaped, PoolExact, Children
  <2>2. Children' = Children \ {p}
    BY <1>4 DEF Wait, Children, TypeOK
  <2>3. Cardinality(pids') \in Nat /\ Cardinality(pids') <= Cardinality(pids)
    <3>1. pids' \subseteq pids
      BY <2>1
    <3> QED
      BY <3>1, <1>0, FS_Subset, FS_CardinalityType
  <2>4. main' # "wait"
    BY <1>4 DEF Wait
  <2> QED
    BY <1>0, <2>1, <2>2, <2>3, <2>4
<1>5. CASE WaitFails
  BY <1>5, PoolKept DEF WaitFails
<1>6. ASSUME NEW p \in Procs, StartStep \/ StartFails(p) \/ Crash(p) PROVE PoolExact'
  <2>1. opts' = opts /\ pids' = pids /\ main' = main
    BY <1>6 DEF StartStep, RunInline, StartThread, AllStarted, Unwind, StartFails, Crash, End
  <2> DEFINE Moved == \E q \in Procs : /\ status[q] # "none"
                                     /\ \/ status' = status
                                        \/ \E x \in Status \ {"none"} :
                                             status' = [status EXCEPT ![q] = x]
  <2>2. Moved
    <3>1. ASSUME StartStep PROVE Moved
      BY <3>1 DEF StartStep, RunInline, StartThread, AllStarted, Unwind, End, Status, Live, Zombie
    <3>2. ASSUME StartFails(p) PROVE Moved
      BY <3>2 DEF StartFails, AfterStart, Status, Live
    <3>3. ASSUME Crash(p) PROVE Moved
      BY <3>3 DEF Crash, End, Status, Live, Zombie
    <3> QED
      BY <1>6, <3>1, <3>2, <3>3
  <2>3. \A q \in Procs : status'[q] = "none" <=> status[q] = "none"
    BY <2>2 DEF TypeOK
  <2> QED
    BY <2>1, <2>3, PoolKept
<1>7. ASSUME NEW p \in Procs, NEW w \in Workers, ThreadStep(p, w) PROVE PoolExact'
  <2>1. UNCHANGED <<opts, pids, main, status>>
    BY <1>7 DEF ThreadStep, ThreadInit, Retry, Accept, AcceptFails, AcceptDrops, Served, LoadEngine
  <2> QED
    BY <2>1, PoolKept
<1>8. ASSUME NEW c \in Clients, Connect(c) PROVE PoolExact'
  BY <1>8, PoolKept DEF Connect
<1>9. CASE UNCHANGED vars
  BY <1>9, PoolKept
<1>10. Procs # {}
  BY BoundsAssumption DEF Procs
<1>11. CASE Next
  <2>1. CASE MainStep
    BY <1>1, <1>2, <1>3, <2>1 DEF MainStep
  <2>2. CASE Reap
    BY <1>4, <2>2 DEF Reap
  <2>3. CASE StartStep
    BY <1>6, <1>10, <2>3
  <2>4. CASE \E p \in Procs : StartFails(p) \/ Crash(p)
    BY <1>6, <2>4
  <2> QED
    BY <1>5, <1>7, <1>8, <1>11, <2>1, <2>2, <2>3, <2>4 DEF Next
<1> QED
  BY <1>9, <1>11

(* main_proc knows exactly the children it has not reaped: it never forks   *)
(* more than num_procs and never waits with fewer.                          *)
THEOREM PoolIsExact == Spec => []PoolExact
<1>1. TypeOK /\ PoolExact /\ [Next]_vars => PoolExact'
  BY TypeNext, PoolNext
<1> QED
  BY <1>1, ServerTypeCorrect, PoolInit, PTL DEF Spec
-----------------------------------------------------------------------------
(* The threads of a process.                                                *)

(* The threads that exist are those that were started: in a process that    *)
(* starts them one by one, the first started[p]; in one that has none, the  *)
(* main thread; and none in a process that ended.                           *)
ThreadsOf(p) ==
    /\ status[p] \in {"start", "join", "unwind"} =>
         \A w \in Workers : worker[p][w] # "none" <=> w < started[p]
    /\ status[p] = "start" => started[p] <= opts.num_threads
    /\ status[p] = "join" => started[p] > 0
    /\ status[p] = "inline" => \A w \in Workers : worker[p][w] # "none" <=> w = 0
    /\ status[p] \in {"none"} \cup Zombie =>
         started[p] = 0 /\ \A w \in Workers : worker[p][w] = "none"

ThreadsExact == \A p \in Procs : ThreadsOf(p)

LEMMA ThreadsInit == Init => ThreadsExact
<1> SUFFICES ASSUME Init, NEW p \in Procs PROVE ThreadsOf(p)
  BY DEF ThreadsExact
<1>1. /\ status[p] \in {"none", "start"} /\ started[p] = 0
      /\ \A w \in Workers : worker[p][w] = "none" /\ ~(w < 0)
      /\ opts.num_threads \in Nat
  BY DEF Init, Workers, Options
<1> QED
  BY <1>1 DEF ThreadsOf, Zombie

(* Steps of another process, or that leave the threads alone.               *)
LEMMA ThreadsKept ==
    ASSUME NEW p \in Procs, ThreadsOf(p), opts' = opts,
           status'[p] = status[p], started'[p] = started[p], worker'[p] = worker[p]
    PROVE  ThreadsOf(p)'
  BY DEF ThreadsOf

LEMMA ThreadsOfNumbers ==
    ASSUME TypeOK
    PROVE  /\ opts.num_threads \in Nat
           /\ 0 \in Workers /\ Workers \subseteq Nat
           /\ \A p \in Procs : started[p] \in Nat
<1>1. opts.num_threads \in 0 .. MaxThreads
  BY DEF TypeOK, Options
<1>2. 0 \in Workers /\ Workers \subseteq Nat
  BY BoundsAssumption DEF Workers
<1>3. \A p \in Procs : started[p] \in 0 .. MaxThreads
  BY DEF TypeOK
<1> QED
  BY <1>1, <1>2, <1>3

LEMMA ThreadsEnd ==
    ASSUME TypeOK, ThreadsExact, NEW p \in Procs, NEW s \in Zombie, End(p, s)
    PROVE  ThreadsExact'
<1> SUFFICES ASSUME NEW q \in Procs PROVE ThreadsOf(q)'
  BY DEF ThreadsExact
<1>1. CASE q = p
  <2>1. status'[p] \in Zombie /\ started'[p] = 0 /\ \A w \in Workers : worker'[p][w] = "none"
    BY DEF End, TypeOK
  <2> QED
    BY <1>1, <2>1 DEF ThreadsOf, Zombie
<1>2. CASE q # p
  <2>1. /\ opts' = opts /\ status'[q] = status[q] /\ started'[q] = started[q]
        /\ worker'[q] = worker[q]
    BY <1>2 DEF End, TypeOK
  <2> QED
    BY <2>1, ThreadsKept DEF ThreadsExact
<1> QED
  BY <1>1, <1>2

(* A step of thread w of process p goes from one place to another.          *)
LEMMA ThreadMoves ==
    ASSUME TypeOK, NEW p \in Procs, NEW w \in Workers, ThreadStep(p, w)
    PROVE  /\ UNCHANGED <<opts, status, started>>
           /\ worker[p][w] # "none" /\ worker'[p][w] # "none"
           /\ \A q \in Procs, v \in Workers :
                <<q, v>> # <<p, w>> => worker'[q][v] = worker[q][v]
<1> USE DEF TypeOK, mainVars, workerVars, engineVars, clientVars
<1>1. CASE ThreadInit(p, w)
  BY <1>1 DEF ThreadInit
<1>2. CASE Retry(p, w)
  BY <1>2 DEF Retry
<1>3. CASE Accept(p, w)
  BY <1>3 DEF Accept
<1>4. CASE AcceptFails(p, w)
  BY <1>4 DEF AcceptFails, AfterFailure
<1>5. CASE AcceptDrops(p, w)
  BY <1>5 DEF AcceptDrops, AfterFailure
<1>6. CASE Served(p, w)
  BY <1>6 DEF Served
<1>7. CASE LoadEngine(p, w)
  BY <1>7 DEF LoadEngine
<1> QED
  BY <1>1, <1>2, <1>3, <1>4, <1>5, <1>6, <1>7 DEF ThreadStep

LEMMA ThreadsNext == TypeOK /\ ThreadsExact /\ [Next]_vars => ThreadsExact'
<1> SUFFICES ASSUME TypeOK, ThreadsExact, [Next]_vars PROVE ThreadsExact'
  OBVIOUS
<1> USE DEF vars, mainVars, workerVars, engineVars, clientVars
<1>1. ASSUME NEW p \in Procs, Fork(p) PROVE ThreadsExact'
  <2> SUFFICES ASSUME NEW q \in Procs PROVE ThreadsOf(q)'
    BY DEF ThreadsExact
  <2>1. CASE q = p
    <3>1. /\ status'[p] = "start" /\ started'[p] = 0 /\ opts' = opts
          /\ \A w \in Workers : worker'[p][w] = "none"
      BY <1>1 DEF Fork, TypeOK, ThreadsExact, ThreadsOf
    <3> QED
      BY <2>1, <3>1, ThreadsOfNumbers DEF ThreadsOf, Zombie
  <2>2. CASE q # p
    BY <1>1, <2>2, ThreadsKept DEF Fork, TypeOK, ThreadsExact
  <2> QED
    BY <2>1, <2>2
<1>2. CASE Forked \/ Slept \/ WaitFails \/ \E c \in Clients : Connect(c)
  BY <1>2, ThreadsKept DEF Forked, Slept, WaitFails, Connect, ThreadsExact
<1>3. ASSUME NEW p \in Procs, Wait(p) PROVE ThreadsExact'
  <2> SUFFICES ASSUME NEW q \in Procs PROVE ThreadsOf(q)'
    BY DEF ThreadsExact
  <2>1. CASE q = p
    <3>1. /\ status'[p] = "none" /\ started'[p] = 0
          /\ \A w \in Workers : worker'[p][w] = "none"
      BY <1>3 DEF Wait, TypeOK, ThreadsExact, ThreadsOf
    <3> QED
      BY <2>1, <3>1 DEF ThreadsOf, Zombie
  <2>2. CASE q # p
    BY <1>3, <2>2, ThreadsKept DEF Wait, TypeOK, ThreadsExact
  <2> QED
    BY <2>1, <2>2
<1>4. ASSUME NEW p \in Procs, RunInline(p) PROVE ThreadsExact'
  <2> SUFFICES ASSUME NEW q \in Procs PROVE ThreadsOf(q)'
    BY DEF ThreadsExact
  <2>1. CASE q = p
    <3>1. started[p] = 0 /\ \A w \in Workers : worker[p][w] = "none"
      BY <1>4, ThreadsOfNumbers DEF RunInline, ThreadsExact, ThreadsOf
    <3>2. /\ status'[p] = "inline"
          /\ \A w \in Workers : worker'[p][w] # "none" <=> w = 0
      BY <1>4, <3>1, ThreadsOfNumbers DEF RunInline, TypeOK
    <3> QED
      BY <2>1, <3>2 DEF ThreadsOf, Zombie
  <2>2. CASE q # p
    BY <1>4, <2>2, ThreadsKept DEF RunInline, TypeOK, ThreadsExact
  <2> QED
    BY <2>1, <2>2
<1>5. ASSUME NEW p \in Procs, StartThread(p) PROVE ThreadsExact'
  <2> SUFFICES ASSUME NEW q \in Procs PROVE ThreadsOf(q)'
    BY DEF ThreadsExact
  <2>1. CASE q = p
    <3>1. /\ status[p] = "start" /\ started[p] < opts.num_threads /\ opts' = opts
          /\ \A w \in Workers : worker[p][w] # "none" <=> w < started[p]
      BY <1>5 DEF StartThread, ThreadsExact, ThreadsOf
    <3>2. /\ status'[p] = "start" /\ started'[p] = started[p] + 1
          /\ \A w \in Workers : worker'[p][w] = IF w = started[p] THEN "init" ELSE worker[p][w]
      BY <1>5 DEF StartThread, TypeOK
    <3>3. started'[p] <= opts'.num_threads
      BY <3>1, <3>2, ThreadsOfNumbers
    <3>4. \A w \in Workers : worker'[p][w] # "none" <=> w < started'[p]
      BY <3>1, <3>2, ThreadsOfNumbers
    <3> QED
      BY <2>1, <3>2, <3>3, <3>4 DEF ThreadsOf, Zombie
  <2>2. CASE q # p
    BY <1>5, <2>2, ThreadsKept DEF StartThread, TypeOK, ThreadsExact
  <2> QED
    BY <2>1, <2>2
<1>6. ASSUME NEW p \in Procs, AllStarted(p) PROVE ThreadsExact'
  <2> SUFFICES ASSUME NEW q \in Procs PROVE ThreadsOf(q)'
    BY DEF ThreadsExact
  <2>1. CASE q = p
    BY <1>6, <2>1, ThreadsOfNumbers DEF AllStarted, TypeOK, ThreadsExact, ThreadsOf, Zombie
  <2>2. CASE q # p
    BY <1>6, <2>2, ThreadsKept DEF AllStarted, TypeOK, ThreadsExact
  <2> QED
    BY <2>1, <2>2
<1>7. ASSUME NEW p \in Procs, StartFails(p) PROVE ThreadsExact'
  <2> SUFFICES ASSUME NEW q \in Procs PROVE ThreadsOf(q)'
    BY DEF ThreadsExact
  <2>1. CASE q = p
    BY <1>7, <2>1, ThreadsOfNumbers
       DEF StartFails, AfterStart, TypeOK, ThreadsExact, ThreadsOf, Zombie
  <2>2. CASE q # p
    BY <1>7, <2>2, ThreadsKept DEF StartFails, TypeOK, ThreadsExact
  <2> QED
    BY <2>1, <2>2
<1>8. ASSUME NEW p \in Procs, Unwind(p) \/ Crash(p) PROVE ThreadsExact'
  BY <1>8, ThreadsEnd DEF Unwind, Crash, Zombie
<1>9. ASSUME NEW p \in Procs, NEW w \in Workers, ThreadStep(p, w) PROVE ThreadsExact'
  <2>1. /\ UNCHANGED <<opts, status, started>>
        /\ \A q \in Procs, v \in Workers : worker'[q][v] # "none" <=> worker[q][v] # "none"
    BY <1>9, ThreadMoves
  <2> QED
    BY <2>1 DEF ThreadsExact, ThreadsOf
<1>10. CASE UNCHANGED vars
  BY <1>10 DEF ThreadsExact, ThreadsOf
<1> QED
  BY <1>1, <1>2, <1>3, <1>4, <1>5, <1>6, <1>7, <1>8, <1>9, <1>10
     DEF Next, MainStep, Reap, StartStep

THEOREM ThreadsAreExact == Spec => []ThreadsExact
<1>1. TypeOK /\ ThreadsExact /\ [Next]_vars => ThreadsExact'
  BY ThreadsNext
<1> QED
  BY <1>1, ServerTypeCorrect, ThreadsInit, PTL DEF Spec

(* A process that waits for threads has one, whichever of them failed to    *)
(* start (worker_main, ~ptr_array).                                         *)
THEOREM NoProcessIdle == Spec => []NoIdleProcess
<1>1. TypeOK /\ ThreadsExact => NoIdleProcess
  <2> SUFFICES ASSUME TypeOK, ThreadsExact, NEW p \in Procs, status[p] \in {"inline", "join"}
               PROVE  worker[p][0] # "none" /\ 0 \in Workers
    BY DEF NoIdleProcess
  <2> QED
    BY ThreadsOfNumbers DEF ThreadsExact, ThreadsOf
<1> QED
  BY <1>1, ServerTypeCorrect, ThreadsAreExact, PTL

-----------------------------------------------------------------------------
(* The engines and the threads they know.                                   *)

LEMMA AttachedNext ==
    TypeOK /\ WorkersAttached /\ [Next]_vars => WorkersAttached'
<1> SUFFICES ASSUME TypeOK, WorkersAttached, [Next]_vars,
                    NEW q \in Procs, NEW v \in Workers,
                    real'[q], worker'[q][v] \in {"accept", "retry", "serve"},
                    status'[q] # "inline"
             PROVE  v \in attached'[q]
  BY DEF WorkersAttached
<1> USE DEF vars, mainVars, workerVars, engineVars, clientVars
<1>1. ASSUME real[q], worker[q][v] \in {"accept", "retry", "serve"}, status[q] # "inline"
      PROVE  v \in attached[q]
  BY <1>1 DEF WorkersAttached
<1>2. ASSUME NEW p \in Procs, Fork(p) PROVE v \in attached'[q]
  <2>1. status[q] # "inline"
    BY <1>2 DEF Fork, TypeOK
  <2> QED
    BY <1>1, <1>2, <2>1 DEF Fork
<1>3. CASE Forked \/ Slept \/ WaitFails \/ \E c \in Clients : Connect(c)
  BY <1>1, <1>3 DEF Forked, Slept, WaitFails, Connect
<1>4. ASSUME NEW p \in Procs, Wait(p) PROVE v \in attached'[q]
  <2>1. status[q] # "inline"
    BY <1>4 DEF Wait, Zombie, TypeOK
  <2> QED
    BY <1>1, <1>4, <2>1 DEF Wait
<1>5. ASSUME NEW p \in Procs, RunInline(p) PROVE v \in attached'[q]
  <2>1. q # p
    BY <1>5 DEF RunInline, TypeOK
  <2> QED
    BY <1>1, <1>5, <2>1 DEF RunInline, TypeOK
<1>6. ASSUME NEW p \in Procs, StartThread(p) PROVE v \in attached'[q]
  <2>1. worker[q][v] = worker'[q][v]
    BY <1>6 DEF StartThread, TypeOK
  <2> QED
    BY <1>1, <1>6, <2>1 DEF StartThread
<1>7. ASSUME NEW p \in Procs, AllStarted(p) \/ StartFails(p) PROVE v \in attached'[q]
  <2>1. status[q] # "inline" /\ UNCHANGED <<worker, attached, real>>
    BY <1>7 DEF AllStarted, StartFails, TypeOK
  <2> QED
    BY <1>1, <2>1
<1>8. ASSUME NEW p \in Procs, NEW s \in Zombie, End(p, s) PROVE v \in attached'[q]
  <2>1. q # p
    BY <1>8 DEF End, TypeOK
  <2> QED
    BY <1>1, <1>8, <2>1 DEF End, TypeOK
<1>9. ASSUME NEW p \in Procs, Unwind(p) \/ Crash(p) PROVE v \in attached'[q]
  BY <1>8, <1>9 DEF Unwind, Crash, Zombie
<1>10. ASSUME NEW p \in Procs, NEW w \in Workers, ThreadStep(p, w) PROVE v \in attached'[q]
  <2> USE DEF TypeOK
  <2>1. CASE ThreadInit(p, w)
    BY <1>1, <2>1 DEF ThreadInit
  <2>2. CASE Retry(p, w)
    BY <1>1, <2>2 DEF Retry
  <2>3. CASE Accept(p, w)
    BY <1>1, <2>3 DEF Accept
  <2>4. CASE AcceptFails(p, w)
    BY <1>1, <2>4 DEF AcceptFails
  <2>5. CASE AcceptDrops(p, w)
    BY <1>1, <2>5 DEF AcceptDrops
  <2>6. CASE Served(p, w)
    BY <1>1, <2>6 DEF Served
  <2>7. CASE LoadEngine(p, w)
    BY <1>1, <2>7 DEF LoadEngine, MayLoad
  <2> QED
    BY <1>10, <2>1, <2>2, <2>3, <2>4, <2>5, <2>6, <2>7 DEF ThreadStep
<1>11. CASE UNCHANGED vars
  BY <1>1, <1>11
<1> QED
  BY <1>2, <1>3, <1>4, <1>5, <1>6, <1>7, <1>9, <1>10, <1>11
     DEF Next, MainStep, Reap, StartStep

(* No engine is loaded behind the back of a running thread                  *)
(* (child_thread_initialized and get_real_engine of asedelayscr.cpp).       *)
THEOREM WorkersAreAttached == Spec => []WorkersAttached
<1>1. Init => WorkersAttached
  BY DEF Init, WorkersAttached
<1>2. TypeOK /\ WorkersAttached /\ [Next]_vars => WorkersAttached'
  BY AttachedNext
<1> QED
  BY <1>1, <1>2, ServerTypeCorrect, PTL DEF Spec
-----------------------------------------------------------------------------
(* The connections.                                                         *)

(* Where a connection is: in the backlog, once, while it is queued; held by *)
(* one serving thread while it is accepted; nowhere else.                   *)
BacklogQueued ==
    /\ \A i \in 1 .. Len(backlog) : client[backlog[i]] = "queued"
    /\ \A i, j \in 1 .. Len(backlog) : backlog[i] = backlog[j] => i = j

ConnHeld ==
    /\ \A p \in Procs, w \in Workers :
         conn[p][w] # NoConn => /\ worker[p][w] = "serve"
                                /\ client[conn[p][w]] = "accepted"
    /\ \A p, q \in Procs, v, w \in Workers :
         conn[p][v] = conn[q][w] /\ conn[p][v] # NoConn => p = q /\ v = w
    /\ \A c \in Clients :
         client[c] = "accepted" => \E p \in Procs, w \in Workers : conn[p][w] = c

ConnInv == BacklogQueued /\ ConnHeld

LEMMA ConnInit == Init => ConnInv
<1> SUFFICES ASSUME Init PROVE ConnInv
  OBVIOUS
<1>1. Len(backlog) = 0
  BY DEF Init
<1>2. BacklogQueued
  BY <1>1 DEF BacklogQueued
<1>3. ConnHeld
  BY DEF Init, ConnHeld
<1> QED
  BY <1>2, <1>3 DEF ConnInv

(* Steps that leave the connections alone, and no serving thread stops.     *)
LEMMA ConnKept ==
    ASSUME ConnInv, UNCHANGED <<conn, client, backlog>>,
           \A p \in Procs, w \in Workers : worker[p][w] = "serve" => worker'[p][w] = "serve"
    PROVE  ConnInv'
<1>1. BacklogQueued'
  BY DEF ConnInv, BacklogQueued
<1>2. ConnHeld'
  BY DEF ConnInv, ConnHeld
<1> QED
  BY <1>1, <1>2 DEF ConnInv

(* The backlog without its first connection.                                *)
LEMMA BacklogTail ==
    ASSUME TypeOK, BacklogQueued, backlog # <<>>
    PROVE  /\ Head(backlog) \in Clients
           /\ client[Head(backlog)] = "queued"
           /\ Tail(backlog) \in Seq(Clients)
           /\ \A i \in 1 .. Len(Tail(backlog)) :
                client[Tail(backlog)[i]] = "queued" /\ Tail(backlog)[i] # Head(backlog)
           /\ \A i, j \in 1 .. Len(Tail(backlog)) :
                Tail(backlog)[i] = Tail(backlog)[j] => i = j
<1> DEFINE b == backlog
           t == Tail(backlog)
<1>1. b \in Seq(Clients) /\ Len(b) \in Nat /\ Len(b) > 0
  BY EmptySeq, LenProperties DEF TypeOK
<1>2. /\ Head(b) = b[1] /\ t \in Seq(Clients) /\ Len(t) = Len(b) - 1
      /\ \A i \in 1 .. Len(t) : t[i] = b[i + 1]
  BY <1>1, HeadTailProperties
<1>3. Head(b) \in Clients
  BY <1>1, <1>2, ElementOfSeq
<1>4. client[Head(b)] = "queued"
  BY <1>1, <1>2 DEF BacklogQueued
<1>5. ASSUME NEW i \in 1 .. Len(t)
      PROVE  client[t[i]] = "queued" /\ t[i] # Head(b)
  <2>1. i + 1 \in 1 .. Len(b) /\ 1 \in 1 .. Len(b) /\ i + 1 # 1
    BY <1>1, <1>2
  <2> QED
    BY <1>2, <2>1 DEF BacklogQueued
<1>6. ASSUME NEW i \in 1 .. Len(t), NEW j \in 1 .. Len(t), t[i] = t[j]
      PROVE  i = j
  <2>1. i + 1 \in 1 .. Len(b) /\ j + 1 \in 1 .. Len(b)
    BY <1>1, <1>2
  <2>2. i + 1 = j + 1
    BY <1>2, <1>6, <2>1 DEF BacklogQueued
  <2> QED
    BY <2>2
<1> QED
  BY <1>2, <1>3, <1>4, <1>5, <1>6

LEMMA ConnAccept ==
    ASSUME TypeOK, ConnInv, NEW p \in Procs, NEW w \in Workers, Accept(p, w)
    PROVE  ConnInv'
<1> DEFINE c == Head(backlog)
<1>1. /\ backlog # <<>> /\ worker[p][w] = "accept"
      /\ backlog' = Tail(backlog)
      /\ worker' = [worker EXCEPT ![p][w] = "serve"]
      /\ conn' = [conn EXCEPT ![p][w] = c]
      /\ client' = [client EXCEPT ![c] = "accepted"]
  BY DEF Accept
<1>2. /\ c \in Clients /\ client[c] = "queued"
      /\ \A i \in 1 .. Len(Tail(backlog)) :
           client[Tail(backlog)[i]] = "queued" /\ Tail(backlog)[i] # c
      /\ \A i, j \in 1 .. Len(Tail(backlog)) : Tail(backlog)[i] = Tail(backlog)[j] => i = j
      /\ Tail(backlog) \in Seq(Clients)
  BY <1>1, BacklogTail DEF ConnInv
<1> HIDE DEF c
<1>3. BacklogQueued'
  BY <1>1, <1>2, ElementOfSeq DEF BacklogQueued, TypeOK
<1>4. \A q \in Procs, v \in Workers :
         /\ conn'[q][v] = IF q = p /\ v = w THEN c ELSE conn[q][v]
         /\ worker'[q][v] = IF q = p /\ v = w THEN "serve" ELSE worker[q][v]
  BY <1>1 DEF TypeOK
<1>5. \A d \in Clients : client'[d] = IF d = c THEN "accepted" ELSE client[d]
  BY <1>1 DEF TypeOK
<1>6. \A q \in Procs, v \in Workers : conn[q][v] # c /\ conn[q][v] \in Clients \cup {NoConn}
  BY <1>2, ClientsAssumption DEF ConnInv, ConnHeld, TypeOK
<1>7. conn[p][w] = NoConn
  BY <1>1 DEF ConnInv, ConnHeld
<1>8. ConnHeld'
  <2>1. ASSUME NEW q \in Procs, NEW v \in Workers, conn'[q][v] # NoConn
        PROVE  worker'[q][v] = "serve" /\ client'[conn'[q][v]] = "accepted"
    BY <1>2, <1>4, <1>5, <1>6, <2>1 DEF ConnInv, ConnHeld
  <2>2. ASSUME NEW q \in Procs, NEW r \in Procs, NEW u \in Workers, NEW v \in Workers,
               conn'[q][u] = conn'[r][v], conn'[q][u] # NoConn
        PROVE  q = r /\ u = v
    BY <1>4, <1>6, <2>2 DEF ConnInv, ConnHeld
  <2>3. ASSUME NEW d \in Clients, client'[d] = "accepted"
        PROVE  \E q \in Procs, v \in Workers : conn'[q][v] = d
    <3>1. CASE d = c
      BY <1>4, <3>1
    <3>2. CASE d # c
      <4>1. PICK q \in Procs, v \in Workers : conn[q][v] = d
        BY <1>5, <2>3, <3>2 DEF ConnInv, ConnHeld
      <4>2. conn'[q][v] = d
        BY <1>4, <1>7, <4>1, ClientsAssumption
      <4> QED
        BY <4>2
    <3> QED
      BY <3>1, <3>2
  <2> QED
    BY <2>1, <2>2, <2>3 DEF ConnHeld
<1> QED
  BY <1>3, <1>8 DEF ConnInv

LEMMA ConnDrops ==
    ASSUME TypeOK, ConnInv, NEW p \in Procs, NEW w \in Workers, AcceptDrops(p, w)
    PROVE  ConnInv'
<1> DEFINE c == Head(backlog)
<1>1. /\ backlog # <<>> /\ worker[p][w] = "accept"
      /\ backlog' = Tail(backlog) /\ conn' = conn
      /\ worker' = [worker EXCEPT ![p][w] = "retry"]
      /\ client' = [client EXCEPT ![c] = "lost"]
  BY DEF AcceptDrops, AfterFailure
<1>2. /\ c \in Clients /\ client[c] = "queued"
      /\ \A i \in 1 .. Len(Tail(backlog)) :
           client[Tail(backlog)[i]] = "queued" /\ Tail(backlog)[i] # c
      /\ \A i, j \in 1 .. Len(Tail(backlog)) : Tail(backlog)[i] = Tail(backlog)[j] => i = j
      /\ Tail(backlog) \in Seq(Clients)
  BY <1>1, BacklogTail DEF ConnInv
<1> HIDE DEF c
<1>3. BacklogQueued'
  BY <1>1, <1>2, ElementOfSeq DEF BacklogQueued, TypeOK
<1>4. /\ \A q \in Procs, v \in Workers : worker[q][v] = "serve" => worker'[q][v] = "serve"
      /\ \A d \in Clients : client'[d] = IF d = c THEN "lost" ELSE client[d]
      /\ \A q \in Procs, v \in Workers : conn[q][v] \in Clients \cup {NoConn}
  BY <1>1 DEF TypeOK
<1>5. ConnHeld'
  BY <1>1, <1>2, <1>4 DEF ConnInv, ConnHeld
<1> QED
  BY <1>3, <1>5 DEF ConnInv

LEMMA ConnServed ==
    ASSUME TypeOK, ConnInv, NEW p \in Procs, NEW w \in Workers, Served(p, w)
    PROVE  ConnInv'
<1> DEFINE c == conn[p][w]
<1>1. /\ backlog' = backlog
      /\ worker' = [worker EXCEPT ![p][w] = "accept"]
      /\ conn' = [conn EXCEPT ![p][w] = NoConn]
      /\ client' = [client EXCEPT ![c] = "closed"]
  BY DEF Served, Released, clientVars
<1>2. /\ \A q \in Procs, v \in Workers :
           /\ conn'[q][v] = IF q = p /\ v = w THEN NoConn ELSE conn[q][v]
           /\ worker'[q][v] = IF q = p /\ v = w THEN "accept" ELSE worker[q][v]
           /\ conn[q][v] \in Clients \cup {NoConn}
      /\ \A d \in Clients : client'[d] = IF d = c THEN "closed" ELSE client[d]
  BY <1>1 DEF TypeOK
<1>3. c \in Clients => client[c] = "accepted"
  BY ClientsAssumption DEF ConnInv, ConnHeld
<1>4. BacklogQueued'
  <2>1. \A i \in 1 .. Len(backlog) : backlog[i] \in Clients /\ client[backlog[i]] = "queued"
    BY ElementOfSeq DEF TypeOK, ConnInv, BacklogQueued
  <2> QED
    BY <1>1, <1>2, <1>3, <2>1 DEF ConnInv, BacklogQueued
<1>5. ConnHeld'
  <2>1. ASSUME NEW q \in Procs, NEW v \in Workers, conn'[q][v] # NoConn
        PROVE  worker'[q][v] = "serve" /\ client'[conn'[q][v]] = "accepted"
    BY <1>2, <2>1 DEF ConnInv, ConnHeld
  <2>2. ASSUME NEW q \in Procs, NEW r \in Procs, NEW u \in Workers, NEW v \in Workers,
               conn'[q][u] = conn'[r][v], conn'[q][u] # NoConn
        PROVE  q = r /\ u = v
    BY <1>2, <2>2 DEF ConnInv, ConnHeld
  <2>3. ASSUME NEW d \in Clients, client'[d] = "accepted"
        PROVE  \E q \in Procs, v \in Workers : conn'[q][v] = d
    <3>1. PICK q \in Procs, v \in Workers : conn[q][v] = d
      BY <1>2, <2>3 DEF ConnInv, ConnHeld
    <3>2. conn'[q][v] = d
      BY <1>2, <2>3, <3>1
    <3> QED
      BY <3>2
  <2> QED
    BY <2>1, <2>2, <2>3 DEF ConnHeld
<1> QED
  BY <1>4, <1>5 DEF ConnInv

LEMMA ConnEnd ==
    ASSUME TypeOK, ConnInv, NEW p \in Procs, NEW s \in Zombie, End(p, s)
    PROVE  ConnInv'
<1>1. /\ backlog' = backlog
      /\ \A q \in Procs, v \in Workers :
           /\ conn'[q][v] = IF q = p THEN NoConn ELSE conn[q][v]
           /\ q # p => worker'[q][v] = worker[q][v]
           /\ conn[q][v] \in Clients \cup {NoConn}
      /\ \A d \in Clients : client'[d] = IF d \in Held(p) THEN "lost" ELSE client[d]
  BY DEF End, TypeOK
<1>2. \A d \in Held(p) : d \in Clients /\ client[d] = "accepted"
  BY DEF Held, ConnInv, ConnHeld, TypeOK
<1>3. BacklogQueued'
  <2>1. \A i \in 1 .. Len(backlog) : backlog[i] \in Clients /\ client[backlog[i]] = "queued"
    BY ElementOfSeq DEF TypeOK, ConnInv, BacklogQueued
  <2> QED
    BY <1>1, <1>2, <2>1 DEF ConnInv, BacklogQueued
<1>4. ConnHeld'
  <2>1. ASSUME NEW q \in Procs, NEW v \in Workers, conn'[q][v] # NoConn
        PROVE  worker'[q][v] = "serve" /\ client'[conn'[q][v]] = "accepted"
    <3>1. q # p /\ conn'[q][v] = conn[q][v] /\ conn[q][v] \in Clients
      BY <1>1, <2>1
    <3>2. conn[q][v] \notin Held(p)
      BY <2>1, <3>1 DEF Held, ConnInv, ConnHeld
    <3> QED
      BY <1>1, <2>1, <3>1, <3>2 DEF ConnInv, ConnHeld
  <2>2. ASSUME NEW q \in Procs, NEW r \in Procs, NEW u \in Workers, NEW v \in Workers,
               conn'[q][u] = conn'[r][v], conn'[q][u] # NoConn
        PROVE  q = r /\ u = v
    BY <1>1, <2>2 DEF ConnInv, ConnHeld
  <2>3. ASSUME NEW d \in Clients, client'[d] = "accepted"
        PROVE  \E q \in Procs, v \in Workers : conn'[q][v] = d
    <3>1. d \notin Held(p) /\ client[d] = "accepted"
      BY <1>1, <2>3
    <3>2. PICK q \in Procs, v \in Workers : conn[q][v] = d
      BY <3>1 DEF ConnInv, ConnHeld
    <3>3. q # p
      BY <3>1, <3>2, ClientsAssumption DEF Held
    <3> QED
      BY <1>1, <3>2, <3>3
  <2> QED
    BY <2>1, <2>2, <2>3 DEF ConnHeld
<1> QED
  BY <1>3, <1>4 DEF ConnInv

LEMMA ConnConnect ==
    ASSUME TypeOK, ConnInv, NEW c \in Clients, Connect(c)
    PROVE  ConnInv'
<1>1. /\ client[c] = "idle" /\ client' = [client EXCEPT ![c] = "queued"]
      /\ backlog' = Append(backlog, c) /\ UNCHANGED <<worker, conn>>
  BY DEF Connect, workerVars
<1>2. \A d \in Clients : client'[d] = IF d = c THEN "queued" ELSE client[d]
  BY <1>1 DEF TypeOK
<1>3. /\ Len(backlog) \in Nat /\ Len(backlog') = Len(backlog) + 1
      /\ \A i \in 1 .. Len(backlog) : backlog'[i] = backlog[i] /\ backlog[i] \in Clients
      /\ backlog'[Len(backlog) + 1] = c
  BY <1>1, AppendProperties, LenProperties, ElementOfSeq DEF TypeOK
<1>4. \A i \in 1 .. Len(backlog') : i \in 1 .. Len(backlog) \/ i = Len(backlog) + 1
  BY <1>3
<1>5. BacklogQueued'
  <2>1. ASSUME NEW i \in 1 .. Len(backlog') PROVE client'[backlog'[i]] = "queued"
    BY <1>2, <1>3, <1>4 DEF ConnInv, BacklogQueued
  <2>2. ASSUME NEW i \in 1 .. Len(backlog'), NEW j \in 1 .. Len(backlog'),
               backlog'[i] = backlog'[j]
        PROVE  i = j
    <3>1. \A k \in 1 .. Len(backlog) : backlog'[k] # c
      BY <1>1, <1>3 DEF ConnInv, BacklogQueued
    <3> QED
      BY <1>3, <1>4, <2>2, <3>1 DEF ConnInv, BacklogQueued
  <2> QED
    BY <2>1, <2>2 DEF BacklogQueued
<1>6. ConnHeld'
  <2>1. \A p \in Procs, w \in Workers : conn[p][w] \in Clients \cup {NoConn}
    BY DEF TypeOK
  <2> QED
    BY <1>1, <1>2, <2>1 DEF ConnInv, ConnHeld
<1> QED
  BY <1>5, <1>6 DEF ConnInv

LEMMA ConnNext == TypeOK /\ ThreadsExact /\ ConnInv /\ [Next]_vars => ConnInv'
<1> SUFFICES ASSUME TypeOK, ThreadsExact, ConnInv, [Next]_vars PROVE ConnInv'
  OBVIOUS
<1> USE DEF vars, mainVars, workerVars, engineVars, clientVars
<1>1. ASSUME NEW p \in Procs, Fork(p) \/ Wait(p) \/ AllStarted(p) \/ StartFails(p)
      PROVE  ConnInv'
  BY <1>1, ConnKept DEF Fork, Wait, AllStarted, StartFails
<1>2. CASE Forked \/ Slept \/ WaitFails
  BY <1>2, ConnKept DEF Forked, Slept, WaitFails
<1>3. ASSUME NEW p \in Procs, RunInline(p) PROVE ConnInv'
  <2>1. worker[p][0] = "none"
    BY <1>3, ThreadsOfNumbers DEF RunInline, ThreadsExact, ThreadsOf
  <2>2. \A q \in Procs, w \in Workers : worker[q][w] = "serve" => worker'[q][w] = "serve"
    BY <1>3, <2>1 DEF RunInline, TypeOK
  <2> QED
    BY <1>3, <2>2, ConnKept DEF RunInline
<1>4. ASSUME NEW p \in Procs, StartThread(p) PROVE ConnInv'
  <2>1. \A w \in Workers : w = started[p] => worker[p][w] = "none"
    BY <1>4, ThreadsOfNumbers DEF StartThread, ThreadsExact, ThreadsOf
  <2>2. \A q \in Procs, w \in Workers : worker[q][w] = "serve" => worker'[q][w] = "serve"
    BY <1>4, <2>1 DEF StartThread, TypeOK
  <2> QED
    BY <1>4, <2>2, ConnKept DEF StartThread
<1>5. ASSUME NEW p \in Procs, Unwind(p) \/ Crash(p) PROVE ConnInv'
  BY <1>5, ConnEnd DEF Unwind, Crash, Zombie
<1>6. ASSUME NEW p \in Procs, NEW w \in Workers, ThreadStep(p, w) PROVE ConnInv'
  <2>1. CASE ThreadInit(p, w) \/ Retry(p, w) \/ AcceptFails(p, w) \/ LoadEngine(p, w)
    <3>1. UNCHANGED <<conn, client, backlog>>
      BY <2>1 DEF ThreadInit, Retry, AcceptFails, LoadEngine
    <3>2. \A q \in Procs, v \in Workers : worker[q][v] = "serve" => worker'[q][v] = "serve"
      <4>1. CASE ThreadInit(p, w)
        BY <4>1 DEF ThreadInit, TypeOK
      <4>2. CASE Retry(p, w)
        BY <4>2 DEF Retry, TypeOK
      <4>3. CASE AcceptFails(p, w)
        BY <4>3 DEF AcceptFails, TypeOK
      <4>4. CASE LoadEngine(p, w)
        BY <4>4 DEF LoadEngine
      <4> QED
        BY <2>1, <4>1, <4>2, <4>3, <4>4
    <3> QED
      BY <3>1, <3>2, ConnKept
  <2> QED
    BY <1>6, <2>1, ConnAccept, ConnDrops, ConnServed DEF ThreadStep
<1>7. ASSUME NEW c \in Clients, Connect(c) PROVE ConnInv'
  BY <1>7, ConnConnect
<1>8. CASE UNCHANGED vars
  BY <1>8, ConnKept
<1> QED
  BY <1>1, <1>2, <1>3, <1>4, <1>5, <1>6, <1>7, <1>8
     DEF Next, MainStep, Reap, StartStep

LEMMA ConnOwned == TypeOK /\ ThreadsExact /\ ConnInv => ConnectionOwned
<1> SUFFICES ASSUME TypeOK, ThreadsExact, ConnInv, NEW c \in Clients
             PROVE  LET holders == {h \in Procs \X Workers : conn[h[1]][h[2]] = c}
                    IN  /\ client[c] = "accepted" => \E h \in holders : status[h[1]] \in Live
                        /\ client[c] # "accepted" => holders = {}
                        /\ \A g, h \in holders : g = h
  BY DEF ConnectionOwned
<1> DEFINE holders == {h \in Procs \X Workers : conn[h[1]][h[2]] = c}
<1>0. c # NoConn
  BY ClientsAssumption
<1>1. \A h \in holders : h[1] \in Procs /\ h[2] \in Workers /\ conn[h[1]][h[2]] = c
                         /\ h = <<h[1], h[2]>>
  OBVIOUS
<1>2. ASSUME client[c] = "accepted" PROVE \E h \in holders : status[h[1]] \in Live
  <2>1. PICK p \in Procs, w \in Workers : conn[p][w] = c
    BY <1>2 DEF ConnInv, ConnHeld
  <2>2. worker[p][w] = "serve"
    BY <1>0, <2>1 DEF ConnInv, ConnHeld
  <2>3. status[p] \in Live
    BY <2>2 DEF ThreadsExact, ThreadsOf, TypeOK, Status
  <2>4. <<p, w>> \in holders
    BY <2>1
  <2> QED
    BY <2>3, <2>4
<1>3. ASSUME client[c] # "accepted" PROVE holders = {}
  BY <1>0, <1>1, <1>3 DEF ConnInv, ConnHeld
<1>4. \A g, h \in holders : g = h
  BY <1>0, <1>1 DEF ConnInv, ConnHeld
<1> QED
  BY <1>2, <1>3, <1>4

(* An accepted connection is held by exactly one thread of a process that   *)
(* lives, and a thread holds no other (thr_main, asermt_concurrent.cpp).    *)
THEOREM ConnectionsAreOwned == Spec => []ConnectionOwned
<1>1. Spec => []ConnInv
  <2>1. TypeOK /\ ThreadsExact /\ ConnInv /\ [Next]_vars => ConnInv'
    BY ConnNext
  <2> QED
    BY <2>1, ConnInit, ServerTypeCorrect, ThreadsAreExact, PTL DEF Spec
<1> QED
  BY <1>1, ConnOwned, ServerTypeCorrect, ThreadsAreExact, PTL
=============================================================================
