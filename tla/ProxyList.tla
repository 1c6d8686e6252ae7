------------------------------ MODULE ProxyList ------------------------------
(***************************************************************************)
(* The list of the Java proxies of an engine (aselist.hpp,                 *)
(* asejni_priv.cpp): a ring of nodes that share one mutex, which the node  *)
(* that leaves last deletes.  Each node holds a variant, usually an object *)
(* of another engine, so releasing it takes the engine mutex.              *)
(*                                                                         *)
(* Nodes are inserted by threads that pass an object to Java               *)
(* (asejni_jobjpr.cpp), deleted by Java's finalizers (asejni_nprx.cpp) at  *)
(* any time, also after the engines, and emptied by the main thread when   *)
(* it destroys the engines (asejni_sctx.cpp).  Each node is used by one    *)
(* thread at a time, which is named by the node; Main is the main thread.  *)
(* It destroys the engines when no thread is in ase_jni_jniproxy_new any   *)
(* more (ScriptJoin of UnifiedEngine is about that).                       *)
(***************************************************************************)
EXTENDS Naturals, FiniteSets

CONSTANTS
    Proxies,    \* nodes of Java proxies
    EndNode,    \* jniproxy_endnode
    Main,       \* the main thread
    NoOne

ASSUME NodesAssumption ==
    /\ EndNode \notin Proxies
    /\ Main \notin Proxies \cup {EndNode}
    /\ NoOne \notin Proxies \cup {EndNode, Main}

Nodes == Proxies \cup {EndNode}

VARIABLES
    life,       \* life[n]: where the thread that uses node n is
    next, prev, \* the members of the nodes
    ring,       \* the thread that holds the shared mutex
    deletes,    \* how often the shared mutex has been deleted
    engine,     \* the thread that holds the engine mutex
    value,      \* value[n]: the variant of n has not been set, is held or void
    releases,   \* releases[n]: how often the variant of n has been released
    phase,      \* where the main thread is
    cursor,     \* p of for_each_unlocked
    out         \* v of dispose_variant: the node whose variant it took

nodeVars == <<life, next, prev>>
valueVars == <<value, releases>>
mainVars == <<phase, cursor, out>>
vars == <<nodeVars, ring, deletes, engine, valueVars, mainVars>>

Life == {"none", "create", "insert", "linked", "delete", "unlink", "unlinked",
         "value", "freed"}
Phase == {"run", "dispose", "walk", "cleanup", "rewalk", "destroy", "done"}

TypeOK ==
    /\ life \in [Nodes -> Life]
    /\ next \in [Nodes -> Nodes] /\ prev \in [Nodes -> Nodes]
    /\ ring \in Nodes \cup {Main, NoOne}
    /\ deletes \in Nat
    /\ engine \in Proxies \cup {Main, NoOne}
    /\ value \in [Nodes -> {"none", "held", "void"}]
    /\ releases \in [Nodes -> Nat]
    /\ phase \in Phase
    /\ cursor \in Nodes /\ out \in Nodes \cup {NoOne}

Init ==
    /\ life = [n \in Nodes |-> IF n = EndNode THEN "linked" ELSE "none"]
    /\ next = [n \in Nodes |-> n] /\ prev = [n \in Nodes |-> n]
    /\ ring = NoOne /\ deletes = 0 /\ engine = NoOne
    /\ value = [n \in Nodes |-> IF n = EndNode THEN "void" ELSE "none"]
    /\ releases = [n \in Nodes |-> 0]
    /\ phase = "run" /\ cursor = EndNode /\ out = NoOne

-----------------------------------------------------------------------------
(* ase_jni_jniproxy_new.                                                    *)

(* A thread passes an object to Java: it holds the engine mutex, if an      *)
(* object that is not multithreaded calls Java, or it does not.             *)
Create(n) ==
    /\ phase = "run" /\ life[n] = "none" /\ n \in Proxies
    /\ life' = [life EXCEPT ![n] = "create"]
    /\ value' = [value EXCEPT ![n] = "held"]
    /\ \/ UNCHANGED engine
       \/ engine = NoOne /\ engine' = n
    /\ UNCHANGED <<next, prev, ring, deletes, releases, mainVars>>

(* Mutant of Lock: the constructor or destructor does not wait.             *)
LockAlways(n) == ring' = n

Lock(n) == ring = NoOne /\ ring' = n

(* The node's constructor locks the mutex and reads x.prev.                 *)
InsertLock(n) ==
    /\ life[n] = "create" /\ Lock(n)
    /\ life' = [life EXCEPT ![n] = "insert"]
    /\ next' = [next EXCEPT ![n] = EndNode]
    /\ prev' = [prev EXCEPT ![n] = prev[EndNode]]
    /\ UNCHANGED <<deletes, engine, valueVars, mainVars>>

Insert(n) ==
    /\ life[n] = "insert"
    /\ life' = [life EXCEPT ![n] = "linked"]
    /\ next' = [next EXCEPT ![prev[n]] = n]
    /\ prev' = [prev EXCEPT ![next[n]] = n]
    /\ ring' = NoOne
    /\ UNCHANGED <<deletes, engine, valueVars, mainVars>>

(* The call that created the proxy of n is over.                            *)
LeaveEngine(n) ==
    /\ engine = n /\ life[n] \notin {"create", "insert"}
    /\ engine' = NoOne
    /\ UNCHANGED <<nodeVars, ring, deletes, valueVars, mainVars>>

-----------------------------------------------------------------------------
(* ~ase_list_node: by a finalizer, by ase_jni_jniproxy_new when the         *)
(* Java proxy cannot be made, and of EndNode by ~ase_jni_script_engine.     *)

Delete(n) ==
    /\ life[n] = "linked"
    /\ n = EndNode => phase = "destroy"
    /\ life' = [life EXCEPT ![n] = "delete"]
    /\ UNCHANGED <<next, prev, ring, deletes, engine, valueVars, mainVars>>

UnlinkLock(n) ==
    /\ life[n] = "delete" /\ Lock(n)
    /\ life' = [life EXCEPT ![n] = "unlink"]
    /\ UNCHANGED <<next, prev, deletes, engine, valueVars, mainVars>>

(* next->prev = prev; prev->next = next.                                    *)
Unlinked(n) ==
    /\ prev' = [prev EXCEPT ![next[n]] = prev[n]]
    /\ next' = [next EXCEPT ![prev[n]] = next[n]]

Unlink(n) ==
    /\ life[n] = "unlink"
    /\ life' = [life EXCEPT ![n] = "unlinked"]
    /\ Unlinked(n)
    /\ ring' = NoOne
    /\ UNCHANGED <<deletes, engine, valueVars, mainVars>>

(* Mutant of IsLast: whoever finds no other linked node deletes the mutex.  *)
IsLastOfAll(n) == \A m \in Nodes : life[m] \notin {"linked", "delete", "unlink"}

(* this == next, after the mutex was unlocked.                              *)
IsLast(n) == next[n] = n

DeleteMutex(n) ==
    /\ life[n] = "unlinked"
    /\ deletes' = IF IsLast(n) THEN deletes + 1 ELSE deletes
    /\ life' = [life EXCEPT ![n] = "value"]
    /\ UNCHANGED <<next, prev, ring, engine, valueVars, mainVars>>

(* The destructor of the value releases the variant: in the engine mutex,   *)
(* which the thread may hold already.                                       *)
ReleaseValue(n) ==
    /\ life[n] = "value"
    /\ value[n] = "held" => engine \in {NoOne, n}
    /\ releases' = [releases EXCEPT ![n] = IF value[n] = "held" THEN @ + 1 ELSE @]
    /\ value' = [value EXCEPT ![n] = "void"]
    /\ life' = [life EXCEPT ![n] = "freed"]
    /\ UNCHANGED <<next, prev, ring, deletes, engine, mainVars>>

-----------------------------------------------------------------------------
(* The main thread.                                                         *)

(* ~ase_unified_engine::impl_type: dispose_proxies of the delay engine      *)
(* takes the engine mutex.                                                  *)
DisposeProxies ==
    /\ phase = "run" /\ engine = NoOne
    /\ \A n \in Proxies : life[n] \notin {"create", "insert"}
    /\ phase' = "dispose" /\ engine' = Main
    /\ UNCHANGED <<nodeVars, ring, deletes, valueVars, cursor, out>>

(* Mutant of WalkLock: the list is visited without the mutex.               *)
WalkLockless == ring' = ring

WalkLock == ring = NoOne /\ ring' = Main

WalkStart ==
    /\ phase \in {"dispose", "cleanup"}
    /\ WalkLock
    /\ phase' = IF phase = "dispose" THEN "walk" ELSE "rewalk"
    /\ cursor' = EndNode
    /\ UNCHANGED <<nodeVars, deletes, engine, valueVars, out>>

(* Mutant of Swapped: the variant is copied out of the node.                *)
SwappedNot(n) == value[n]

(* value.swap(v)                                                            *)
Swapped(n) == "void"

(* dispose_variant takes the variant of the node at the cursor.             *)
Swap ==
    /\ phase \in {"walk", "rewalk"} /\ out = NoOne /\ value[cursor] = "held"
    /\ out' = cursor
    /\ value' = [value EXCEPT ![cursor] = Swapped(cursor)]
    /\ UNCHANGED <<nodeVars, ring, deletes, engine, releases, phase, cursor>>

(* v is released, in the engine mutex; then p = p->next.  A void variant    *)
(* needs no release.                                                        *)
Step ==
    /\ phase \in {"walk", "rewalk"}
    /\ out = NoOne => value[cursor] # "held"
    /\ out # NoOne => engine \in {NoOne, Main}
    /\ releases' = [n \in Nodes |-> IF n = out THEN releases[n] + 1 ELSE releases[n]]
    /\ out' = NoOne
    /\ cursor' = next[cursor]
    /\ IF next[cursor] # EndNode
       THEN UNCHANGED <<ring, engine, phase>>
       ELSE /\ ring' = NoOne
            /\ engine' = IF engine = Main THEN NoOne ELSE engine
            /\ phase' = IF phase = "walk" THEN "cleanup" ELSE "destroy"
    /\ UNCHANGED <<nodeVars, deletes, value>>

(* The engine has deleted its end node.                                     *)
Destroyed ==
    /\ phase = "destroy" /\ life[EndNode] = "freed"
    /\ phase' = "done"
    /\ UNCHANGED <<nodeVars, ring, deletes, engine, valueVars, cursor, out>>

(* The program has ended, or waits for Java's finalizers.                   *)
Finished ==
    /\ phase = "done"
    /\ \A n \in Nodes : life[n] \in {"none", "linked", "freed"}
    /\ UNCHANGED vars

NodeStep(n) ==
    \/ Create(n) \/ InsertLock(n) \/ Insert(n) \/ LeaveEngine(n)
    \/ Delete(n) \/ UnlinkLock(n) \/ Unlink(n) \/ DeleteMutex(n) \/ ReleaseValue(n)

MainStep == DisposeProxies \/ WalkStart \/ Swap \/ Step \/ Destroyed

Next == (\E n \in Nodes : NodeStep(n)) \/ MainStep \/ Finished

Spec == Init /\ [][Next]_vars

-----------------------------------------------------------------------------
Linked == {n \in Nodes : life[n] \in {"linked", "delete", "unlink"}}

Walking == phase \in {"walk", "rewalk"}

(* The linked nodes form one ring, at every moment and whichever nodes have *)
(* left: each is the prev of its next, none of the freed nodes can be       *)
(* reached, and no part of the ring is cut off.                             *)
RingIntact ==
    /\ \A n \in Linked : /\ next[n] \in Linked /\ prev[next[n]] = n
                         /\ prev[n] \in Linked /\ next[prev[n]] = n
    /\ \A S \in SUBSET Linked : S # {} /\ (\A n \in S : next[n] \in S) => S = Linked

(* The shared mutex is deleted once, by the last that leaves, when no       *)
(* thread holds it or will lock it, also when the last nodes are deleted    *)
(* at the same time; it does not leak.                                      *)
MutexLifetime ==
    /\ deletes <= 1
    /\ deletes = 1 =>
         /\ ring = NoOne
         /\ \A n \in Nodes : life[n] \in {"none", "unlinked", "value", "freed"}
    /\ (\A n \in Nodes : life[n] \in {"none", "value", "freed"}) => deletes = 1

(* Each variant is released once, by the finalizer or by dispose_proxies,   *)
(* whichever takes it first, and the main thread visits no node that is     *)
(* leaving.                                                                 *)
ReleasedOnce ==
    /\ \A n \in Proxies :
         releases[n] = IF value[n] = "void" /\ out # n THEN 1 ELSE 0
    /\ Walking => cursor \in Linked

(* Once dispose_proxies has run, the ring holds no object of another        *)
(* engine: nothing is released in an engine that is destroyed, but by a     *)
(* finalizer that had unlinked its node before.                             *)
DisposedEmpty ==
    phase \in {"cleanup", "rewalk", "destroy", "done"} =>
        \A n \in Linked : value[n] = "void"
=============================================================================
