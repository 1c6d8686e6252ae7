--------------------------- MODULE ProxyList_proofs ---------------------------
(***************************************************************************)
(* Proofs about ProxyList, for any number of proxies.                      *)
(***************************************************************************)
EXTENDS ProxyList, TLAPS

-----------------------------------------------------------------------------
(* Types.                                                                   *)

LEMMA TypeInit == Init => TypeOK
  BY NodesAssumption DEF Init, TypeOK, Life, Phase, Nodes

LEMMA TypeNext == TypeOK /\ [Next]_vars => TypeOK'
<1> SUFFICES ASSUME TypeOK, [Next]_vars PROVE TypeOK'
  OBVIOUS
<1> USE DEF nodeVars, valueVars, mainVars
<1>e. EndNode \in Nodes /\ Proxies \subseteq Nodes
  BY DEF Nodes
<1>1. ASSUME NEW n \in Nodes, Create(n) PROVE TypeOK'
  BY <1>1, <1>e DEF Create, TypeOK, Life
<1>2. ASSUME NEW n \in Nodes, InsertLock(n) PROVE TypeOK'
  BY <1>2, <1>e DEF InsertLock, Lock, TypeOK, Life
<1>3. ASSUME NEW n \in Nodes, Insert(n) PROVE TypeOK'
  BY <1>3, <1>e DEF Insert, TypeOK, Life
<1>4. ASSUME NEW n \in Nodes, LeaveEngine(n) PROVE TypeOK'
  BY <1>4 DEF LeaveEngine, TypeOK
<1>5. ASSUME NEW n \in Nodes, Delete(n) PROVE TypeOK'
  BY <1>5 DEF Delete, TypeOK, Life
<1>6. ASSUME NEW n \in Nodes, UnlinkLock(n) PROVE TypeOK'
  BY <1>6 DEF UnlinkLock, Lock, TypeOK, Life
<1>7. ASSUME NEW n \in Nodes, Unlink(n) PROVE TypeOK'
  BY <1>7 DEF Unlink, Unlinked, TypeOK, Life
<1>8. ASSUME NEW n \in Nodes, DeleteMutex(n) PROVE TypeOK'
  BY <1>8 DEF DeleteMutex, TypeOK, Life
<1>9. ASSUME NEW n \in Nodes, ReleaseValue(n) PROVE TypeOK'
  BY <1>9 DEF ReleaseValue, TypeOK, Life
<1>10. CASE DisposeProxies
  BY <1>10 DEF DisposeProxies, TypeOK, Phase
<1>11. CASE WalkStart
  BY <1>11, <1>e DEF WalkStart, WalkLock, TypeOK, Phase
<1>12. CASE Swap
  BY <1>12 DEF Swap, Swapped, TypeOK
<1>13. CASE Step
  <2>1. cursor' \in Nodes /\ out' \in Nodes \cup {NoOne} /\ releases' \in [Nodes -> Nat]
    BY <1>13 DEF Step, TypeOK
  <2>2. /\ ring' \in Nodes \cup {Main, NoOne} /\ engine' \in Proxies \cup {Main, NoOne}
        /\ phase' \in Phase
    BY <1>13 DEF Step, TypeOK, Phase
  <2>3. UNCHANGED <<life, next, prev, deletes, value>>
    BY <1>13 DEF Step
  <2> QED
    BY <2>1, <2>2, <2>3 DEF TypeOK
<1>14. CASE Destroyed
  BY <1>14 DEF Destroyed, TypeOK, Phase
<1>15. CASE UNCHANGED vars
  BY <1>15 DEF vars, TypeOK
<1> QED
  BY <1>1, <1>2, <1>3, <1>4, <1>5, <1>6, <1>7, <1>8, <1>9, <1>10, <1>11, <1>12,
     <1>13, <1>14, <1>15 DEF Next, NodeStep, MainStep, Finished

(* The list, the mutex and the main thread keep their type.                 *)
THEOREM ProxyTypeCorrect == Spec => []TypeOK
  BY TypeInit, TypeNext, PTL DEF Spec

-----------------------------------------------------------------------------
(* Who holds the mutex, and what may still happen in a phase.               *)

LockInv ==
    /\ \A n \in Nodes : life[n] \in {"insert", "unlink"} <=> ring = n
    /\ ring = Main <=> Walking

PhaseInv ==
    /\ phase \notin {"destroy", "done"} => life[EndNode] = "linked"
    /\ phase # "run" => \A n \in Nodes : life[n] \notin {"create", "insert"}
    /\ life[EndNode] \notin {"none", "create", "insert"}

LEMMA LockPhaseInit == Init => LockInv /\ PhaseInv
  BY NodesAssumption DEF Init, LockInv, PhaseInv, Walking, Nodes

LEMMA LockPhaseNext ==
    TypeOK /\ LockInv /\ PhaseInv /\ [Next]_vars => LockInv' /\ PhaseInv'
<1> SUFFICES ASSUME TypeOK, LockInv, PhaseInv, [Next]_vars PROVE LockInv' /\ PhaseInv'
  OBVIOUS
<1> USE DEF nodeVars, valueVars, mainVars, TypeOK, LockInv, PhaseInv, Walking
<1>e. /\ EndNode \in Nodes /\ Main \notin Nodes /\ NoOne \notin Nodes /\ Main # NoOne
      /\ EndNode \notin Proxies
  BY NodesAssumption DEF Nodes
<1>1. ASSUME NEW n \in Nodes, Create(n) PROVE LockInv' /\ PhaseInv'
  BY <1>1, <1>e DEF Create
<1>2. ASSUME NEW n \in Nodes, InsertLock(n) PROVE LockInv' /\ PhaseInv'
  BY <1>2, <1>e DEF InsertLock, Lock
<1>3. ASSUME NEW n \in Nodes, Insert(n) PROVE LockInv' /\ PhaseInv'
  BY <1>3, <1>e DEF Insert
<1>4. ASSUME NEW n \in Nodes, LeaveEngine(n) PROVE LockInv' /\ PhaseInv'
  BY <1>4 DEF LeaveEngine
<1>5. ASSUME NEW n \in Nodes, Delete(n) PROVE LockInv' /\ PhaseInv'
  BY <1>5, <1>e DEF Delete
<1>6. ASSUME NEW n \in Nodes, UnlinkLock(n) PROVE LockInv' /\ PhaseInv'
  BY <1>6, <1>e DEF UnlinkLock, Lock
<1>7. ASSUME NEW n \in Nodes, Unlink(n) PROVE LockInv' /\ PhaseInv'
  BY <1>7, <1>e DEF Unlink
<1>8. ASSUME NEW n \in Nodes, DeleteMutex(n) PROVE LockInv' /\ PhaseInv'
  BY <1>8, <1>e DEF DeleteMutex
<1>9. ASSUME NEW n \in Nodes, ReleaseValue(n) PROVE LockInv' /\ PhaseInv'
  BY <1>9, <1>e DEF ReleaseValue
<1>10. CASE DisposeProxies
  BY <1>10, <1>e DEF DisposeProxies, Nodes
<1>11. CASE WalkStart
  BY <1>11, <1>e DEF WalkStart, WalkLock
<1>12. CASE Swap
  BY <1>12 DEF Swap
<1>13. CASE Step
  BY <1>13, <1>e DEF Step
<1>14. CASE Destroyed
  BY <1>14, <1>e DEF Destroyed
<1>15. CASE UNCHANGED vars
  BY <1>15 DEF vars
<1> QED
  BY <1>1, <1>2, <1>3, <1>4, <1>5, <1>6, <1>7, <1>8, <1>9, <1>10, <1>11, <1>12,
     <1>13, <1>14, <1>15 DEF Next, NodeStep, MainStep, Finished

-----------------------------------------------------------------------------
(* The ring.                                                                *)

RingInv ==
    /\ RingIntact
    /\ \A n \in Nodes : life[n] = "insert" => next[n] = EndNode /\ prev[n] = prev[EndNode]

(* Inserting n before EndNode keeps one ring.                               *)
LEMMA RingInsert ==
    ASSUME TypeOK, PhaseInv, RingInv, NEW n \in Nodes, Insert(n)
    PROVE  RingIntact'
<1> DEFINE tail == prev[EndNode]
<1>1. /\ life[n] = "insert" /\ life' = [life EXCEPT ![n] = "linked"]
      /\ next' = [next EXCEPT ![prev[n]] = n] /\ prev' = [prev EXCEPT ![next[n]] = n]
      /\ next[n] = EndNode /\ prev[n] = tail
  BY DEF Insert, RingInv
<1>2. EndNode \in Nodes /\ EndNode \in Linked /\ n \notin Linked
  BY <1>1 DEF PhaseInv, Linked, Nodes
<1>3. Linked' = Linked \cup {n}
  BY <1>1 DEF Linked, TypeOK
<1>4. \A m \in Linked : /\ next[m] \in Linked /\ prev[next[m]] = m
                        /\ prev[m] \in Linked /\ next[prev[m]] = m
  BY DEF RingInv, RingIntact
<1>5. tail \in Linked /\ next[tail] = EndNode
  BY <1>2, <1>4
<1>6. \A m \in Nodes : /\ next'[m] = IF m = tail THEN n ELSE next[m]
                       /\ prev'[m] = IF m = EndNode THEN n ELSE prev[m]
  BY <1>1 DEF TypeOK
<1> HIDE DEF tail
<1>7. Linked \subseteq Nodes
  BY DEF Linked
<1>8. ASSUME NEW m \in Linked \cup {n}
      PROVE  /\ next'[m] \in Linked \cup {n} /\ prev'[next'[m]] = m
             /\ prev'[m] \in Linked \cup {n} /\ next'[prev'[m]] = m
  <2>1. CASE m = n
    BY <1>1, <1>2, <1>5, <1>6, <1>7, <2>1 DEF tail
  <2>2. CASE m \in Linked
    <3>1. m # n /\ m \in Nodes
      BY <1>2, <1>7, <2>2
    <3>2. next'[m] \in Linked \cup {n} /\ prev'[next'[m]] = m
      <4>1. CASE m = tail
        BY <1>1, <1>2, <1>6, <3>1, <4>1
      <4>2. CASE m # tail
        <5>1. next'[m] = next[m] /\ next[m] \in Linked /\ prev[next[m]] = m /\ next[m] # EndNode
          BY <1>4, <1>6, <2>2, <3>1, <4>2 DEF tail
        <5> QED
          BY <1>6, <1>7, <5>1
      <4> QED
        BY <4>1, <4>2
    <3>3. prev'[m] \in Linked \cup {n} /\ next'[prev'[m]] = m
      <4>1. CASE m = EndNode
        BY <1>1, <1>2, <1>5, <1>6, <3>1, <4>1
      <4>2. CASE m # EndNode
        <5>1. prev'[m] = prev[m] /\ prev[m] \in Linked /\ next[prev[m]] = m /\ prev[m] # tail
          BY <1>4, <1>5, <1>6, <2>2, <3>1, <4>2
        <5> QED
          BY <1>6, <1>7, <5>1
      <4> QED
        BY <4>1, <4>2
    <3> QED
      BY <3>2, <3>3
  <2> QED
    BY <2>1, <2>2
<1>9. ASSUME NEW S \in SUBSET (Linked \cup {n}), S # {}, \A m \in S : next'[m] \in S
      PROVE  S = Linked \cup {n}
  <2> DEFINE R == S \ {n}
  <2>1. n \in S => EndNode \in R
    BY <1>1, <1>2, <1>6, <1>9, <1>5
  <2>2. ASSUME NEW m \in R PROVE next[m] \in R
    <3>1. m \in Linked /\ m \in Nodes /\ m \in S
      BY <1>7
    <3>2. CASE m = tail
      BY <1>5, <1>6, <1>9, <2>1, <3>1, <3>2
    <3>3. CASE m # tail
      BY <1>2, <1>4, <1>6, <1>9, <3>1, <3>3
    <3> QED
      BY <3>2, <3>3
  <2>3. R # {}
    BY <1>9, <2>1
  <2>4. R = Linked
    BY <2>2, <2>3 DEF RingInv, RingIntact
  <2>5. n \in S
    BY <1>5, <1>6, <1>7, <1>9, <2>4
  <2> QED
    BY <2>4, <2>5
<1> QED
  BY <1>3, <1>8, <1>9 DEF RingIntact

(* A node alone in the ring is all of it.                                   *)
LEMMA AloneIsAll ==
    ASSUME RingIntact, NEW n \in Linked, next[n] = n
    PROVE  Linked = {n}
<1>1. {n} \in SUBSET Linked /\ {n} # {} /\ \A m \in {n} : next[m] \in {n}
  OBVIOUS
<1> QED
  BY <1>1 DEF RingIntact

(* Unlinking n keeps the others in one ring.                                *)
LEMMA RingUnlink ==
    ASSUME TypeOK, RingInv, NEW n \in Nodes, Unlink(n)
    PROVE  /\ RingIntact'
           /\ n \in Linked /\ Linked' = Linked \ {n}
           /\ next'[n] = next[n] /\ prev[n] \in Linked
<1>1. /\ life[n] = "unlink" /\ life' = [life EXCEPT ![n] = "unlinked"]
      /\ prev' = [prev EXCEPT ![next[n]] = prev[n]]
      /\ next' = [next EXCEPT ![prev[n]] = next[n]]
  BY DEF Unlink, Unlinked
<1>2. n \in Linked /\ Linked' = Linked \ {n} /\ Linked \subseteq Nodes
  BY <1>1 DEF Linked, TypeOK
<1>3. \A m \in Linked : /\ next[m] \in Linked /\ prev[next[m]] = m
                        /\ prev[m] \in Linked /\ next[prev[m]] = m
  BY DEF RingInv, RingIntact
<1>4. \A m \in Nodes : /\ next'[m] = IF m = prev[n] THEN next[n] ELSE next[m]
                       /\ prev'[m] = IF m = next[n] THEN prev[n] ELSE prev[m]
  BY <1>1 DEF TypeOK
<1>5. next'[n] = next[n]
  BY <1>2, <1>3, <1>4
<1>6. CASE next[n] = n
  <2>1. Linked \ {n} = {}
    BY <1>2, <1>6, AloneIsAll DEF RingInv
  <2> QED
    BY <1>2, <1>3, <1>5, <2>1 DEF RingIntact
<1>7. CASE next[n] # n
  <2>1. prev[n] # n /\ next[n] \in Linked \ {n} /\ prev[n] \in Linked \ {n}
    BY <1>2, <1>3, <1>7
  <2>2. ASSUME NEW m \in Linked \ {n}
        PROVE  /\ next'[m] \in Linked \ {n} /\ prev'[next'[m]] = m
               /\ prev'[m] \in Linked \ {n} /\ next'[prev'[m]] = m
    <3>1. m \in Nodes /\ next[m] \in Nodes /\ prev[m] \in Nodes /\ m \in Linked /\ m # n
      BY <1>2, <1>3
    <3>2. next'[m] \in Linked \ {n} /\ prev'[next'[m]] = m
      <4>1. CASE m = prev[n]
        BY <1>2, <1>4, <2>1, <3>1, <4>1
      <4>2. CASE m # prev[n]
        BY <1>2, <1>3, <1>4, <3>1, <4>2
      <4> QED
        BY <4>1, <4>2
    <3>3. prev'[m] \in Linked \ {n} /\ next'[prev'[m]] = m
      <4>1. CASE m = next[n]
        BY <1>2, <1>4, <2>1, <3>1, <4>1
      <4>2. CASE m # next[n]
        BY <1>2, <1>3, <1>4, <3>1, <4>2
      <4> QED
        BY <4>1, <4>2
    <3> QED
      BY <3>2, <3>3
  <2>3. ASSUME NEW S \in SUBSET (Linked \ {n}), S # {}, \A m \in S : next'[m] \in S
        PROVE  S = Linked \ {n}
    <3>1. CASE prev[n] \in S
      <4>1. next[n] \in S
        BY <1>2, <1>4, <2>3, <3>1
      <4>2. \A m \in S : m = prev[n] \/ next[m] \in S
        BY <1>2, <1>4, <2>3
      <4>3. \A m \in S \cup {n} : next[m] \in S \cup {n}
        BY <1>2, <1>3, <4>1, <4>2
      <4>4. S \cup {n} \in SUBSET Linked /\ S \cup {n} # {}
        BY <1>2
      <4>5. S \cup {n} = Linked
        BY <4>3, <4>4 DEF RingInv, RingIntact
      <4> QED
        BY <4>5
    <3>2. CASE prev[n] \notin S
      <4>1. \A m \in S : next[m] \in S
        BY <1>2, <1>4, <2>3, <3>2
      <4>2. S = Linked
        BY <2>3, <4>1 DEF RingInv, RingIntact
      <4> QED
        BY <1>2, <4>2
    <3> QED
      BY <3>1, <3>2
  <2> QED
    BY <1>2, <1>5, <2>1, <2>2, <2>3 DEF RingIntact
<1> QED
  BY <1>6, <1>7

(* Steps that change no link of the ring.                                   *)
LEMMA RingKept ==
    ASSUME RingInv, PhaseInv, EndNode \in Nodes, Linked' = Linked,
           \A n \in Linked : next'[n] = next[n] /\ prev'[n] = prev[n],
           \A n \in Nodes : life'[n] = "insert" =>
               \/ life[n] = "insert" /\ next'[n] = next[n] /\ prev'[n] = prev[n]
                                     /\ prev'[EndNode] = prev[EndNode]
               \/ next'[n] = EndNode /\ prev'[n] = prev'[EndNode]
    PROVE  RingInv'
<1>1. \A n \in Linked' : /\ next'[n] \in Linked' /\ prev'[next'[n]] = n
                         /\ prev'[n] \in Linked' /\ next'[prev'[n]] = n
  BY DEF RingInv, RingIntact
<1>2. \A S \in SUBSET Linked' : S # {} /\ (\A n \in S : next'[n] \in S) => S = Linked'
  BY DEF RingInv, RingIntact
<1> QED
  BY <1>1, <1>2 DEF RingInv, RingIntact

LEMMA RingInit == Init => RingInv
<1> SUFFICES ASSUME Init PROVE RingInv
  OBVIOUS
<1>1. Linked = {EndNode} /\ \A n \in Nodes : next[n] = n /\ prev[n] = n /\ life[n] # "insert"
  BY DEF Init, Linked, Nodes
<1> QED
  BY <1>1 DEF RingInv, RingIntact, Nodes

LEMMA RingNext ==
    TypeOK /\ LockInv /\ PhaseInv /\ RingInv /\ [Next]_vars => RingInv'
<1> SUFFICES ASSUME TypeOK, LockInv, PhaseInv, RingInv, [Next]_vars PROVE RingInv'
  OBVIOUS
<1> USE DEF nodeVars, valueVars, mainVars
<1>e. EndNode \in Nodes
  BY DEF Nodes
<1>1. ASSUME NEW n \in Nodes, Create(n) \/ Delete(n) \/ UnlinkLock(n) \/ DeleteMutex(n)
                              \/ ReleaseValue(n)
      PROVE  RingInv'
  <2>1. UNCHANGED <<next, prev>> /\ Linked' = Linked
    BY <1>1 DEF Create, Delete, UnlinkLock, DeleteMutex, ReleaseValue, Linked, TypeOK
  <2>2. \A m \in Nodes : life'[m] = "insert" => life[m] = "insert"
    BY <1>1 DEF Create, Delete, UnlinkLock, DeleteMutex, ReleaseValue, TypeOK
  <2> QED
    BY <1>e, <2>1, <2>2, RingKept
<1>2. ASSUME NEW n \in Nodes, InsertLock(n) PROVE RingInv'
  <2>1. /\ life[n] = "create" /\ ring = NoOne /\ life' = [life EXCEPT ![n] = "insert"]
        /\ next' = [next EXCEPT ![n] = EndNode]
        /\ prev' = [prev EXCEPT ![n] = prev[EndNode]]
    BY <1>2 DEF InsertLock, Lock
  <2>2. Linked' = Linked /\ n \notin Linked /\ n # EndNode
    BY <2>1 DEF Linked, PhaseInv, TypeOK
  <2>3. \A m \in Nodes : m # n => next'[m] = next[m] /\ prev'[m] = prev[m] /\ life'[m] = life[m]
    BY <2>1 DEF TypeOK
  <2>4. next'[n] = EndNode /\ prev'[n] = prev[EndNode] /\ prev'[EndNode] = prev[EndNode]
    BY <1>e, <2>1, <2>2, <2>3 DEF TypeOK
  <2>5. Linked \subseteq Nodes
    BY DEF Linked
  <2> QED
    BY <1>e, <2>2, <2>3, <2>4, <2>5, RingKept
<1>3. ASSUME NEW n \in Nodes, Insert(n) PROVE RingInv'
  <2>1. \A m \in Nodes : life'[m] # "insert"
    BY <1>3 DEF Insert, LockInv, TypeOK
  <2> QED
    BY <1>3, <2>1, RingInsert DEF RingInv
<1>4. ASSUME NEW n \in Nodes, Unlink(n) PROVE RingInv'
  <2>1. \A m \in Nodes : life'[m] # "insert"
    BY <1>4 DEF Unlink, LockInv, TypeOK
  <2> QED
    BY <1>4, <2>1, RingUnlink DEF RingInv
<1>5. ASSUME UNCHANGED nodeVars PROVE RingInv'
  BY <1>e, <1>5, RingKept DEF Linked
<1>6. ASSUME NEW n \in Nodes, LeaveEngine(n) PROVE UNCHANGED nodeVars
  BY <1>6 DEF LeaveEngine
<1>7. MainStep \/ UNCHANGED vars => UNCHANGED nodeVars
  BY DEF MainStep, DisposeProxies, WalkStart, Swap, Step, Destroyed, vars
<1> QED
  BY <1>1, <1>2, <1>3, <1>4, <1>5, <1>6, <1>7 DEF Next, NodeStep, Finished

ListInv == LockInv /\ PhaseInv /\ RingInv

LEMMA ListInvariant == Spec => [](TypeOK /\ ListInv)
<1>1. Init => TypeOK /\ ListInv
  BY TypeInit, LockPhaseInit, RingInit DEF ListInv
<1>2. TypeOK /\ ListInv /\ [Next]_vars => TypeOK' /\ ListInv'
  BY TypeNext, LockPhaseNext, RingNext DEF ListInv
<1> QED
  BY <1>1, <1>2, PTL DEF Spec

(* The linked nodes form one ring, whichever threads insert and delete      *)
(* (aselist.hpp).                                                           *)
THEOREM RingIsIntact == Spec => []RingIntact
  BY ListInvariant, PTL DEF ListInv, RingInv
-----------------------------------------------------------------------------
(* The shared mutex.                                                        *)

Left == {n \in Nodes : life[n] \in {"unlinked", "value", "freed"}}
Gone == {n \in Nodes : life[n] \in {"value", "freed"}}

(* A node that is left alone, its next itself, is the last of the ring, and *)
(* there is one when the ring is empty.                                     *)
LastInv ==
    /\ \A n \in Left : next[n] = n => Linked = {}
    /\ Linked = {} => \E n \in Left : next[n] = n
    /\ \A m, n \in Left : next[m] = m /\ next[n] = n => m = n
    /\ deletes = IF \E n \in Gone : next[n] = n THEN 1 ELSE 0

LEMMA LastInit == Init => LastInv
<1> SUFFICES ASSUME Init PROVE LastInv
  OBVIOUS
<1>1. EndNode \in Linked /\ Left = {} /\ Gone = {} /\ deletes = 0
  BY DEF Init, Linked, Left, Gone, Nodes
<1> QED
  BY <1>1 DEF LastInv

LEMMA LastKept ==
    ASSUME LastInv, UNCHANGED <<Linked, Left, Gone, deletes>>,
           \A n \in Left : next'[n] = next[n]
    PROVE  LastInv'
<1>1. Gone \subseteq Left
  BY DEF Gone, Left
<1> QED
  BY <1>1 DEF LastInv

LEMMA LastInsert ==
    ASSUME TypeOK, PhaseInv, RingInv, LastInv, NEW n \in Nodes, Insert(n)
    PROVE  LastInv'
<1>1. /\ EndNode \in Linked /\ EndNode \in Nodes /\ prev[EndNode] \in Linked
      /\ prev[n] = prev[EndNode]
  BY DEF Insert, RingInv, RingIntact, PhaseInv, Linked, Nodes
<1>2. /\ Linked' = Linked \cup {n} /\ Left' = Left /\ Gone' = Gone /\ deletes' = deletes
  BY DEF Insert, TypeOK, Linked, Left, Gone
<1>3. \A m \in Left : m # prev[n] /\ m \in Nodes
  BY <1>1 DEF Left, Linked
<1>4. \A m \in Left : next'[m] = next[m]
  BY <1>3 DEF Insert, TypeOK
<1>5. Gone \subseteq Left
  BY DEF Gone, Left
<1>6. \A m \in Left : next[m] # m
  BY <1>1 DEF LastInv
<1> QED
  BY <1>2, <1>4, <1>5, <1>6 DEF LastInv

LEMMA LastUnlink ==
    ASSUME TypeOK, RingInv, LastInv, NEW n \in Nodes, Unlink(n)
    PROVE  LastInv'
<1>1. /\ n \in Linked /\ Linked' = Linked \ {n}
      /\ next'[n] = next[n] /\ prev[n] \in Linked
  BY RingUnlink
<1>2. Left' = Left \cup {n} /\ Gone' = Gone /\ deletes' = deletes
  BY DEF Unlink, TypeOK, Left, Gone
<1>3. \A m \in Left : m # prev[n] /\ m \in Nodes
  BY <1>1 DEF Left, Linked
<1>4. \A m \in Left : next'[m] = next[m]
  BY <1>3 DEF Unlink, Unlinked, TypeOK
<1>5. Gone \subseteq Left
  BY DEF Gone, Left
<1>6. \A m \in Left : next[m] # m
  BY <1>1 DEF LastInv
<1>7. next[n] = n <=> Linked \ {n} = {}
  <2>1. next[n] \in Linked
    BY <1>1 DEF RingInv, RingIntact
  <2>2. next[n] = n => Linked = {n}
    BY <1>1, AloneIsAll DEF RingInv
  <2> QED
    BY <2>1, <2>2
<1> QED
  BY <1>1, <1>2, <1>4, <1>5, <1>6, <1>7 DEF LastInv

LEMMA LastDelete ==
    ASSUME TypeOK, LastInv, NEW n \in Nodes, DeleteMutex(n)
    PROVE  LastInv'
<1>1. /\ n \in Left /\ n \notin Gone /\ Left' = Left /\ Linked' = Linked
      /\ Gone' = Gone \cup {n} /\ next' = next
      /\ deletes' = IF next[n] = n THEN deletes + 1 ELSE deletes
  BY DEF DeleteMutex, IsLast, TypeOK, Left, Gone, Linked
<1>2. Gone \subseteq Left
  BY DEF Gone, Left
<1>3. CASE next[n] = n
  <2>1. ~ \E m \in Gone : next[m] = m
    BY <1>1, <1>2, <1>3 DEF LastInv
  <2>2. deletes' = 1
    BY <1>1, <1>3, <2>1 DEF LastInv
  <2> QED
    BY <1>1, <1>3, <2>2 DEF LastInv
<1>4. CASE next[n] # n
  BY <1>1, <1>4 DEF LastInv
<1> QED
  BY <1>3, <1>4

LEMMA LastNext ==
    TypeOK /\ ListInv /\ LastInv /\ [Next]_vars => LastInv'
<1> SUFFICES ASSUME TypeOK, ListInv, LastInv, [Next]_vars PROVE LastInv'
  OBVIOUS
<1> USE DEF nodeVars, valueVars, mainVars
<1>1. ASSUME NEW n \in Nodes, Create(n) \/ Delete(n) \/ UnlinkLock(n) \/ ReleaseValue(n)
      PROVE  LastInv'
  <2>1. UNCHANGED <<next, Linked, Left, Gone, deletes>>
    BY <1>1 DEF Create, Delete, UnlinkLock, ReleaseValue, TypeOK, Linked, Left, Gone
  <2> QED
    BY <2>1, LastKept
<1>2. ASSUME NEW n \in Nodes, InsertLock(n) PROVE LastInv'
  <2>1. UNCHANGED <<Linked, Left, Gone, deletes>> /\ n \notin Left
    BY <1>2 DEF InsertLock, TypeOK, Linked, Left, Gone
  <2>2. \A m \in Left : next'[m] = next[m]
    BY <1>2, <2>1 DEF InsertLock, TypeOK, Left
  <2> QED
    BY <2>1, <2>2, LastKept
<1>3. ASSUME UNCHANGED nodeVars, deletes' = deletes PROVE LastInv'
  BY <1>3, LastKept DEF Linked, Left, Gone
<1>4. ASSUME NEW n \in Nodes, LeaveEngine(n) PROVE UNCHANGED nodeVars /\ deletes' = deletes
  BY <1>4 DEF LeaveEngine
<1>5. MainStep \/ UNCHANGED vars => UNCHANGED nodeVars /\ deletes' = deletes
  BY DEF MainStep, DisposeProxies, WalkStart, Swap, Step, Destroyed, vars
<1> QED
  BY <1>1, <1>2, <1>3, <1>4, <1>5, LastInsert, LastUnlink, LastDelete
     DEF Next, NodeStep, Finished, ListInv

LEMMA LastMeans == TypeOK /\ ListInv /\ LastInv => MutexLifetime
<1> SUFFICES ASSUME TypeOK, ListInv, LastInv PROVE MutexLifetime
  OBVIOUS
<1>e. EndNode \in Nodes
  BY DEF Nodes
<1>1. ASSUME deletes = 1
      PROVE  ring = NoOne /\ \A n \in Nodes : life[n] \in {"none", "unlinked", "value", "freed"}
  <2>1. PICK n \in Gone : next[n] = n
    BY <1>1 DEF LastInv
  <2>2. Linked = {}
    BY <2>1 DEF LastInv, Gone, Left
  <2>3. phase \in {"destroy", "done"}
    BY <1>e, <2>2 DEF ListInv, PhaseInv, Linked
  <2>4. \A m \in Nodes : life[m] \in {"none", "unlinked", "value", "freed"}
    BY <2>2, <2>3 DEF ListInv, PhaseInv, Linked, TypeOK, Life
  <2>5. ring = NoOne
    BY <2>3, <2>4 DEF ListInv, LockInv, Walking, TypeOK
  <2> QED
    BY <2>4, <2>5
<1>2. ASSUME \A n \in Nodes : life[n] \in {"none", "value", "freed"}
      PROVE  deletes = 1
  <2>1. Linked = {} /\ Left = Gone
    BY <1>2 DEF Linked, Left, Gone
  <2> QED
    BY <2>1 DEF LastInv
<1> QED
  BY <1>1, <1>2 DEF MutexLifetime, LastInv

LEMMA LastInvariant == Spec => []LastInv
<1>1. TypeOK /\ ListInv /\ LastInv /\ [Next]_vars => LastInv'
  BY LastNext
<1> QED
  BY <1>1, LastInit, ListInvariant, PTL DEF Spec

(* The shared mutex is deleted once, by the last node that leaves, when no  *)
(* thread holds or waits for it (~ase_list_node).                           *)
THEOREM MutexLives == Spec => []MutexLifetime
  BY LastMeans, LastInvariant, ListInvariant, PTL

-----------------------------------------------------------------------------
(* The variants.                                                            *)

ValueInv ==
    /\ value[EndNode] = "void"
    /\ \A n \in Proxies : value[n] = "none" <=> life[n] = "none"
    /\ out # NoOne => Walking /\ out = cursor /\ value[out] = "void"
    /\ ReleasedOnce

LEMMA ValueInit == Init => ValueInv
  BY NodesAssumption DEF Init, ValueInv, ReleasedOnce, Walking, Nodes

(* Steps that move no node in or out of the ring or among the values.       *)
LEMMA ValueKept ==
    ASSUME ValueInv, UNCHANGED <<value, releases, out, cursor, phase>>,
           Walking => Linked \subseteq Linked',
           \A n \in Proxies : life'[n] = "none" <=> life[n] = "none"
    PROVE  ValueInv'
  BY DEF ValueInv, ReleasedOnce, Walking

LEMMA ValueNext ==
    TypeOK /\ ListInv /\ ValueInv /\ [Next]_vars => ValueInv'
<1> SUFFICES ASSUME TypeOK, ListInv, ValueInv, [Next]_vars PROVE ValueInv'
  OBVIOUS
<1> USE DEF nodeVars, valueVars, mainVars
<1>e. /\ EndNode \in Nodes /\ EndNode \notin Proxies /\ NoOne \notin Nodes
      /\ Proxies \subseteq Nodes /\ Nodes = Proxies \cup {EndNode}
  BY NodesAssumption DEF Nodes
<1>1. ASSUME NEW n \in Nodes, Create(n) PROVE ValueInv'
  <2>1. /\ phase = "run" /\ phase' = phase /\ life[n] = "none" /\ n \in Proxies
        /\ value' = [value EXCEPT ![n] = "held"] /\ life' = [life EXCEPT ![n] = "create"]
        /\ UNCHANGED <<releases, out, cursor>>
    BY <1>1 DEF Create
  <2>2. out = NoOne /\ releases[n] = 0
    BY <2>1 DEF ValueInv, ReleasedOnce, Walking
  <2> QED
    BY <1>e, <2>1, <2>2 DEF ValueInv, ReleasedOnce, Walking, TypeOK
<1>2. ASSUME NEW n \in Nodes, InsertLock(n) \/ Insert(n) \/ LeaveEngine(n) \/ Delete(n)
                              \/ UnlinkLock(n) \/ DeleteMutex(n)
      PROVE  ValueInv'
  <2>1. UNCHANGED <<value, releases, out, cursor, phase>>
    BY <1>2 DEF InsertLock, Insert, LeaveEngine, Delete, UnlinkLock, DeleteMutex
  <2>2. Linked \subseteq Linked'
    BY <1>2 DEF InsertLock, Insert, LeaveEngine, Delete, UnlinkLock, DeleteMutex, Linked, TypeOK
  <2>3. \A m \in Proxies : life'[m] = "none" <=> life[m] = "none"
    BY <1>e, <1>2 DEF InsertLock, Insert, LeaveEngine, Delete, UnlinkLock, DeleteMutex, TypeOK
  <2> QED
    BY <2>1, <2>2, <2>3, ValueKept
<1>3. ASSUME NEW n \in Nodes, Unlink(n) PROVE ValueInv'
  <2>1. ~Walking
    BY <1>3, NodesAssumption DEF Unlink, ListInv, LockInv, Nodes
  <2>2. UNCHANGED <<value, releases, out, cursor, phase>>
    BY <1>3 DEF Unlink
  <2>3. \A m \in Proxies : life'[m] = "none" <=> life[m] = "none"
    BY <1>e, <1>3 DEF Unlink, TypeOK
  <2> QED
    BY <2>1, <2>2, <2>3, ValueKept
<1>4. ASSUME NEW n \in Nodes, ReleaseValue(n) PROVE ValueInv'
  <2>1. /\ life[n] = "value" /\ UNCHANGED <<phase, cursor, out>>
        /\ releases' = [releases EXCEPT ![n] = IF value[n] = "held" THEN @ + 1 ELSE @]
        /\ value' = [value EXCEPT ![n] = "void"]
        /\ life' = [life EXCEPT ![n] = "freed"]
    BY <1>4 DEF ReleaseValue
  <2>2. n \notin Linked /\ Linked' = Linked
    BY <2>1 DEF Linked, TypeOK
  <2>3. out # n
    BY <2>2, <1>e DEF ValueInv, ReleasedOnce
  <2>4. n \in Proxies => value[n] \in {"held", "void"}
    BY <2>1 DEF ValueInv, TypeOK
  <2>5. n \in Proxies => releases'[n] = 1
    BY <1>e, <2>1, <2>3, <2>4 DEF ValueInv, ReleasedOnce, TypeOK
  <2>6. \A m \in Nodes : m # n => releases'[m] = releases[m] /\ value'[m] = value[m]
                                  /\ life'[m] = life[m]
    BY <2>1 DEF TypeOK
  <2>7. value'[n] = "void" /\ life'[n] = "freed"
    BY <2>1 DEF TypeOK
  <2>8. ReleasedOnce'
    BY <1>e, <2>1, <2>2, <2>3, <2>5, <2>6, <2>7 DEF ValueInv, ReleasedOnce, Walking
  <2> QED
    BY <1>e, <2>1, <2>2, <2>3, <2>4, <2>6, <2>7, <2>8 DEF ValueInv, ReleasedOnce, Walking, Linked
<1>5. CASE DisposeProxies \/ Destroyed
  <2>1. UNCHANGED <<value, releases, out, cursor, life>> /\ ~Walking /\ ~Walking'
    BY <1>5 DEF DisposeProxies, Destroyed, Walking
  <2> QED
    BY <2>1 DEF ValueInv, ReleasedOnce
<1>6. CASE WalkStart
  <2>1. /\ UNCHANGED <<value, releases, out, life>> /\ ~Walking /\ cursor' = EndNode
        /\ phase \in {"dispose", "cleanup"}
    BY <1>6 DEF WalkStart, Walking
  <2>2. EndNode \in Linked /\ Linked' = Linked
    BY <1>e, <2>1 DEF ListInv, PhaseInv, Linked
  <2> QED
    BY <2>1, <2>2 DEF ValueInv, ReleasedOnce
<1>7. CASE Swap
  <2>1. /\ Walking /\ Walking' /\ UNCHANGED <<life, releases, cursor>>
        /\ out = NoOne /\ out' = cursor /\ value[cursor] = "held"
        /\ value' = [value EXCEPT ![cursor] = "void"] /\ cursor \in Nodes
    BY <1>7 DEF Swap, Swapped, Walking, TypeOK
  <2>2. cursor \in Proxies /\ releases[cursor] = 0 /\ Linked' = Linked /\ cursor \in Linked
    BY <1>e, <2>1 DEF ValueInv, ReleasedOnce, Linked
  <2>3. \A m \in Nodes : value'[m] = IF m = cursor THEN "void" ELSE value[m]
    BY <2>1 DEF TypeOK
  <2> QED
    BY <1>e, <2>1, <2>2, <2>3 DEF ValueInv, ReleasedOnce
<1>8. CASE Step
  <2>1. /\ Walking /\ UNCHANGED <<life, value, next, prev>> /\ out' = NoOne
        /\ cursor' = next[cursor] /\ Linked' = Linked
        /\ \A m \in Nodes : releases'[m] = IF m = out THEN releases[m] + 1 ELSE releases[m]
    BY <1>8 DEF Step, Walking, Linked
  <2>2. cursor' \in Linked
    BY <2>1 DEF ValueInv, ReleasedOnce, ListInv, RingInv, RingIntact
  <2>3. \A m \in Proxies : releases'[m] = IF value[m] = "void" THEN 1 ELSE 0
    BY <1>e, <2>1 DEF ValueInv, ReleasedOnce
  <2> QED
    BY <1>e, <2>1, <2>2, <2>3 DEF ValueInv, ReleasedOnce
<1>9. CASE UNCHANGED vars
  BY <1>9, ValueKept DEF vars, Linked
<1> QED
  BY <1>1, <1>2, <1>3, <1>4, <1>5, <1>6, <1>7, <1>8, <1>9
     DEF Next, NodeStep, MainStep, Finished

LEMMA ValueInvariant == Spec => []ValueInv
<1>1. TypeOK /\ ListInv /\ ValueInv /\ [Next]_vars => ValueInv'
  BY ValueNext
<1> QED
  BY <1>1, ValueInit, ListInvariant, PTL DEF Spec

(* A finalizer and dispose_proxies release each variant once between them,  *)
(* and the walk visits no node that is leaving (dispose_variant).           *)
THEOREM EachReleasedOnce == Spec => []ReleasedOnce
  BY ValueInvariant, PTL DEF ValueInv

-----------------------------------------------------------------------------
(* What the walk leaves behind.                                             *)

(* V are nodes the walk has visited: from EndNode up to the cursor.         *)
Visited(V) ==
    /\ \A n \in V : value[n] = "void" /\ (next[n] \in V \/ next[n] = cursor)
    /\ EndNode \in V \/ cursor = EndNode

WalkInv ==
    /\ phase = "walk" => \E V \in SUBSET Linked : Visited(V)
    /\ DisposedEmpty

LEMMA WalkInit == Init => WalkInv
  BY DEF Init, WalkInv, DisposedEmpty

(* Once the threads are gone, steps that only let nodes leave.              *)
LEMMA WalkKept ==
    ASSUME WalkInv, UNCHANGED <<phase, cursor>>, phase # "run" => Linked' \subseteq Linked,
           phase = "walk" => Linked' = Linked /\ \A n \in Linked : next'[n] = next[n],
           phase # "run" => \A n \in Linked : value[n] = "void" => value'[n] = "void"
    PROVE  WalkInv'
<1>1. ASSUME phase = "walk" PROVE \E V \in SUBSET Linked' : Visited(V)'
  <2>1. PICK V \in SUBSET Linked : Visited(V)
    BY <1>1 DEF WalkInv
  <2>2. Visited(V)'
    BY <1>1, <2>1 DEF Visited
  <2> QED
    BY <1>1, <2>1, <2>2
<1>2. DisposedEmpty'
  BY DEF WalkInv, DisposedEmpty
<1> QED
  BY <1>1, <1>2 DEF WalkInv

LEMMA WalkStep ==
    ASSUME TypeOK, ListInv, ValueInv, WalkInv, Step
    PROVE  WalkInv'
<1>1. /\ Walking /\ UNCHANGED <<life, value, next, prev>>
      /\ out = NoOne => value[cursor] # "held"
      /\ cursor' = next[cursor] /\ Linked' = Linked
      /\ next[cursor] # EndNode => phase' = phase
      /\ next[cursor] = EndNode => phase' = IF phase = "walk" THEN "cleanup" ELSE "destroy"
  BY DEF Step, Walking, Linked, nodeVars
<1>2. cursor \in Linked /\ cursor \in Nodes
  BY <1>1 DEF ValueInv, ReleasedOnce, Linked
<1>3. value[cursor] = "void"
  <2>1. value[cursor] # "none"
    BY <1>2 DEF ValueInv, Linked, Nodes
  <2> QED
    BY <1>1, <1>2, <2>1 DEF ValueInv, TypeOK
<1>4. CASE phase = "walk"
  <2>1. PICK V \in SUBSET Linked : Visited(V)
    BY <1>4 DEF WalkInv
  <2>w. PICK W \in SUBSET Linked : W = V \cup {cursor}
    BY <1>2
  <2>2. W # {} /\ EndNode \in W /\ \A n \in W : value[n] = "void"
    BY <1>2, <1>3, <2>1, <2>w DEF Visited
  <2>3. \A n \in W : next[n] \in W \/ next[n] = next[cursor]
    BY <2>1, <2>w DEF Visited
  <2>4. CASE next[cursor] # EndNode
    <3>1. Visited(W)'
      BY <1>1, <2>2, <2>3 DEF Visited
    <3> QED
      BY <1>1, <1>4, <2>2, <2>4, <3>1 DEF WalkInv, DisposedEmpty
  <2>5. CASE next[cursor] = EndNode
    <3>1. \A n \in W : next[n] \in W
      BY <2>2, <2>3, <2>5
    <3>2. W = Linked
      BY <2>2, <3>1 DEF ListInv, RingInv, RingIntact
    <3> QED
      BY <1>1, <1>4, <2>2, <2>5, <3>2 DEF WalkInv, DisposedEmpty
  <2> QED
    BY <2>4, <2>5
<1>5. CASE phase = "rewalk"
  BY <1>1, <1>5 DEF WalkInv, DisposedEmpty
<1> QED
  BY <1>1, <1>4, <1>5 DEF Walking

LEMMA WalkNext ==
    TypeOK /\ ListInv /\ ValueInv /\ WalkInv /\ [Next]_vars => WalkInv'
<1> SUFFICES ASSUME TypeOK, ListInv, ValueInv, WalkInv, [Next]_vars PROVE WalkInv'
  OBVIOUS
<1> USE DEF nodeVars, valueVars, mainVars
<1>1. ASSUME NEW n \in Nodes, Create(n) \/ InsertLock(n) \/ Insert(n) PROVE WalkInv'
  <2>1. phase = "run" /\ UNCHANGED <<phase, cursor>>
    BY <1>1 DEF Create, InsertLock, Insert, ListInv, PhaseInv
  <2> QED
    BY <2>1, WalkKept
<1>2. ASSUME NEW n \in Nodes, LeaveEngine(n) \/ Delete(n) \/ UnlinkLock(n) \/ DeleteMutex(n)
                              \/ ReleaseValue(n)
      PROVE  WalkInv'
  <2>1. UNCHANGED <<phase, cursor, next>> /\ Linked' = Linked
    <3>1. CASE LeaveEngine(n)
      BY <3>1 DEF LeaveEngine, Linked
    <3>2. CASE Delete(n) \/ UnlinkLock(n)
      BY <3>2 DEF Delete, UnlinkLock, Linked, TypeOK
    <3>3. CASE DeleteMutex(n) \/ ReleaseValue(n)
      BY <3>3 DEF DeleteMutex, ReleaseValue, Linked, TypeOK
    <3> QED
      BY <1>2, <3>1, <3>2, <3>3
  <2>2. \A m \in Nodes : value[m] = "void" => value'[m] = "void"
    <3>1. value' = value \/ value' = [value EXCEPT ![n] = "void"]
      BY <1>2 DEF LeaveEngine, Delete, UnlinkLock, DeleteMutex, ReleaseValue
    <3> QED
      BY <3>1 DEF TypeOK
  <2> QED
    BY <2>1, <2>2, WalkKept DEF Linked
<1>3. ASSUME NEW n \in Nodes, Unlink(n) PROVE WalkInv'
  <2>1. phase # "walk"
    BY <1>3, NodesAssumption DEF Unlink, ListInv, LockInv, Walking, Nodes
  <2>2. UNCHANGED <<phase, cursor, value>> /\ Linked' \subseteq Linked
    BY <1>3 DEF Unlink, Linked, TypeOK
  <2> QED
    BY <2>1, <2>2, WalkKept
<1>4. CASE DisposeProxies
  BY <1>4 DEF DisposeProxies, WalkInv, DisposedEmpty
<1>5. CASE WalkStart
  <2>1. CASE phase = "dispose"
    <3>1. Visited({})'
      BY <1>5 DEF WalkStart, Visited
    <3>2. phase' = "walk"
      BY <1>5, <2>1 DEF WalkStart
    <3> QED
      BY <3>1, <3>2 DEF WalkInv, DisposedEmpty
  <2>2. CASE phase = "cleanup"
    <3>1. phase' = "rewalk" /\ value' = value /\ Linked' = Linked
      BY <1>5, <2>2 DEF WalkStart, Linked
    <3> QED
      BY <2>2, <3>1 DEF WalkInv, DisposedEmpty
  <2> QED
    BY <1>5, <2>1, <2>2 DEF WalkStart
<1>6. CASE Swap
  <2>1. UNCHANGED <<phase, cursor, next>> /\ Linked' = Linked
    BY <1>6 DEF Swap, Linked
  <2>2. \A m \in Nodes : value[m] = "void" => value'[m] = "void"
    BY <1>6 DEF Swap, Swapped, TypeOK
  <2> QED
    BY <2>1, <2>2, WalkKept DEF Linked
<1>7. CASE Destroyed
  BY <1>7 DEF Destroyed, WalkInv, DisposedEmpty, Linked
<1>8. CASE UNCHANGED vars
  BY <1>8, WalkKept DEF vars, Linked
<1> QED
  BY <1>1, <1>2, <1>3, <1>4, <1>5, <1>6, <1>7, <1>8, WalkStep
     DEF Next, NodeStep, MainStep, Finished

(* After dispose_proxies the ring holds no object of another engine, also   *)
(* if Java's finalizers delete nodes while it runs (asejni_sctx.cpp).       *)
THEOREM DisposedIsEmpty == Spec => []DisposedEmpty
<1>1. TypeOK /\ ListInv /\ ValueInv /\ WalkInv /\ [Next]_vars => WalkInv'
  BY WalkNext
<1>2. WalkInv => DisposedEmpty
  BY DEF WalkInv
<1> QED
  BY <1>1, <1>2, WalkInit, ValueInvariant, ListInvariant, PTL DEF Spec
=============================================================================
