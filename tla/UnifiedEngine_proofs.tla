-------------------------- MODULE UnifiedEngine_proofs --------------------------
(***************************************************************************)
(* Proofs about UnifiedEngine, for any number of threads, engines, calls   *)
(* and nested guards; and, last, about CcLoader, the loader of C++ source  *)
(* through which threads of the engine import a file.                      *)
(***************************************************************************)
EXTENDS UnifiedEngine, CcLoader, FiniteSetTheorems, SequenceTheorems, TLAPS

-----------------------------------------------------------------------------
(* Frames, stacks and the locks they hold.                                  *)

(* What a frame adds to the locks held.                                     *)
Weight(f) == (IF f.locked THEN 1 ELSE 0) - (IF f.unlocked THEN 1 ELSE 0)

Front(s) == SubSeq(s, 1, Len(s) - 1)

LEMMA NewFrameType ==
    ASSUME NEW k \in Guards \cup {"out"}, NEW e \in Engines
    PROVE  /\ NewFrame(k, e) \in Frame
           /\ NewFrame(k, e).kind = k
           /\ NewFrame(k, e).eng = e
           /\ NewFrame(k, e).locked = FALSE
           /\ NewFrame(k, e).unlocked = FALSE
  BY DEF NewFrame, Frame

LEMMA HeldFinite ==
    ASSUME NEW s \in Seq(Frame)
    PROVE  /\ IsFiniteSet(LockedIn(s)) /\ IsFiniteSet(UnlockedIn(s))
           /\ Cardinality(LockedIn(s)) \in Nat /\ Cardinality(UnlockedIn(s)) \in Nat
           /\ HeldIn(s) \in Int
<1>1. IsFiniteSet(1 .. Len(s))
  BY FS_Interval, LenProperties
<1>2. LockedIn(s) \in SUBSET (1 .. Len(s)) /\ UnlockedIn(s) \in SUBSET (1 .. Len(s))
  BY DEF LockedIn, UnlockedIn
<1>3. IsFiniteSet(LockedIn(s)) /\ IsFiniteSet(UnlockedIn(s))
  BY <1>1, <1>2, FS_Subset
<1>4. Cardinality(LockedIn(s)) \in Nat /\ Cardinality(UnlockedIn(s)) \in Nat
  BY <1>3, FS_CardinalityType
<1> QED
  BY <1>3, <1>4 DEF HeldIn

LEMMA HeldEmpty == HeldIn(<<>>) = 0
<1>1. LockedIn(<<>>) = {} /\ UnlockedIn(<<>>) = {}
  BY DEF LockedIn, UnlockedIn
<1>2. Cardinality({}) = 0
  BY FS_EmptySet
<1>3. HeldIn(<<>>) = Cardinality({}) - Cardinality({})
  BY <1>1 DEF HeldIn
<1> QED
  BY <1>2, <1>3

(* What may have to be locked again is what was unlocked before, and f.     *)
LEMMA UnlockedAppend ==
    ASSUME NEW s \in Seq(Frame), NEW f \in Frame
    PROVE  UnlockedIn(Append(s, f)) =
             IF f.unlocked THEN UnlockedIn(s) \cup {Len(s) + 1} ELSE UnlockedIn(s)
<1> DEFINE a == Append(s, f)
<1>1. /\ Len(s) \in Nat /\ Len(a) = Len(s) + 1
      /\ \A i \in 1 .. Len(s) : a[i] = s[i]
      /\ a[Len(s) + 1] = f
  BY AppendProperties, LenProperties
<1> HIDE DEF a
<1>2. \A i \in 1 .. Len(s) + 1 : i \in 1 .. Len(s) \/ i = Len(s) + 1
  BY <1>1
<1>3. UnlockedIn(a) = IF f.unlocked THEN UnlockedIn(s) \cup {Len(s) + 1} ELSE UnlockedIn(s)
  BY <1>1, <1>2 DEF UnlockedIn
<1> QED
  BY <1>3 DEF a

LEMMA HeldAppend ==
    ASSUME NEW s \in Seq(Frame), NEW f \in Frame
    PROVE  HeldIn(Append(s, f)) = HeldIn(s) + Weight(f)
<1> DEFINE n == Len(s)
           a == Append(s, f)
<1>0. /\ n \in Nat
      /\ a \in Seq(Frame) /\ Len(a) = n + 1
      /\ \A i \in 1 .. n : a[i] = s[i]
      /\ a[n + 1] = f
  BY AppendProperties, LenProperties
<1> HIDE DEF a
<1> HIDE DEF n
<1>r. n = Len(s)
  BY DEF n
<1>1. LockedIn(a) = IF f.locked THEN LockedIn(s) \cup {n + 1} ELSE LockedIn(s)
  <2>1. \A i \in 1 .. n + 1 : i \in 1 .. n \/ i = n + 1
    BY <1>0
  <2> QED
    BY <1>0, <1>r, <2>1 DEF LockedIn
<1>2. UnlockedIn(a) = IF f.unlocked THEN UnlockedIn(s) \cup {n + 1} ELSE UnlockedIn(s)
  BY <1>r, UnlockedAppend DEF a
<1>3. n + 1 \notin LockedIn(s) /\ n + 1 \notin UnlockedIn(s)
  BY <1>0, <1>r DEF LockedIn, UnlockedIn
<1>4. Cardinality(LockedIn(a)) = Cardinality(LockedIn(s)) + (IF f.locked THEN 1 ELSE 0)
  <2>1. IsFiniteSet(LockedIn(s)) /\ Cardinality(LockedIn(s)) \in Nat
    BY HeldFinite
  <2>2. Cardinality(LockedIn(s) \cup {n + 1}) = Cardinality(LockedIn(s)) + 1
    BY <1>3, <2>1, FS_AddElement
  <2> QED
    BY <1>1, <2>1, <2>2
<1>5. Cardinality(UnlockedIn(a)) = Cardinality(UnlockedIn(s)) + (IF f.unlocked THEN 1 ELSE 0)
  <2>1. IsFiniteSet(UnlockedIn(s)) /\ Cardinality(UnlockedIn(s)) \in Nat
    BY HeldFinite
  <2>2. Cardinality(UnlockedIn(s) \cup {n + 1}) = Cardinality(UnlockedIn(s)) + 1
    BY <1>3, <2>1, FS_AddElement
  <2> QED
    BY <1>2, <2>1, <2>2
<1>6. HeldIn(a) = HeldIn(s) + Weight(f)
  <2> DEFINE l == Cardinality(LockedIn(s))
             u == Cardinality(UnlockedIn(s))
  <2>1. l \in Nat /\ u \in Nat
    BY HeldFinite
  <2>2. HeldIn(a) = (l + (IF f.locked THEN 1 ELSE 0)) - (u + (IF f.unlocked THEN 1 ELSE 0))
    BY <1>4, <1>5 DEF HeldIn
  <2>3. HeldIn(s) = l - u
    BY DEF HeldIn
  <2> HIDE DEF l, u
  <2> QED
    BY <2>1, <2>2, <2>3 DEF Weight
<1> QED
  BY <1>6 DEF a

(* A stack is its front and its top.                                        *)
LEMMA FrontTop ==
    ASSUME NEW s \in Seq(Frame), s # <<>>
    PROVE  /\ Len(s) \in Nat \ {0}
           /\ Front(s) \in Seq(Frame) /\ Len(Front(s)) = Len(s) - 1
           /\ \A i \in 1 .. Len(s) - 1 : Front(s)[i] = s[i]
           /\ s[Len(s)] \in Frame
           /\ s = Append(Front(s), s[Len(s)])
<1>1. Len(s) \in Nat \ {0}
  BY EmptySeq, LenProperties
<1>2. s[Len(s)] \in Frame
  BY <1>1, ElementOfSeq
<1>3. /\ Front(s) \in Seq(Frame) /\ Len(Front(s)) = Len(s) - 1
      /\ \A i \in 1 .. Len(s) - 1 : Front(s)[i] = s[i]
  <2>1. ASSUME NEW m \in Nat, \A i \in 1 .. m : s[i] \in Frame
        PROVE  /\ SubSeq(s, 1, m) \in Seq(Frame)
               /\ Len(SubSeq(s, 1, m)) = m
               /\ \A i \in 1 .. m : SubSeq(s, 1, m)[i] = s[i]
    <3>1. m - 1 + 1 = m /\ \A i \in 1 .. m : 1 + i - 1 = i
      BY <2>1
    <3> QED
      BY <2>1, <3>1, SubSeqProperties
  <2>2. Len(s) - 1 \in Nat /\ \A i \in 1 .. Len(s) - 1 : s[i] \in Frame
    BY <1>1, ElementOfSeq
  <2> QED
    BY <2>1, <2>2 DEF Front
<1>4. s = Append(Front(s), s[Len(s)])
  <2> DEFINE a == Append(Front(s), s[Len(s)])
  <2>1. a \in Seq(Frame) /\ Len(a) = Len(s)
    BY <1>1, <1>2, <1>3, AppendProperties
  <2>2. \A i \in 1 .. Len(s) : a[i] = s[i]
    BY <1>1, <1>2, <1>3, AppendProperties
  <2>3. \A i \in 1 .. Len(a) : a[i] = s[i]
    BY <2>1, <2>2
  <2>4. a = s
    <3> HIDE DEF a
    <3> QED
      BY <2>1, <2>3, SeqEqual, Zenon
  <2> QED
    BY <2>4, Zenon
<1> QED
  BY <1>1, <1>2, <1>3, <1>4

LEMMA HeldFront ==
    ASSUME NEW s \in Seq(Frame), s # <<>>
    PROVE  HeldIn(Front(s)) = HeldIn(s) - Weight(s[Len(s)])
<1>1. HeldIn(s) = HeldIn(Front(s)) + Weight(s[Len(s)])
  BY FrontTop, HeldAppend
<1>2. HeldIn(Front(s)) \in Int
  BY FrontTop, HeldFinite
<1>3. Weight(s[Len(s)]) \in Int
  BY DEF Weight
<1> QED
  BY <1>1, <1>2, <1>3

(* Replacing the top changes the locks held by the difference of weights.   *)
LEMMA ReplaceTop ==
    ASSUME NEW s \in Seq(Frame), s # <<>>, NEW f \in Frame
    PROVE  /\ [s EXCEPT ![Len(s)] = f] = Append(Front(s), f)
           /\ [s EXCEPT ![Len(s)] = f] \in Seq(Frame)
           /\ HeldIn([s EXCEPT ![Len(s)] = f]) = HeldIn(s) - Weight(s[Len(s)]) + Weight(f)
<1> DEFINE r == [s EXCEPT ![Len(s)] = f]
           a == Append(Front(s), f)
<1>1. r \in Seq(Frame) /\ Len(r) = Len(s) /\ \A i \in 1 .. Len(s) : r[i] = IF i = Len(s) THEN f ELSE s[i]
  BY FrontTop, ExceptSeq
<1>2. a \in Seq(Frame) /\ Len(a) = Len(s)
  BY FrontTop, AppendProperties
<1>3. \A i \in 1 .. Len(s) : a[i] = IF i = Len(s) THEN f ELSE s[i]
  BY FrontTop, AppendProperties
<1>4. r = a
  <2>1. Len(r) = Len(a) /\ \A i \in 1 .. Len(r) : r[i] = a[i]
    BY <1>1, <1>2, <1>3
  <2> HIDE DEF r, a
  <2> QED
    BY <1>1, <1>2, <2>1, SeqEqual, Zenon
<1>5. HeldIn(a) = HeldIn(s) - Weight(s[Len(s)]) + Weight(f)
  <2>1. HeldIn(a) = HeldIn(Front(s)) + Weight(f)
    BY FrontTop, HeldAppend
  <2> QED
    BY <2>1, HeldFront
<1> QED
  BY <1>1, <1>4, <1>5

(* Popping a frame more.                                                    *)
LEMMA FrontOfSubSeq ==
    ASSUME NEW s \in Seq(Frame), NEW n \in Nat, n < Len(s)
    PROVE  /\ SubSeq(s, 1, Len(s) - n) \in Seq(Frame)
           /\ SubSeq(s, 1, Len(s) - n) # <<>>
           /\ Len(SubSeq(s, 1, Len(s) - n)) = Len(s) - n
           /\ \A i \in 1 .. Len(s) - n : SubSeq(s, 1, Len(s) - n)[i] = s[i]
           /\ SubSeq(s, 1, Len(s) - (n + 1)) = Front(SubSeq(s, 1, Len(s) - n))
<1>1. ASSUME NEW m \in Nat, m <= Len(s)
      PROVE  /\ SubSeq(s, 1, m) \in Seq(Frame)
             /\ Len(SubSeq(s, 1, m)) = m
             /\ \A i \in 1 .. m : SubSeq(s, 1, m)[i] = s[i]
  <2>1. Len(s) \in Nat /\ \A i \in 1 .. m : s[i] \in Frame
    BY <1>1, LenProperties, ElementOfSeq
  <2>2. m - 1 + 1 = m /\ \A i \in 1 .. m : 1 + i - 1 = i
    BY <1>1
  <2> QED
    BY <2>1, <2>2, SubSeqProperties
<1>2. Len(s) \in Nat /\ Len(s) - n \in Nat /\ Len(s) - n <= Len(s) /\ Len(s) - n > 0
  BY LenProperties
<1>3. Len(s) - (n + 1) \in Nat /\ Len(s) - (n + 1) <= Len(s) /\ Len(s) - (n + 1) = (Len(s) - n) - 1
  BY <1>2
<1> DEFINE q == SubSeq(s, 1, Len(s) - n)
           r == SubSeq(s, 1, Len(s) - (n + 1))
<1>4. /\ q \in Seq(Frame) /\ Len(q) = Len(s) - n
      /\ \A i \in 1 .. Len(s) - n : q[i] = s[i]
  BY <1>1, <1>2
<1>5. /\ r \in Seq(Frame) /\ Len(r) = Len(s) - (n + 1)
      /\ \A i \in 1 .. Len(s) - (n + 1) : r[i] = s[i]
  BY <1>1, <1>3
<1> HIDE DEF q, r
<1>6. q # <<>>
  BY <1>2, <1>4, EmptySeq
<1>7. /\ Front(q) \in Seq(Frame) /\ Len(Front(q)) = Len(q) - 1
      /\ \A i \in 1 .. Len(q) - 1 : Front(q)[i] = q[i]
  BY <1>4, <1>6, FrontTop
<1>8. r = Front(q)
  <2>1. Len(r) = Len(Front(q)) /\ \A i \in 1 .. Len(r) : r[i] = Front(q)[i]
    BY <1>2, <1>3, <1>4, <1>5, <1>7
  <2> QED
    BY <1>5, <1>7, <2>1, SeqEqual, Zenon
<1> QED
  BY <1>4, <1>6, <1>8 DEF q, r

(***************************************************************************)
(* The shape of a stack: only the top may be a guard that still waits for  *)
(* the mutex; code called by Lua runs above Lua code; get_real_engine is   *)
(* called by a load or a use of a global.                                  *)
(***************************************************************************)
FrameShape(f) == IF f.kind = "out" THEN ~f.locked ELSE ~f.unlocked

Bottom(f) == f.kind \notin {"out", "get", "delayload"}

SitsOn(f, g) ==
    /\ g.kind # "out" => g.locked
    /\ f.kind = "out" => g.kind = "lua"
    /\ f.kind = "get" => g.kind \in {"load", "use"}
    /\ f.kind = "delayload" => g.kind = "load"

ShapeOf(s) == \A i \in 1 .. Len(s) :
    /\ FrameShape(s[i])
    /\ IF i = 1 THEN Bottom(s[i]) ELSE SitsOn(s[i], s[i - 1])

LEMMA ShapeEmpty == ShapeOf(<<>>)
  BY DEF ShapeOf

LEMMA ShapePush ==
    ASSUME NEW s \in Seq(Frame), ShapeOf(s), NEW f \in Frame, FrameShape(f),
           IF s = <<>> THEN Bottom(f) ELSE SitsOn(f, s[Len(s)])
    PROVE  ShapeOf(Append(s, f))
<1> DEFINE a == Append(s, f)
<1>1. /\ Len(s) \in Nat /\ Len(a) = Len(s) + 1
      /\ \A i \in 1 .. Len(s) : a[i] = s[i]
      /\ a[Len(s) + 1] = f
  BY AppendProperties, LenProperties
<1>2. s = <<>> <=> Len(s) = 0
  BY EmptySeq
<1> HIDE DEF a
<1>3. SUFFICES ASSUME NEW i \in 1 .. Len(a)
               PROVE  /\ FrameShape(a[i])
                      /\ IF i = 1 THEN Bottom(a[i]) ELSE SitsOn(a[i], a[i - 1])
  BY DEF ShapeOf, a
<1>4. CASE i \in 1 .. Len(s)
  <2>1. a[i] = s[i] /\ (i # 1 => i - 1 \in 1 .. Len(s) /\ a[i - 1] = s[i - 1])
    BY <1>1, <1>4
  <2> QED
    BY <1>4, <2>1 DEF ShapeOf
<1>5. CASE i = Len(s) + 1
  <2>1. a[i] = f /\ (i # 1 => s # <<>> /\ i - 1 = Len(s) /\ a[i - 1] = s[Len(s)])
    BY <1>1, <1>2, <1>5
  <2>2. i = 1 => s = <<>>
    BY <1>1, <1>2, <1>5
  <2> QED
    BY <2>1, <2>2
<1> QED
  BY <1>1, <1>4, <1>5

LEMMA ShapeFront ==
    ASSUME NEW s \in Seq(Frame), s # <<>>, ShapeOf(s)
    PROVE  /\ ShapeOf(Front(s))
           /\ FrameShape(s[Len(s)])
           /\ IF Len(s) = 1 THEN Bottom(s[Len(s)]) /\ Front(s) = <<>>
              ELSE /\ SitsOn(s[Len(s)], s[Len(s) - 1])
                   /\ Front(s) # <<>>
                   /\ Front(s)[Len(Front(s))] = s[Len(s) - 1]
<1>1. /\ Len(s) \in Nat \ {0}
      /\ Front(s) \in Seq(Frame) /\ Len(Front(s)) = Len(s) - 1
      /\ \A i \in 1 .. Len(s) - 1 : Front(s)[i] = s[i]
  BY FrontTop
<1>2. Front(s) = <<>> <=> Len(s) - 1 = 0
  BY <1>1, EmptySeq
<1>3. ShapeOf(Front(s))
  <2>1. \A i \in 1 .. Len(s) - 1 : i \in 1 .. Len(s) /\ (i # 1 => i - 1 \in 1 .. Len(s) - 1)
    BY <1>1
  <2> QED
    BY <1>1, <2>1 DEF ShapeOf
<1>4. /\ FrameShape(s[Len(s)])
      /\ IF Len(s) = 1 THEN Bottom(s[Len(s)]) ELSE SitsOn(s[Len(s)], s[Len(s) - 1])
  BY <1>1 DEF ShapeOf
<1>5. Len(s) # 1 => Front(s)[Len(Front(s))] = s[Len(s) - 1]
  BY <1>1
<1> QED
  BY <1>1, <1>2, <1>3, <1>4, <1>5

(* A stack never gives back a lock it does not hold: below each call that   *)
(* unlocked the mutex there is a locked guard of its own.                   *)
LEMMA HeldNonNegative ==
    ASSUME NEW s \in Seq(Frame), ShapeOf(s)
    PROVE  HeldIn(s) \in Nat
<1> DEFINE below == [i \in UnlockedIn(s) |-> i - 1]
<1>1. ASSUME NEW i \in UnlockedIn(s)
      PROVE  i \in Int /\ i - 1 \in LockedIn(s)
  <2>1. i \in 1 .. Len(s) /\ s[i].unlocked /\ Len(s) \in Nat
    BY LenProperties DEF UnlockedIn
  <2>2. s[i].kind = "out"
    BY <2>1 DEF ShapeOf, FrameShape
  <2>3. i # 1 /\ SitsOn(s[i], s[i - 1])
    BY <2>1, <2>2 DEF ShapeOf, Bottom
  <2>4. s[i - 1].kind = "lua" /\ s[i - 1].locked
    BY <2>2, <2>3 DEF SitsOn
  <2> QED
    BY <2>1, <2>3, <2>4 DEF LockedIn
<1>2. below \in Injection(UnlockedIn(s), LockedIn(s))
  <2>1. below \in [UnlockedIn(s) -> LockedIn(s)]
    BY <1>1
  <2>2. \A i, j \in UnlockedIn(s) : below[i] = below[j] => i = j
    BY <1>1
  <2> QED
    BY <2>1, <2>2 DEF Injection, IsInjective
<1> HIDE DEF below
<1>3. Cardinality(UnlockedIn(s)) <= Cardinality(LockedIn(s))
  BY <1>2, HeldFinite, FS_Injection
<1> QED
  BY <1>3, HeldFinite DEF HeldIn

-----------------------------------------------------------------------------
(* The invariant of the mutex, and the ways a step may change it.           *)

Shape == \A t \in AllThreads : ShapeOf(stack[t])

MutexType == mutex \in [owner : AllThreads \cup {NoThread}, depth : Nat]
StackType == stack \in [AllThreads -> Seq(Frame)]

LockInv == MutexType /\ StackType /\ Shape /\ LockExact

(* A thread that is inside a guard owns the mutex.                          *)
LEMMA InsideOwns ==
    ASSUME LockInv, NEW t \in AllThreads, stack[t] # <<>>, Top(t).kind # "out", Top(t).locked
    PROVE  /\ mutex.owner = t
           /\ mutex.depth = HeldIn(stack[t])
           /\ Weight(Top(t)) = 1
<1>1. stack[t] \in Seq(Frame) /\ ShapeOf(stack[t])
  BY DEF LockInv, StackType, Shape
<1>2. FrameShape(Top(t)) /\ ShapeOf(Front(stack[t])) /\ Front(stack[t]) \in Seq(Frame)
  BY <1>1, ShapeFront, FrontTop DEF Top, Height
<1>3. Weight(Top(t)) = 1
  BY <1>2 DEF FrameShape, Weight
<1>4. HeldIn(Front(stack[t])) = HeldIn(stack[t]) - 1
  BY <1>1, <1>3, HeldFront DEF Top, Height
<1>5. HeldIn(Front(stack[t])) \in Nat /\ HeldIn(stack[t]) \in Int
  BY <1>1, <1>2, HeldNonNegative, HeldFinite
<1>6. HeldIn(stack[t]) # 0
  BY <1>4, <1>5
<1>7. HeldIn(stack[t]) = IF mutex.owner = t THEN mutex.depth ELSE 0
  BY DEF LockInv, LockExact
<1> QED
  BY <1>3, <1>6, <1>7

(* A step of t that leaves the mutex alone, and the locks t holds.          *)
LEMMA KeepStep ==
    ASSUME LockInv, NEW t \in AllThreads, NEW s \in Seq(Frame), ShapeOf(s),
           HeldIn(s) = HeldIn(stack[t]),
           stack' = [stack EXCEPT ![t] = s], mutex' = mutex
    PROVE  LockInv'
<1>1. StackType' /\ MutexType'
  BY DEF LockInv, StackType, MutexType
<1>2. \A u \in AllThreads : stack'[u] = IF u = t THEN s ELSE stack[u]
  BY DEF LockInv, StackType
<1>3. Shape'
  BY <1>2 DEF LockInv, Shape
<1>4. LockExact'
  BY <1>2 DEF LockInv, LockExact
<1> QED
  BY <1>1, <1>3, <1>4 DEF LockInv

(* A step of t that locks the mutex once and holds one lock more.           *)
LEMMA LockStep ==
    ASSUME LockInv, NEW t \in AllThreads, NEW s \in Seq(Frame), ShapeOf(s),
           HeldIn(s) = HeldIn(stack[t]) + 1,
           stack' = [stack EXCEPT ![t] = s], Free(t), Lock(t)
    PROVE  LockInv'
<1>1. StackType' /\ MutexType'
  BY DEF LockInv, StackType, MutexType, Lock
<1>2. \A u \in AllThreads : stack'[u] = IF u = t THEN s ELSE stack[u]
  BY DEF LockInv, StackType
<1>3. Shape'
  BY <1>2 DEF LockInv, Shape
<1>4. /\ mutex.depth \in Nat /\ t # NoThread
      /\ mutex'.owner = t /\ mutex'.depth = mutex.depth + 1
  BY ThreadsAssumption DEF LockInv, MutexType, Lock
<1>5. HeldIn(stack[t]) = mutex.depth
  BY DEF LockInv, LockExact, Free
<1>6. \A u \in AllThreads : u # t => HeldIn(stack[u]) = 0
  BY ThreadsAssumption DEF LockInv, LockExact, Free
<1>7. LockExact'
  <2>1. ~(mutex'.owner = NoThread) /\ ~(mutex'.depth = 0)
    BY <1>4
  <2>2. \A u \in AllThreads : HeldIn(stack'[u]) = IF u = t THEN mutex.depth + 1 ELSE 0
    BY <1>2, <1>5, <1>6
  <2> QED
    BY <1>4, <2>1, <2>2 DEF LockExact
<1> QED
  BY <1>1, <1>3, <1>7 DEF LockInv

(* A step of t that unlocks the mutex as often as it holds fewer locks.     *)
LEMMA UnlockStep ==
    ASSUME LockInv, NEW t \in AllThreads, NEW s \in Seq(Frame), ShapeOf(s),
           NEW n \in Nat \ {0}, HeldIn(s) = HeldIn(stack[t]) - n,
           stack' = [stack EXCEPT ![t] = s], Unlock(t, n)
    PROVE  LockInv'
<1>1. HeldIn(s) \in Nat /\ HeldIn(stack[t]) \in Nat
  BY HeldNonNegative DEF LockInv, StackType, Shape
<1>2. HeldIn(stack[t]) # 0
  BY <1>1
<1>3. mutex.owner = t /\ mutex.depth = HeldIn(stack[t])
  BY <1>2 DEF LockInv, LockExact
<1>4. StackType' /\ MutexType'
  <2>1. StackType' /\ mutex \in [owner : AllThreads \cup {NoThread}, depth : Nat]
    BY DEF LockInv, StackType, MutexType
  <2>2. CASE mutex.depth <= n
    BY <1>3, <2>1, <2>2 DEF MutexType, Unlock
  <2>3. CASE ~(mutex.depth <= n)
    <3>1. mutex.depth - n \in Nat
      BY <2>1, <2>3
    <3>2. mutex' = [mutex EXCEPT !.depth = mutex.depth - n]
      BY <1>3, <2>3 DEF Unlock
    <3> QED
      BY <2>1, <3>1, <3>2 DEF MutexType
  <2> QED
    BY <2>2, <2>3, <2>1
<1>5. \A u \in AllThreads : stack'[u] = IF u = t THEN s ELSE stack[u]
  BY DEF LockInv, StackType
<1>6. Shape'
  BY <1>5 DEF LockInv, Shape
<1>7. /\ mutex'.depth = HeldIn(s)
      /\ mutex'.owner = IF HeldIn(s) = 0 THEN NoThread ELSE t
  <2>1. CASE mutex.depth <= n
    <3>1. mutex' = [owner |-> NoThread, depth |-> 0] /\ HeldIn(s) = 0
      BY <1>1, <1>3, <2>1 DEF Unlock
    <3> QED
      BY <3>1
  <2>2. CASE ~(mutex.depth <= n)
    <3>1. mutex' = [mutex EXCEPT !.depth = @ - n] /\ HeldIn(s) # 0
      BY <1>1, <1>3, <2>2 DEF Unlock
    <3> QED
      BY <1>3, <3>1 DEF LockInv, MutexType
  <2> QED
    BY <2>1, <2>2
<1>8. \A u \in AllThreads : u # t => HeldIn(stack'[u]) = 0
  BY <1>3, <1>5 DEF LockInv, LockExact
<1>9. LockExact'
  <2>1. mutex'.owner = NoThread <=> mutex'.depth = 0
    BY <1>7, ThreadsAssumption
  <2>2. \A u \in AllThreads : HeldIn(stack'[u]) = IF u = t THEN HeldIn(s) ELSE 0
    BY <1>5, <1>8
  <2>3. NoThread \notin AllThreads
    BY ThreadsAssumption
  <2> QED
    BY <1>7, <2>1, <2>2, <2>3 DEF LockExact
<1> QED
  BY <1>4, <1>6, <1>9 DEF LockInv

(* Popping locked guards, one more.                                         *)
LEMMA PopMore ==
    ASSUME NEW s \in Seq(Frame), NEW n \in Nat, n < Len(s),
           ShapeOf(SubSeq(s, 1, Len(s) - n)),
           s[Len(s) - n].locked, s[Len(s) - n].kind # "out"
    PROVE  /\ SubSeq(s, 1, Len(s) - (n + 1)) \in Seq(Frame)
           /\ ShapeOf(SubSeq(s, 1, Len(s) - (n + 1)))
           /\ HeldIn(SubSeq(s, 1, Len(s) - (n + 1))) = HeldIn(SubSeq(s, 1, Len(s) - n)) - 1
<1> DEFINE q == SubSeq(s, 1, Len(s) - n)
           r == SubSeq(s, 1, Len(s) - (n + 1))
<1>1. /\ q \in Seq(Frame) /\ q # <<>> /\ Len(q) = Len(s) - n
      /\ q[Len(q)] = s[Len(s) - n]
      /\ r = Front(q)
  <2>1. Len(s) \in Nat /\ Len(s) - n \in 1 .. Len(s) - n
    BY LenProperties
  <2>2. /\ q \in Seq(Frame) /\ q # <<>> /\ Len(q) = Len(s) - n
        /\ \A i \in 1 .. Len(s) - n : q[i] = s[i]
        /\ r = Front(q)
    BY FrontOfSubSeq
  <2> HIDE DEF q, r
  <2> QED
    BY <2>1, <2>2
<1> HIDE DEF q, r
<1>2. ShapeOf(q)
  BY DEF q
<1>3. r \in Seq(Frame) /\ ShapeOf(r) /\ FrameShape(q[Len(q)])
  BY <1>1, <1>2, FrontTop, ShapeFront
<1>4. Weight(q[Len(q)]) = 1
  BY <1>1, <1>3 DEF FrameShape, Weight
<1>5. HeldIn(r) = HeldIn(q) - 1
  BY <1>1, <1>4, HeldFront
<1> QED
  BY <1>3, <1>5 DEF q, r

LEMMA PopGuards ==
    ASSUME NEW s \in Seq(Frame), ShapeOf(s), NEW n \in 1 .. 3, n <= Len(s),
           \A i \in 0 .. n - 1 : s[Len(s) - i].locked /\ s[Len(s) - i].kind # "out"
    PROVE  /\ SubSeq(s, 1, Len(s) - n) \in Seq(Frame)
           /\ ShapeOf(SubSeq(s, 1, Len(s) - n))
           /\ HeldIn(SubSeq(s, 1, Len(s) - n)) = HeldIn(s) - n
<1> DEFINE Popped(m) == /\ SubSeq(s, 1, Len(s) - m) \in Seq(Frame)
                        /\ ShapeOf(SubSeq(s, 1, Len(s) - m))
                        /\ HeldIn(SubSeq(s, 1, Len(s) - m)) = HeldIn(s) - m
<1>1. Len(s) \in Nat /\ HeldIn(s) \in Int
  BY LenProperties, HeldFinite
<1>2. Popped(0)
  <2>1. Len(s) - 0 = Len(s)
    BY <1>1
  <2>2. SubSeq(s, 1, Len(s) - 0) = s
    BY <2>1, SubSeqFull
  <2>3. HeldIn(SubSeq(s, 1, Len(s) - 0)) = HeldIn(s) - 0
    <3>1. HeldIn(SubSeq(s, 1, Len(s) - 0)) = HeldIn(s)
      BY <2>2, Zenon
    <3> QED
      BY <1>1, <3>1
  <2>4. SubSeq(s, 1, Len(s) - 0) \in Seq(Frame) /\ ShapeOf(SubSeq(s, 1, Len(s) - 0))
    BY <2>2, Zenon
  <2> QED
    BY <2>3, <2>4, Zenon
<1>3. ASSUME NEW m \in 0 .. n - 1, Popped(m)
      PROVE  Popped(m + 1)
  <2>1. m \in Nat /\ m < Len(s) /\ s[Len(s) - m].locked /\ s[Len(s) - m].kind # "out"
    BY <1>1, <1>3
  <2>2. /\ SubSeq(s, 1, Len(s) - (m + 1)) \in Seq(Frame)
        /\ ShapeOf(SubSeq(s, 1, Len(s) - (m + 1)))
        /\ HeldIn(SubSeq(s, 1, Len(s) - (m + 1))) = HeldIn(SubSeq(s, 1, Len(s) - m)) - 1
    BY <1>3, <2>1, PopMore
  <2> QED
    BY <1>1, <1>3, <2>1, <2>2
<1> HIDE DEF Popped
<1>4. Popped(1)
  BY <1>2, <1>3
<1>5. n >= 2 => Popped(2)
  BY <1>3, <1>4
<1>6. n = 3 => Popped(3)
  BY <1>3, <1>5
<1>7. Popped(n)
  BY <1>4, <1>5, <1>6
<1> QED
  BY <1>7 DEF Popped

(* A guard or a call without a lock is pushed.                              *)
LEMMA PushStep ==
    ASSUME LockInv, NEW t \in AllThreads, NEW f \in Frame,
           ~f.locked, ~f.unlocked,
           IF stack[t] = <<>> THEN Bottom(f) ELSE SitsOn(f, Top(t)),
           Push(t, f), mutex' = mutex
    PROVE  LockInv'
<1> DEFINE s == Append(stack[t], f)
<1>1. stack[t] \in Seq(Frame) /\ ShapeOf(stack[t])
  BY DEF LockInv, StackType, Shape
<1>2. s \in Seq(Frame) /\ HeldIn(s) = HeldIn(stack[t]) + Weight(f)
  BY <1>1, AppendProperties, HeldAppend
<1>3. Weight(f) = 0 /\ FrameShape(f)
  BY DEF Weight, FrameShape
<1>4. ShapeOf(s)
  BY <1>1, <1>3, ShapePush DEF Top, Height
<1>5. HeldIn(s) = HeldIn(stack[t])
  BY <1>1, <1>2, <1>3, HeldFinite
<1>6. stack' = [stack EXCEPT ![t] = s]
  BY DEF Push
<1> HIDE DEF s
<1> QED
  BY <1>2, <1>4, <1>5, <1>6, KeepStep

(* n locked guards are left, normally or by an exception.                   *)
LEMMA LeaveStep ==
    ASSUME LockInv, NEW t \in AllThreads, NEW n \in 1 .. 3, NEW ok, n <= Height(t),
           \A i \in 0 .. n - 1 : /\ stack[t][Height(t) - i].locked
                                 /\ stack[t][Height(t) - i].kind # "out",
           Leave(t, n, ok)
    PROVE  LockInv'
<1> DEFINE s == Below(t, n)
<1>1. stack[t] \in Seq(Frame) /\ ShapeOf(stack[t])
  BY DEF LockInv, StackType, Shape
<1>2. s \in Seq(Frame) /\ ShapeOf(s) /\ HeldIn(s) = HeldIn(stack[t]) - n
  BY <1>1, PopGuards DEF Below, Height
<1>3. stack' = [stack EXCEPT ![t] = s] /\ Unlock(t, n)
  BY DEF Leave, Pop
<1>4. n \in Nat \ {0}
  OBVIOUS
<1> HIDE DEF s
<1> QED
  BY <1>2, <1>3, <1>4, UnlockStep

LEMMA ShapeReplace ==
    ASSUME NEW s \in Seq(Frame), s # <<>>, ShapeOf(s), NEW f \in Frame,
           f.kind = s[Len(s)].kind, FrameShape(f)
    PROVE  ShapeOf([s EXCEPT ![Len(s)] = f])
<1>1. /\ Front(s) \in Seq(Frame) /\ ShapeOf(Front(s)) /\ Len(s) \in Nat \ {0}
      /\ IF Len(s) = 1 THEN Bottom(s[Len(s)]) /\ Front(s) = <<>>
         ELSE /\ SitsOn(s[Len(s)], s[Len(s) - 1])
              /\ Front(s) # <<>>
              /\ Front(s)[Len(Front(s))] = s[Len(s) - 1]
  BY FrontTop, ShapeFront
<1>2. IF Front(s) = <<>> THEN Bottom(f) ELSE SitsOn(f, Front(s)[Len(Front(s))])
  BY <1>1 DEF Bottom, SitsOn
<1>3. ShapeOf(Append(Front(s), f))
  BY <1>1, <1>2, ShapePush
<1> QED
  BY <1>3, ReplaceTop, Zenon

-----------------------------------------------------------------------------
(* Type correctness and the exact count of locks.                           *)

RestType ==
    /\ main \in Program
    /\ status \in [Threads -> {"new", "running", "ended"}]
    /\ calls \in [AllThreads -> Nat]
    /\ real \in [Engines -> {"none", "loaded", "disposed", "destroyed"}]
    /\ aseglobal \in [Engines -> BOOLEAN]
    /\ imported \in [Engines -> BOOLEAN]
    /\ loaded \in [Engines -> BOOLEAN]
    /\ cached \in Seq(Nat)
    /\ contexts \in Nat

(* The inductive invariant: TypeOK, Shape and LockExact.                    *)
Inv == LockInv /\ RestType

LEMMA InvTypeOK == Inv <=> TypeOK /\ Shape /\ LockExact
  BY DEF Inv, LockInv, MutexType, StackType, RestType, TypeOK

LEMMA InitInv == Init => Inv
<1> SUFFICES ASSUME Init PROVE Inv
  OBVIOUS
<1>1. RestType
  BY DEF Init, RestType, Program, Engines, AllThreads
<1>2. MutexType /\ StackType
  BY EmptySeq DEF Init, MutexType, StackType
<1>3. Shape
  BY ShapeEmpty DEF Init, Shape
<1>4. LockExact
  <2>1. \A t \in AllThreads : mutex.owner # t /\ HeldIn(stack[t]) = 0
    BY ThreadsAssumption, HeldEmpty DEF Init
  <2> QED
    BY <2>1 DEF Init, LockExact
<1> QED
  BY <1>1, <1>2, <1>3, <1>4 DEF Inv, LockInv

LEMMA LeaveMain ==
    ASSUME main \in Program, NEW t, NEW n, NEW ok, Leave(t, n, ok)
    PROVE  main' \in Program
  BY DEF Leave, Program

(* The stack of t and its top.                                              *)
LEMMA TopType ==
    ASSUME LockInv, NEW t \in AllThreads, stack[t] # <<>>
    PROVE  /\ stack[t] \in Seq(Frame) /\ ShapeOf(stack[t])
           /\ Height(t) \in Nat \ {0} /\ Height(t) = Len(stack[t])
           /\ Top(t) \in Frame /\ Top(t) = stack[t][Len(stack[t])]
           /\ FrameShape(Top(t))
           /\ Top(t).eng \in Engines
  BY FrontTop, ShapeFront DEF LockInv, StackType, Shape, Top, Height, Frame

(* The context a guard takes, and the cache it leaves.                      *)
LEMMA ContextType ==
    ASSUME Inv
    PROVE  NextContext \in Nat /\ CachedRest \in Seq(Nat)
<1>1. cached \in Seq(Nat) /\ contexts \in Nat
  BY DEF Inv, RestType
<1>2. CASE cached = <<>>
  BY <1>1, <1>2 DEF NextContext, CachedRest
<1>3. CASE cached # <<>>
  <2>1. Len(cached) \in Nat \ {0} /\ \A i \in 1 .. Len(cached) - 1 : cached[i] \in Nat
    BY <1>1, <1>3, EmptySeq, LenProperties, ElementOfSeq
  <2>2. cached[Len(cached)] \in Nat
    BY <1>1, <2>1, ElementOfSeq
  <2>3. Len(cached) - 1 \in Int
    BY <2>1
  <2>4. SubSeq(cached, 1, Len(cached) - 1) \in Seq(Nat)
    BY <2>1, <2>3, SubSeqProperties
  <2> QED
    BY <1>3, <2>2, <2>4 DEF NextContext, CachedRest
<1> QED
  BY <1>2, <1>3

(* lock() returns: the top of t, a guard, becomes locked.                   *)
LEMMA AcquireStack ==
    ASSUME Inv, NEW t \in AllThreads, Acquire(t)
    PROVE  /\ stack[t] # <<>> /\ Top(t).kind \in Guards /\ ~Top(t).locked
           /\ \E x \in Frame :
                 /\ x.kind = Top(t).kind /\ x.locked = TRUE /\ x.unlocked = Top(t).unlocked
                 /\ x.kind = "lua" => x.ctx = NextContext
                 /\ stack' = [stack EXCEPT ![t] = [stack[t] EXCEPT ![Len(stack[t])] = x]]
<1> DEFINE f == [Top(t) EXCEPT !.locked = TRUE]
           g == [Top(t) EXCEPT !.locked = TRUE, !.ctx = NextContext]
           With(x) == [stack[t] EXCEPT ![Len(stack[t])] = x]
<1>1. stack[t] # <<>> /\ Top(t).kind \in Guards /\ ~Top(t).locked
  BY DEF Acquire
<1>2. /\ Top(t) \in Frame /\ Height(t) = Len(stack[t])
      /\ Top(t) = stack[t][Len(stack[t])]
      /\ stack \in [AllThreads -> Seq(Frame)]
  BY <1>1, TopType DEF Inv, LockInv, StackType
<1>3. ASSUME NEW x \in {f, g}
      PROVE  x \in Frame /\ x.kind = Top(t).kind /\ x.locked = TRUE /\ x.unlocked = Top(t).unlocked
  BY <1>2, ContextType DEF Frame
<1>4. CASE Top(t).kind = "lua"
  <2>1. stack' = [stack EXCEPT ![t][Height(t)].locked = TRUE,
                               ![t][Height(t)].ctx = NextContext]
    BY <1>4 DEF Acquire
  <2>2. stack' = [stack EXCEPT ![t] = With(g)]
    BY <1>2, <2>1
  <2>3. g.ctx = NextContext
    BY <1>2 DEF Frame
  <2> QED
    BY <1>1, <1>3, <2>2, <2>3
<1>5. CASE Top(t).kind # "lua"
  <2>1. stack' = [stack EXCEPT ![t][Height(t)].locked = TRUE]
    BY <1>5 DEF Acquire
  <2>2. stack' = [stack EXCEPT ![t] = With(f)]
    BY <1>2, <2>1
  <2>3. f.kind # "lua"
    BY <1>3, <1>5
  <2> QED
    BY <1>1, <1>3, <2>2, <2>3
<1> QED
  BY <1>4, <1>5

LEMMA AcquireInv ==
    ASSUME Inv, NEW t \in AllThreads, Acquire(t)
    PROVE  Inv'
<1>1. PICK x \in Frame :
        /\ x.kind = Top(t).kind /\ x.locked = TRUE /\ x.unlocked = Top(t).unlocked
        /\ stack' = [stack EXCEPT ![t] = [stack[t] EXCEPT ![Len(stack[t])] = x]]
  BY AcquireStack
<1>2. /\ LockInv /\ stack[t] # <<>> /\ Top(t).kind # "out" /\ ~Top(t).locked
      /\ Free(t) /\ Lock(t)
  BY AcquireStack DEF Inv, Guards, Acquire
<1>3. /\ stack[t] \in Seq(Frame) /\ ShapeOf(stack[t])
      /\ Top(t) = stack[t][Len(stack[t])] /\ FrameShape(Top(t))
  BY <1>2, TopType
<1> DEFINE s == [stack[t] EXCEPT ![Len(stack[t])] = x]
<1>4. FrameShape(x) /\ Weight(x) = 1 /\ Weight(Top(t)) = 0
  BY <1>1, <1>2, <1>3 DEF FrameShape, Weight
<1>5. s \in Seq(Frame) /\ ShapeOf(s) /\ HeldIn(s) = HeldIn(stack[t]) - Weight(Top(t)) + Weight(x)
  BY <1>1, <1>2, <1>3, <1>4, ShapeReplace, ReplaceTop
<1>6. HeldIn(s) = HeldIn(stack[t]) + 1
  <2>1. HeldIn(stack[t]) \in Int
    BY <1>3, HeldFinite
  <2> HIDE DEF s
  <2> QED
    BY <1>4, <1>5, <2>1
<1>7. stack' = [stack EXCEPT ![t] = s]
  BY <1>1
<1>8. LockInv'
  <2> HIDE DEF s
  <2> QED
    BY <1>2, <1>5, <1>6, <1>7, LockStep
<1>9. RestType'
  BY ContextType DEF Inv, RestType, Acquire, engineVars, luaVars
<1> QED
  BY <1>8, <1>9 DEF Inv

(* A guard is pushed on code that may call it.                              *)
LEMMA PushGuard ==
    ASSUME Inv, NEW t \in AllThreads, NEW k \in Guards, NEW e \in Engines,
           Push(t, NewFrame(k, e)), mutex' = mutex,
           \/ k \notin {"get", "delayload"} /\ stack[t] = <<>>
           \/ k \notin {"get", "delayload"} /\ At(t, "out")
           \/ k = "get" /\ (Inside(t, "load") \/ Inside(t, "use"))
           \/ k = "delayload" /\ Inside(t, "load")
           \/ k = "lua" /\ Inside(t, "delayload")
    PROVE  LockInv'
<1> DEFINE f == NewFrame(k, e)
<1>1. f \in Frame /\ f.kind = k /\ ~f.locked /\ ~f.unlocked
  BY NewFrameType
<1>2. IF stack[t] = <<>> THEN Bottom(f) ELSE SitsOn(f, Top(t))
  <2> HIDE DEF f
  <2> QED
    BY <1>1 DEF Inside, At, Bottom, SitsOn, Guards
<1>3. LockInv /\ Push(t, f)
  BY DEF Inv
<1> HIDE DEF f
<1> QED
  BY <1>1, <1>2, <1>3, PushStep

LEMMA ForeignTop ==
    ASSUME NEW t \in AllThreads, Foreign(t)
    PROVE  stack[t] = <<>> \/ At(t, "out")
  BY DEF Foreign

(* Every step that pushes a guard.                                          *)
LEMMA EnterInv ==
    ASSUME Inv, NEW t \in AllThreads,
           \/ t = Main /\ RunScript
           \/ LoadFile(t)
           \/ \E e \in Engines : UseGlobal(t, e)
           \/ CallLua(t)
           \/ NeedEngine(t)
           \/ EnterFile(t)
    PROVE  Inv'
<1>1. Lua \in Engines /\ {"load", "delayload", "use", "get", "lua"} = Guards
  BY DEF Engines, Guards
<1>2. CASE t = Main /\ RunScript
  <2>1. Push(Main, NewFrame("load", Lua)) /\ mutex' = mutex /\ stack[Main] = <<>>
    BY <1>2 DEF RunScript
  <2>2. LockInv'
    BY <1>1, <1>2, <2>1, PushGuard
  <2>3. RestType'
    BY <1>2 DEF Inv, RestType, RunScript, engineVars, luaVars
  <2> QED
    BY <2>2, <2>3 DEF Inv
<1>3. CASE LoadFile(t)
  <2>1. Push(t, NewFrame("load", Lua)) /\ mutex' = mutex /\ Foreign(t)
    BY <1>3 DEF LoadFile
  <2>2. LockInv'
    BY <1>1, <2>1, PushGuard, ForeignTop
  <2>3. RestType'
    BY <1>3 DEF Inv, RestType, LoadFile, Calling, engineVars, luaVars
  <2> QED
    BY <2>2, <2>3 DEF Inv
<1>4. CASE \E e \in Engines : UseGlobal(t, e)
  <2>1. PICK e \in Engines : UseGlobal(t, e)
    BY <1>4
  <2>2. Push(t, NewFrame("use", e)) /\ mutex' = mutex /\ Foreign(t)
    BY <2>1 DEF UseGlobal
  <2>3. LockInv'
    BY <1>1, <2>2, PushGuard, ForeignTop
  <2>4. RestType'
    BY <2>1 DEF Inv, RestType, UseGlobal, Calling, engineVars, luaVars
  <2> QED
    BY <2>3, <2>4 DEF Inv
<1>5. CASE CallLua(t)
  <2>1. Push(t, NewFrame("lua", Lua)) /\ mutex' = mutex /\ Foreign(t)
    BY <1>5 DEF CallLua
  <2>2. LockInv'
    BY <1>1, <2>1, PushGuard, ForeignTop
  <2>3. RestType'
    BY <1>5 DEF Inv, RestType, CallLua, Calling, engineVars, luaVars
  <2> QED
    BY <2>2, <2>3 DEF Inv
<1>6. CASE NeedEngine(t)
  <2>1. /\ Inside(t, "load") \/ Inside(t, "use")
        /\ Push(t, NewFrame("get", Top(t).eng)) /\ mutex' = mutex
    BY <1>6 DEF NeedEngine
  <2>2. Top(t).eng \in Engines
    BY <2>1, TopType DEF Inv, Inside, At
  <2>3. LockInv'
    BY <1>1, <2>1, <2>2, PushGuard
  <2>4. RestType'
    BY <1>6 DEF Inv, RestType, NeedEngine, engineVars, luaVars
  <2> QED
    BY <2>3, <2>4 DEF Inv
<1>7. CASE EnterFile(t)
  <2>1. /\ mutex' = mutex
        /\ \/ Inside(t, "load") /\ Push(t, NewFrame("delayload", Lua))
           \/ Inside(t, "delayload") /\ Push(t, NewFrame("lua", Lua))
    BY <1>7 DEF EnterFile
  <2>2. LockInv'
    BY <1>1, <2>1, PushGuard
  <2>3. RestType'
    BY <1>7 DEF Inv, RestType, EnterFile, engineVars, luaVars
  <2> QED
    BY <2>2, <2>3 DEF Inv
<1> QED
  BY <1>2, <1>3, <1>4, <1>5, <1>6, <1>7

(* What is below the top of t: a guard under another frame is locked.       *)
LEMMA UnderTop ==
    ASSUME LockInv, NEW t \in AllThreads, stack[t] # <<>>, NEW k, Top(t).kind = k
    PROVE  /\ k = "get" => /\ Height(t) >= 2
                           /\ stack[t][Height(t) - 1].locked
                           /\ stack[t][Height(t) - 1].kind \in {"load", "use"}
           /\ Height(t) > 1 /\ stack[t][Height(t) - 1].kind = "delayload" =>
                 /\ Height(t) >= 3
                 /\ stack[t][Height(t) - 1].locked
                 /\ stack[t][Height(t) - 2].locked
                 /\ stack[t][Height(t) - 2].kind = "load"
<1>1. /\ stack[t] \in Seq(Frame) /\ ShapeOf(stack[t])
      /\ Height(t) \in Nat \ {0} /\ Height(t) = Len(stack[t])
      /\ Top(t) = stack[t][Height(t)]
  BY TopType DEF Top
<1>2. \A i \in 2 .. Height(t) : SitsOn(stack[t][i], stack[t][i - 1])
  BY <1>1 DEF ShapeOf
<1>3. Bottom(stack[t][1])
  BY <1>1 DEF ShapeOf
<1> DEFINE g == stack[t][Height(t) - 1]
           h == stack[t][Height(t) - 2]
<1>4. ASSUME k = "get"
      PROVE  Height(t) >= 2 /\ g.locked /\ g.kind \in {"load", "use"}
  <2>1. Height(t) # 1 /\ Top(t).kind = "get"
    BY <1>1, <1>3, <1>4 DEF Bottom
  <2>2. Height(t) \in 2 .. Height(t) /\ Height(t) >= 2
    <3>1. Height(t) \in Nat \ {0} /\ Height(t) # 1
      BY <1>1, <2>1
    <3>2. \A n \in Nat \ {0} : n # 1 => n \in 2 .. n /\ n >= 2
      OBVIOUS
    <3> QED
      BY <3>1, <3>2, Zenon
  <2>3. SitsOn(Top(t), g)
    <3>1. SitsOn(stack[t][Height(t)], stack[t][Height(t) - 1])
      BY <1>2, <2>2, Zenon
    <3>2. Top(t) = stack[t][Height(t)]
      BY DEF Top
    <3> QED
      BY <3>1, <3>2, Zenon
  <2> HIDE DEF g
  <2>4. g.kind \in {"load", "use"}
    BY <2>1, <2>3 DEF SitsOn
  <2>5. g.locked
    BY <2>3, <2>4 DEF SitsOn
  <2> QED
    BY <2>2, <2>4, <2>5
<1>5. ASSUME Height(t) > 1, g.kind = "delayload"
      PROVE  Height(t) >= 3 /\ g.locked /\ h.locked /\ h.kind = "load"
  <2>1. Height(t) # 2
    BY <1>1, <1>3, <1>5 DEF Bottom
  <2>2. /\ Height(t) \in 2 .. Height(t) /\ Height(t) >= 3
        /\ Height(t) - 1 \in 2 .. Height(t) /\ (Height(t) - 1) - 1 = Height(t) - 2
    <3>1. Height(t) \in Nat \ {0} /\ Height(t) # 2 /\ Height(t) > 1
      BY <1>1, <1>5, <2>1
    <3>2. \A n \in Nat \ {0} : n > 1 /\ n # 2 =>
            n \in 2 .. n /\ n >= 3 /\ n - 1 \in 2 .. n /\ (n - 1) - 1 = n - 2
      OBVIOUS
    <3> QED
      BY <3>1, <3>2, Zenon
  <2>3. SitsOn(Top(t), g)
    <3>1. SitsOn(stack[t][Height(t)], stack[t][Height(t) - 1])
      BY <1>2, <2>2, Zenon
    <3>2. Top(t) = stack[t][Height(t)]
      BY DEF Top
    <3> QED
      BY <3>1, <3>2, Zenon
  <2>4. SitsOn(g, h)
    <3>1. SitsOn(stack[t][Height(t) - 1], stack[t][(Height(t) - 1) - 1])
      BY <1>2, <2>2, Zenon
    <3> QED
      BY <2>2, <3>1, Zenon
  <2>5. g.kind = "delayload"
    BY <1>5
  <2> HIDE DEF g, h
  <2>6. g.locked /\ h.kind = "load"
    BY <2>3, <2>4, <2>5 DEF SitsOn
  <2>7. h.locked
    BY <2>4, <2>6 DEF SitsOn
  <2> QED
    BY <2>2, <2>6, <2>7
<1> QED
  BY <1>4, <1>5

(* One guard is left.                                                       *)
LEMMA LeaveOne ==
    ASSUME Inv, NEW t \in AllThreads, NEW k \in Guards, Inside(t, k),
           NEW ok, Leave(t, 1, ok)
    PROVE  LockInv' /\ main' \in Program
<1>1. LockInv /\ stack[t] # <<>> /\ Top(t).kind = k /\ Top(t).locked /\ k # "out"
  BY DEF Inv, Inside, At, Guards
<1>2. Height(t) \in Nat \ {0}
  BY <1>1, TopType
<1>3. 1 \in 1 .. 3 /\ 1 <= Height(t)
  BY <1>2
<1>4. \A i \in 0 .. 1 - 1 : /\ stack[t][Height(t) - i].locked
                            /\ stack[t][Height(t) - i].kind # "out"
  <2>1. \A i \in 0 .. 1 - 1 : Height(t) - i = Height(t)
    BY <1>2
  <2> QED
    BY <1>1, <2>1 DEF Top
<1>5. LockInv'
  BY <1>1, <1>3, <1>4, LeaveStep
<1> QED
  BY <1>5, LeaveMain DEF Inv, RestType

(* Every step that leaves guards.                                           *)
LEMMA LeaveInv ==
    ASSUME Inv, NEW t \in AllThreads,
           \/ CreateEngine(t) \/ CreateFails(t) \/ KeepGlobal(t)
           \/ LoadFails(t) \/ LuaReturns(t)
    PROVE  Inv'
<1>0. LockInv /\ {"load", "delayload", "use", "get", "lua"} = Guards
  BY DEF Inv, Guards
<1>1. CASE CreateEngine(t)
  <2>1. Inside(t, "get") /\ Leave(t, 1, TRUE)
    BY <1>1 DEF CreateEngine
  <2>2. LockInv' /\ main' \in Program
    BY <1>0, <2>1, LeaveOne
  <2>3. RestType'
    BY <1>1, <2>2 DEF Inv, RestType, CreateEngine, luaVars
  <2> QED
    BY <2>2, <2>3 DEF Inv
<1>2. CASE CreateFails(t)
  <2>1. Inside(t, "get") /\ Leave(t, 2, FALSE)
    BY <1>2 DEF CreateFails
  <2>2. stack[t] # <<>> /\ Top(t).kind = "get" /\ Top(t).locked
    BY <2>1 DEF Inside, At
  <2>3. /\ Height(t) \in Nat /\ Height(t) >= 2
        /\ stack[t][Height(t) - 1].locked
        /\ stack[t][Height(t) - 1].kind \in {"load", "use"}
    BY <1>0, <2>2, UnderTop, TopType
  <2>4. \A i \in 0 .. 2 - 1 : /\ stack[t][Height(t) - i].locked
                              /\ stack[t][Height(t) - i].kind # "out"
    <3>1. \A i \in 0 .. 2 - 1 : (i = 0 /\ Height(t) - i = Height(t)) \/ i = 1
      BY <2>3
    <3> QED
      BY <2>2, <2>3, <3>1 DEF Top
  <2>5. LockInv'
    <3>1. 2 \in 1 .. 3 /\ 2 <= Height(t)
      BY <2>3
    <3> QED
      BY <1>0, <2>1, <2>4, <3>1, LeaveStep
  <2>6. RestType'
    <3>1. main' \in Program
      BY <2>1, LeaveMain DEF Inv, RestType
    <3> QED
      BY <1>2, <3>1 DEF Inv, RestType, CreateFails, engineVars, luaVars
  <2> QED
    BY <2>5, <2>6 DEF Inv
<1>3. CASE KeepGlobal(t)
  <2>1. Inside(t, "use") /\ Leave(t, 1, TRUE)
    BY <1>3 DEF KeepGlobal
  <2>2. LockInv' /\ main' \in Program
    BY <1>0, <2>1, LeaveOne
  <2>3. RestType'
    BY <1>3, <2>2 DEF Inv, RestType, KeepGlobal, luaVars
  <2> QED
    BY <2>2, <2>3 DEF Inv
<1>4. CASE LoadFails(t)
  <2>1. Inside(t, "load") /\ Leave(t, 1, FALSE)
    BY <1>4 DEF LoadFails
  <2>2. LockInv' /\ main' \in Program
    BY <1>0, <2>1, LeaveOne
  <2>3. RestType'
    BY <1>4, <2>2 DEF Inv, RestType, LoadFails, engineVars, luaVars
  <2> QED
    BY <2>2, <2>3 DEF Inv
<1>5. CASE LuaReturns(t)
  <2>1. Inside(t, "lua") /\ cached' = Append(cached, Top(t).ctx)
    BY <1>5 DEF LuaReturns
  <2>2. stack[t] # <<>> /\ Top(t).kind = "lua" /\ Top(t).locked
    BY <2>1 DEF Inside, At
  <2>3. Height(t) \in Nat \ {0} /\ Top(t).ctx \in Nat
    BY <1>0, <2>2, TopType DEF Frame
  <2>4. cached' \in Seq(Nat)
    BY <2>1, <2>3, AppendProperties DEF Inv, RestType
  <2>5. LockInv' /\ main' \in Program
    <3>1. CASE Height(t) > 1 /\ stack[t][Height(t) - 1].kind = "delayload"
      <4>1. PICK ok \in BOOLEAN : Leave(t, 3, ok)
        BY <1>5, <3>1 DEF LuaReturns
      <4>2. /\ Height(t) >= 3
            /\ stack[t][Height(t) - 1].locked
            /\ stack[t][Height(t) - 2].locked
            /\ stack[t][Height(t) - 2].kind = "load"
        BY <1>0, <2>2, <3>1, UnderTop
      <4>3. \A i \in 0 .. 3 - 1 : /\ stack[t][Height(t) - i].locked
                                  /\ stack[t][Height(t) - i].kind # "out"
        <5>1. \A i \in 0 .. 3 - 1 : (i = 0 /\ Height(t) - i = Height(t)) \/ i = 1 \/ i = 2
          BY <2>3
        <5> QED
          BY <2>2, <3>1, <4>2, <5>1 DEF Top
      <4>4. 3 \in 1 .. 3 /\ 3 <= Height(t)
        BY <2>3, <4>2
      <4>5. LockInv'
        BY <1>0, <4>1, <4>3, <4>4, LeaveStep
      <4> QED
        BY <4>1, <4>5, LeaveMain DEF Inv, RestType
    <3>2. CASE ~(Height(t) > 1 /\ stack[t][Height(t) - 1].kind = "delayload")
      <4>1. Leave(t, 1, TRUE)
        BY <1>5, <3>2 DEF LuaReturns
      <4> QED
        BY <1>0, <2>1, <4>1, LeaveOne
    <3> QED
      BY <3>1, <3>2
  <2>6. RestType'
    BY <1>5, <2>4, <2>5 DEF Inv, RestType, LuaReturns, engineVars
  <2> QED
    BY <2>5, <2>6 DEF Inv
<1> QED
  BY <1>1, <1>2, <1>3, <1>4, <1>5

(* A call out of Lua begins: a frame that may unlock the mutex once.        *)
LEMMA CallOutInv ==
    ASSUME Inv, NEW t \in AllThreads, NEW b \in BOOLEAN, CallOut(t, b)
    PROVE  Inv'
<1> DEFINE f == [NewFrame("out", Lua) EXCEPT !.unlocked = b]
<1>1. /\ LockInv /\ stack[t] # <<>>
      /\ Top(t).kind = "lua" /\ Top(t).locked
      /\ Push(t, f)
      /\ IF b THEN Unlock(t, 1) ELSE mutex' = mutex
  BY DEF Inv, CallOut, Inside, At
<1>2. stack[t] \in Seq(Frame) /\ ShapeOf(stack[t]) /\ Top(t) = stack[t][Len(stack[t])]
  BY <1>1, TopType
<1>3. f \in Frame /\ f.kind = "out" /\ f.locked = FALSE /\ f.unlocked = b
  BY DEF NewFrame, Frame, Engines
<1> DEFINE s == Append(stack[t], f)
<1>4. s \in Seq(Frame) /\ HeldIn(s) = HeldIn(stack[t]) + Weight(f)
  <2> HIDE DEF f
  <2> QED
    BY <1>2, <1>3, AppendProperties, HeldAppend
<1>5. ShapeOf(s)
  <2> HIDE DEF f
  <2>1. SitsOn(f, Top(t)) /\ FrameShape(f)
    BY <1>1, <1>3 DEF SitsOn, FrameShape
  <2> QED
    BY <1>1, <1>2, <1>3, <2>1, ShapePush
<1>6. stack' = [stack EXCEPT ![t] = s]
  BY <1>1 DEF Push
<1>7. Weight(f) = IF b THEN -1 ELSE 0
  <2> HIDE DEF f
  <2> QED
    BY <1>3 DEF Weight
<1>8. HeldIn(s) = HeldIn(stack[t]) - (IF b THEN 1 ELSE 0)
  <2>1. HeldIn(stack[t]) \in Int
    BY <1>2, HeldFinite
  <2> HIDE DEF f, s
  <2> QED
    BY <1>4, <1>7, <2>1
<1> HIDE DEF f, s
<1>9. LockInv'
  <2>1. CASE b
    <3>1. Unlock(t, 1) /\ 1 \in Nat \ {0} /\ HeldIn(s) = HeldIn(stack[t]) - 1
      BY <1>1, <1>8, <2>1
    <3> QED
      BY <1>1, <1>4, <1>5, <1>6, <3>1, UnlockStep
  <2>2. CASE ~b
    <3>1. mutex' = mutex /\ HeldIn(s) = HeldIn(stack[t])
      <4>1. HeldIn(stack[t]) \in Int
        BY <1>2, HeldFinite
      <4> QED
        BY <1>1, <1>8, <2>2, <4>1
    <3> QED
      BY <1>1, <1>4, <1>5, <1>6, <3>1, KeepStep
  <2> QED
    BY <2>1, <2>2
<1>10. RestType'
  BY DEF Inv, RestType, CallOut, Calling, engineVars, luaVars
<1> QED
  BY <1>9, <1>10 DEF Inv

(* A call out of Lua ends: the mutex is locked again if it was unlocked.    *)
LEMMA CallOutReturnsInv ==
    ASSUME Inv, NEW t \in AllThreads, CallOutReturns(t)
    PROVE  Inv'
<1>1. /\ LockInv /\ stack[t] # <<>>
      /\ Top(t).kind = "out"
      /\ Pop(t, 1)
      /\ IF Top(t).unlocked THEN Free(t) /\ Lock(t) ELSE mutex' = mutex
  BY DEF Inv, CallOutReturns, At
<1>2. /\ stack[t] \in Seq(Frame) /\ ShapeOf(stack[t])
      /\ Top(t) = stack[t][Len(stack[t])] /\ FrameShape(Top(t)) /\ Top(t) \in Frame
  BY <1>1, TopType
<1> DEFINE s == Front(stack[t])
<1>3. s \in Seq(Frame) /\ ShapeOf(s) /\ HeldIn(s) = HeldIn(stack[t]) - Weight(Top(t))
  BY <1>1, <1>2, FrontTop, ShapeFront, HeldFront
<1>4. stack' = [stack EXCEPT ![t] = s]
  BY <1>1 DEF Pop, Below, Height, Front
<1>5. Weight(Top(t)) = IF Top(t).unlocked THEN -1 ELSE 0
  BY <1>1, <1>2 DEF FrameShape, Weight
<1>6. HeldIn(stack[t]) \in Int
  BY <1>2, HeldFinite
<1> HIDE DEF s
<1>7. LockInv'
  <2>1. CASE Top(t).unlocked
    <3>1. Free(t) /\ Lock(t) /\ HeldIn(s) = HeldIn(stack[t]) + 1
      BY <1>1, <1>3, <1>5, <1>6, <2>1
    <3> QED
      BY <1>1, <1>3, <1>4, <3>1, LockStep
  <2>2. CASE ~Top(t).unlocked
    <3>1. mutex' = mutex /\ HeldIn(s) = HeldIn(stack[t])
      BY <1>1, <1>3, <1>5, <1>6, <2>2
    <3> QED
      BY <1>1, <1>3, <1>4, <3>1, KeepStep
  <2> QED
    BY <2>1, <2>2
<1>8. RestType'
  BY DEF Inv, RestType, CallOutReturns, engineVars, luaVars
<1> QED
  BY <1>7, <1>8 DEF Inv

(* The call of the main thread waits for a thread.                          *)
LEMMA JoinInv ==
    ASSUME Inv, NEW c \in Threads, Join(c)
    PROVE  /\ Inv'
           /\ stack[Main] # <<>>
           /\ \E f \in Frame :
                 /\ f.unlocked = Top(Main).unlocked
                 /\ f.kind = "out" /\ Top(Main).kind = "out"
                 /\ stack' = [stack EXCEPT ![Main] = [stack[Main] EXCEPT ![Len(stack[Main])] = f]]
<1> DEFINE f == [Top(Main) EXCEPT !.join = c]
           s == [stack[Main] EXCEPT ![Len(stack[Main])] = f]
<1>1. /\ LockInv /\ Main \in AllThreads /\ stack[Main] # <<>>
      /\ Top(Main).kind = "out"
      /\ stack' = [stack EXCEPT ![Main][Height(Main)].join = c]
      /\ mutex' = mutex
  BY DEF Inv, Join, At, AllThreads
<1>2. /\ stack[Main] \in Seq(Frame) /\ ShapeOf(stack[Main])
      /\ Height(Main) = Len(stack[Main])
      /\ Top(Main) = stack[Main][Len(stack[Main])]
      /\ FrameShape(Top(Main)) /\ Top(Main) \in Frame
  BY <1>1, TopType
<1>3. /\ f \in Frame /\ f.kind = Top(Main).kind
      /\ f.locked = Top(Main).locked /\ f.unlocked = Top(Main).unlocked
  BY <1>2 DEF Frame, AllThreads
<1>4. stack' = [stack EXCEPT ![Main] = s]
  <2>1. stack \in [AllThreads -> Seq(Frame)]
    BY <1>1 DEF LockInv, StackType
  <2> QED
    BY <1>1, <1>2, <2>1
<1> HIDE DEF f
<1>5. ShapeOf(s) /\ s \in Seq(Frame)
  BY <1>1, <1>2, <1>3, ShapeReplace, ReplaceTop DEF FrameShape
<1>6. HeldIn(s) = HeldIn(stack[Main])
  <2>1. HeldIn(s) = HeldIn(stack[Main]) - Weight(Top(Main)) + Weight(f)
    BY <1>1, <1>2, <1>3, ReplaceTop
  <2>2. Weight(f) = Weight(Top(Main)) /\ Weight(f) \in Int
    BY <1>3 DEF Weight
  <2>3. HeldIn(stack[Main]) \in Int
    BY <1>2, HeldFinite
  <2> QED
    BY <2>1, <2>2, <2>3
<1>7. LockInv'
  <2> HIDE DEF s
  <2> QED
    BY <1>1, <1>4, <1>5, <1>6, KeepStep
<1>8. RestType'
  BY DEF Inv, RestType, Join, engineVars, luaVars
<1> QED
  BY <1>1, <1>3, <1>4, <1>7, <1>8 DEF Inv

(* Steps that touch neither the mutex nor a stack.                          *)
LEMMA OtherInv ==
    ASSUME Inv, UNCHANGED <<mutex, stack>>, RestType'
    PROVE  Inv'
<1>1. LockInv'
  BY DEF Inv, LockInv, MutexType, StackType, Shape, LockExact
<1> QED
  BY <1>1 DEF Inv

LEMMA ThreadInv ==
    ASSUME Inv, NEW c \in Threads,
           (\E t \in AllThreads : StartThread(t, c)) \/ EndThread(c)
    PROVE  Inv'
<1>1. UNCHANGED <<mutex, stack>>
  BY DEF StartThread, EndThread
<1>2. RestType'
  BY DEF Inv, RestType, StartThread, EndThread, engineVars, luaVars
<1> QED
  BY <1>1, <1>2, OtherInv

LEMMA EndInv ==
    ASSUME Inv,
           \/ JoinAll \/ WaitEnds \/ Destroy
           \/ \E e \in Engines : WaitEngine(e) \/ Dispose(e)
    PROVE  Inv'
<1>1. UNCHANGED <<mutex, stack>>
  BY DEF JoinAll, WaitEnds, Destroy, WaitEngine, Dispose
<1>2. RestType'
  <2>1. CASE JoinAll \/ WaitEnds
    BY <2>1 DEF Inv, RestType, Program, JoinAll, WaitEnds, engineVars, luaVars
  <2>2. CASE Destroy
    BY <2>2 DEF Inv, RestType, Program, Destroy, luaVars
  <2>3. CASE \E e \in Engines : WaitEngine(e)
    <3>1. PICK e \in Engines : WaitEngine(e)
      BY <2>3
    <3>2. PICK b \in BOOLEAN : main' = [main EXCEPT !.todo = @ \ {e}, !.joining = b]
      BY <3>1 DEF WaitEngine
    <3>3. main' \in Program
      BY <3>2 DEF Inv, RestType, Program
    <3> QED
      BY <3>1, <3>3 DEF Inv, RestType, WaitEngine, luaVars
  <2>4. CASE \E e \in Engines : Dispose(e)
    <3>1. PICK e \in Engines : Dispose(e)
      BY <2>4
    <3>2. main' \in Program
      BY <3>1 DEF Inv, RestType, Program, Dispose
    <3> QED
      BY <3>1, <3>2 DEF Inv, RestType, Dispose, luaVars
  <2> QED
    BY <2>1, <2>2, <2>3, <2>4
<1> QED
  BY <1>1, <1>2, OtherInv

LEMMA NextInv == Inv /\ [Next]_vars => Inv'
<1> SUFFICES ASSUME Inv, [Next]_vars PROVE Inv'
  OBVIOUS
<1>1. CASE MainProgram
  <2>1. Main \in AllThreads
    BY DEF AllThreads
  <2>2. CASE RunScript
    BY <2>1, <2>2, EnterInv
  <2>3. CASE ~RunScript
    BY <1>1, <2>3, EndInv DEF MainProgram
  <2> QED
    BY <2>2, <2>3
<1>2. ASSUME NEW t \in AllThreads, Progress(t)
      PROVE  Inv'
  <2>1. CASE Acquire(t)
    BY <2>1, AcquireInv
  <2>2. CASE NeedEngine(t) \/ EnterFile(t)
    BY <2>2, EnterInv
  <2>3. CASE \/ CreateEngine(t) \/ CreateFails(t) \/ KeepGlobal(t)
             \/ LoadFails(t) \/ LuaReturns(t)
    BY <2>3, LeaveInv
  <2>4. CASE CallOutReturns(t)
    BY <2>4, CallOutReturnsInv
  <2>5. CASE t \in Threads /\ EndThread(t)
    BY <2>5, ThreadInv
  <2> QED
    BY <1>2, <2>1, <2>2, <2>3, <2>4, <2>5 DEF Progress
<1>3. ASSUME NEW t \in AllThreads, Call(t)
      PROVE  Inv'
  <2>1. CASE LoadFile(t) \/ CallLua(t) \/ \E e \in Engines : UseGlobal(t, e)
    BY <2>1, EnterInv
  <2>2. CASE \E b \in BOOLEAN : CallOut(t, b)
    BY <2>2, CallOutInv
  <2>3. CASE \E c \in Threads : StartThread(t, c)
    BY <2>3, ThreadInv
  <2> QED
    BY <1>3, <2>1, <2>2, <2>3 DEF Call
<1>4. CASE \E c \in Threads : Join(c)
  BY <1>4, JoinInv
<1>5. CASE UNCHANGED vars
  <2>1. UNCHANGED <<mutex, stack>> /\ RestType'
    BY <1>5 DEF Inv, RestType, vars
  <2> QED
    BY <2>1, OtherInv
<1> QED
  BY <1>1, <1>2, <1>3, <1>4, <1>5 DEF Next

LEMMA AlwaysInv == Spec => []Inv
<1> QED
  BY InitInv, NextInv, PTL DEF Spec

(* The state keeps its type, whatever calls nest and wherever they end.     *)
THEOREM EngineTypeCorrect == Spec => []TypeOK
<1>1. Inv => TypeOK
  BY InvTypeOK
<1> QED
  BY <1>1, AlwaysInv, PTL

(* The recursive mutex is locked exactly as often as the guards of its      *)
(* owner say: every path through loads, calls, callbacks and exceptions     *)
(* gives back what it took.                                                 *)
THEOREM LocksExact == Spec => []LockExact
<1>1. Inv => LockExact
  BY InvTypeOK
<1> QED
  BY <1>1, AlwaysInv, PTL

(* Two threads are never inside the Lua virtual machine at once.            *)
THEOREM LuaIsExclusive == Spec => []LuaExclusive
<1>1. Inv => LuaExclusive
  <2> SUFFICES ASSUME Inv, NEW t \in AllThreads, NEW k \in Guards, Inside(t, k)
               PROVE  mutex.owner = t
    BY DEF LuaExclusive
  <2>1. LockInv /\ stack[t] # <<>> /\ Top(t).kind # "out" /\ Top(t).locked
    BY DEF Inv, Inside, At, Guards
  <2> QED
    BY <2>1, InsideOwns
<1> QED
  BY <1>1, AlwaysInv, PTL

-----------------------------------------------------------------------------
(* The engines, the threads and the end of the program.                     *)

Quiet == \A c \in Threads : status[c] # "running"

(* Until the script has been loaded nothing is disposed of; the main thread *)
(* has guards on its stack only then.                                       *)
Loading ==
    /\ main.phase = "load" =>
         main.todo = Engines /\ ~main.joining /\ \A e \in Engines : aseglobal[e]
    /\ stack[Main] # <<>> => main.phase = "load"
    /\ main.joining => main.phase = "wait"
    /\ main.phase \in {"load", "wait"} => \A e \in Engines : real[e] \in {"none", "loaded"}

(* Threads run only once the Java engine is there, and have an empty stack  *)
(* unless they run.                                                         *)
ThreadsStarted ==
    /\ \A c \in Threads : status[c] # "running" => stack[c] = <<>>
    /\ real[Java] = "none" =>
         /\ \A c \in Threads : status[c] = "new"
         /\ \A t \in AllThreads : UnlockedIn(stack[t]) = {}

(* When the Java engine has waited for its threads, none runs again.        *)
ThreadsJoined ==
    /\ main.phase = "wait" /\ Java \notin main.todo /\ ~main.joining => Quiet
    /\ main.phase \in {"dispose", "ended"} /\ ~main.failed => Quiet

EngineInv == Loading /\ ThreadsStarted /\ ThreadsJoined /\ GlobalImported /\ LoadedIsReal

LEMMA InitEngineInv == Init => EngineInv
<1> SUFFICES ASSUME Init PROVE EngineInv
  OBVIOUS
<1>1. UnlockedIn(<<>>) = {}
  BY DEF UnlockedIn
<1>2. Loading /\ ThreadsJoined /\ GlobalImported /\ LoadedIsReal
  BY DEF Init, Loading, ThreadsJoined, GlobalImported, LoadedIsReal, AllThreads
<1>3. ThreadsStarted
  BY <1>1 DEF Init, ThreadsStarted, AllThreads
<1> QED
  BY <1>2, <1>3 DEF EngineInv

(* A thread with code to run has a stack or runs; the main thread has none  *)
(* once the script is loaded.                                               *)
Active(t) ==
    /\ t \in Threads => status[t] = "running"
    /\ t = Main => main.phase = "load"

LEMMA ActiveRuns ==
    ASSUME EngineInv, NEW t \in AllThreads, stack[t] # <<>> \/ Foreign(t)
    PROVE  Active(t) /\ (t \in Threads => real[Java] # "none")
<1>1. t \in Threads => status[t] = "running" /\ real[Java] # "none"
  BY DEF EngineInv, ThreadsStarted, Foreign, At
<1>2. t = Main => stack[Main] # <<>>
  BY ThreadsAssumption DEF Foreign, At
<1> QED
  BY <1>1, <1>2 DEF EngineInv, Loading, Active

(* A step of thread t that changes no status.                               *)
LEMMA StackStep ==
    ASSUME Inv, EngineInv, NEW t \in AllThreads, Active(t),
           NEW s, stack' = [stack EXCEPT ![t] = s],
           UnlockedIn(s) # {} => real[Java] # "none",
           UNCHANGED <<status, aseglobal>>,
           \/ main' = main
           \/ /\ t = Main /\ s = <<>>
              /\ \/ main' = [main EXCEPT !.phase = "wait"]
                 \/ main' = [main EXCEPT !.phase = "dispose", !.failed = TRUE],
           \/ UNCHANGED <<real, imported>>
           \/ /\ t = Main
              /\ \E e \in Engines : /\ real' = [real EXCEPT ![e] = "loaded"]
                                    /\ imported' = [imported EXCEPT ![e] = aseglobal[e]],
           \/ UNCHANGED loaded
           \/ \E e \in Engines : real[e] # "none" /\ loaded' = [loaded EXCEPT ![e] = TRUE]
    PROVE  EngineInv'
<1>1. /\ main \in Program /\ real \in [Engines -> {"none", "loaded", "disposed", "destroyed"}]
      /\ imported \in [Engines -> BOOLEAN] /\ loaded \in [Engines -> BOOLEAN]
      /\ stack \in [AllThreads -> Seq(Frame)]
  BY DEF Inv, RestType, LockInv, StackType
<1>2. /\ Main \in AllThreads /\ Threads \subseteq AllThreads /\ Main \notin Threads
      /\ Java \in Engines
  BY ThreadsAssumption DEF AllThreads, Engines
<1>3. t = Main => main.phase = "load" /\ main.todo = Engines /\ ~main.joining
  BY DEF Active, EngineInv, Loading
<1>4. \A u \in AllThreads : stack'[u] = IF u = t THEN s ELSE stack[u]
  BY <1>1
<1>5. \A e \in Engines : real'[e] = real[e] \/ (t = Main /\ real'[e] = "loaded")
  <2>1. CASE UNCHANGED <<real, imported>>
    BY <2>1
  <2>2. CASE t = Main /\ \E e \in Engines : real' = [real EXCEPT ![e] = "loaded"]
    BY <1>1, <2>2
  <2> QED
    BY <2>1, <2>2
<1>6. Loading'
  <2>1. CASE main' = main
    BY <1>2, <1>3, <1>4, <1>5, <2>1 DEF EngineInv, Loading
  <2>2. CASE main' # main
    <3>1. /\ t = Main /\ stack'[Main] = <<>>
          /\ main'.phase \in {"wait", "dispose"} /\ ~main'.joining
      BY <1>1, <1>2, <1>3, <1>4, <2>2 DEF Program
    <3> QED
      BY <1>3, <1>5, <3>1 DEF EngineInv, Loading
  <2> QED
    BY <2>1, <2>2
<1>7. ThreadsStarted'
  <2>1. \A c \in Threads : status'[c] # "running" => stack'[c] = <<>>
    BY <1>2, <1>4 DEF EngineInv, ThreadsStarted, Active
  <2>2. real'[Java] = "none" => real[Java] = "none"
    BY <1>1, <1>2, <1>5
  <2>3. real'[Java] = "none" => \A u \in AllThreads : UnlockedIn(stack'[u]) = {}
    BY <1>4, <2>2 DEF EngineInv, ThreadsStarted
  <2> QED
    BY <2>1, <2>2, <2>3 DEF EngineInv, ThreadsStarted
<1>8. ThreadsJoined'
  <2>1. CASE main' = main
    BY <2>1 DEF EngineInv, ThreadsJoined, Quiet
  <2>2. CASE main' # main
    <3>1. /\ main'.phase = "wait" => Java \in main'.todo
          /\ main'.phase # "wait" => main'.failed
      BY <1>1, <1>2, <1>3, <2>2 DEF Program
    <3>2. main'.phase \in {"wait", "dispose"}
      BY <1>1, <1>2, <1>3, <2>2 DEF Program
    <3> QED
      BY <3>1, <3>2 DEF ThreadsJoined
  <2> QED
    BY <2>1, <2>2
<1>9. GlobalImported'
  <2>1. CASE UNCHANGED <<real, imported>>
    BY <2>1 DEF EngineInv, GlobalImported
  <2>2. CASE t = Main /\ \E e \in Engines : /\ real' = [real EXCEPT ![e] = "loaded"]
                                            /\ imported' = [imported EXCEPT ![e] = aseglobal[e]]
    <3>1. \A e \in Engines : aseglobal[e]
      BY <1>3, <2>2 DEF EngineInv, Loading
    <3> QED
      BY <1>1, <2>2, <3>1 DEF EngineInv, GlobalImported
  <2> QED
    BY <2>1, <2>2
<1>10. LoadedIsReal'
  <2>1. \A e \in Engines : real[e] # "none" => real'[e] # "none"
    BY <1>5
  <2>2. \A e \in Engines : loaded'[e] => loaded[e] \/ real[e] # "none"
    BY <1>1
  <2> QED
    BY <2>1, <2>2 DEF EngineInv, LoadedIsReal
<1> QED
  BY <1>6, <1>7, <1>8, <1>9, <1>10 DEF EngineInv

LEMMA UnlockedPop ==
    ASSUME NEW s \in Seq(Frame), NEW n \in Nat
    PROVE  /\ UnlockedIn(SubSeq(s, 1, Len(s) - n)) \subseteq UnlockedIn(s)
           /\ Len(s) <= n => SubSeq(s, 1, Len(s) - n) = <<>>
<1>1. Len(s) \in Nat /\ Len(s) - n \in Int
  BY LenProperties
<1>2. CASE Len(s) <= n
  <2>1. SubSeq(s, 1, Len(s) - n) = <<>>
    BY <1>1, <1>2, SubSeqEmpty
  <2>2. UnlockedIn(<<>>) = {}
    BY DEF UnlockedIn
  <2> QED
    BY <2>1, <2>2
<1>3. CASE ~(Len(s) <= n)
  <2> DEFINE m == Len(s) - n
  <2>1. m \in Nat /\ m <= Len(s)
    BY <1>1, <1>3
  <2>2. \A i \in 1 .. m : i \in 1 .. Len(s) /\ s[i] \in Frame /\ 1 + i - 1 = i
    BY <1>1, <2>1, ElementOfSeq
  <2>3. m - 1 + 1 = m
    BY <2>1
  <2> HIDE DEF m
  <2>4. Len(SubSeq(s, 1, m)) = m /\ \A i \in 1 .. m : SubSeq(s, 1, m)[i] = s[i]
    BY <2>1, <2>2, <2>3, SubSeqProperties
  <2>5. UnlockedIn(SubSeq(s, 1, m)) \subseteq UnlockedIn(s)
    BY <2>2, <2>4 DEF UnlockedIn
  <2> QED
    BY <1>3, <2>5 DEF m
<1> QED
  BY <1>2, <1>3

LEMMA UnlockedReplace ==
    ASSUME NEW s \in Seq(Frame), s # <<>>, NEW x \in Frame, x.unlocked = s[Len(s)].unlocked
    PROVE  UnlockedIn([s EXCEPT ![Len(s)] = x]) = UnlockedIn(s)
<1> DEFINE r == [s EXCEPT ![Len(s)] = x]
<1>1. Len(r) = Len(s) /\ \A i \in 1 .. Len(s) : r[i] = IF i = Len(s) THEN x ELSE s[i]
  BY FrontTop, ExceptSeq
<1> HIDE DEF r
<1>2. UnlockedIn(r) = UnlockedIn(s)
  BY <1>1 DEF UnlockedIn
<1> QED
  BY <1>2 DEF r

(* A thread that unlocked the mutex called a Java object.                   *)
LEMMA UnlockedNeedsJava ==
    ASSUME Inv, EngineInv, NEW t \in AllThreads
    PROVE  /\ stack[t] \in Seq(Frame)
           /\ UnlockedIn(stack[t]) # {} => real[Java] # "none"
  BY DEF Inv, LockInv, StackType, EngineInv, ThreadsStarted

LEMMA EnterEngineInv ==
    ASSUME Inv, EngineInv, NEW t \in AllThreads, stack[t] # <<>> \/ Active(t),
           NEW k \in Guards, NEW e \in Engines, Push(t, NewFrame(k, e)),
           UNCHANGED <<main, status, engineVars>>
    PROVE  EngineInv'
<1> DEFINE s == Append(stack[t], NewFrame(k, e))
<1>1. UnlockedIn(s) = UnlockedIn(stack[t])
  BY UnlockedNeedsJava, NewFrameType, UnlockedAppend
<1>2. Active(t) /\ stack' = [stack EXCEPT ![t] = s]
  BY ActiveRuns DEF Push
<1>3. UNCHANGED <<real, aseglobal, imported, loaded>>
  BY DEF engineVars
<1>4. UnlockedIn(s) # {} => real[Java] # "none"
  BY <1>1, UnlockedNeedsJava
<1> HIDE DEF s
<1> QED
  BY <1>2, <1>3, <1>4, StackStep

LEMMA LeaveEngineInv ==
    ASSUME Inv, EngineInv, NEW t \in AllThreads, stack[t] # <<>>,
           NEW n \in Nat, NEW ok, Leave(t, n, ok),
           UNCHANGED <<status, aseglobal>>,
           \/ UNCHANGED <<real, imported>>
           \/ /\ t = Main
              /\ \E e \in Engines : /\ real' = [real EXCEPT ![e] = "loaded"]
                                    /\ imported' = [imported EXCEPT ![e] = aseglobal[e]],
           \/ UNCHANGED loaded
           \/ \E e \in Engines : real[e] # "none" /\ loaded' = [loaded EXCEPT ![e] = TRUE]
    PROVE  EngineInv'
<1> DEFINE s == SubSeq(stack[t], 1, Len(stack[t]) - n)
<1>1. stack[t] \in Seq(Frame) /\ Len(stack[t]) \in Nat
  BY UnlockedNeedsJava, LenProperties
<1>2. UnlockedIn(s) # {} => real[Java] # "none"
  BY UnlockedNeedsJava, UnlockedPop
<1>3. Active(t) /\ stack' = [stack EXCEPT ![t] = s]
  BY ActiveRuns DEF Leave, Pop, Below, Height
<1>4. \/ main' = main
      \/ /\ t = Main /\ s = <<>>
         /\ \/ main' = [main EXCEPT !.phase = "wait"]
            \/ main' = [main EXCEPT !.phase = "dispose", !.failed = TRUE]
  <2>1. CASE t # Main \/ Height(t) > n
    BY <2>1 DEF Leave
  <2>2. CASE ~(t # Main \/ Height(t) > n)
    <3>1. Len(stack[t]) <= n
      BY <1>1, <2>2 DEF Height
    <3>2. s = <<>>
      BY <1>1, <3>1, UnlockedPop
    <3>3. main' = IF ok THEN [main EXCEPT !.phase = "wait"]
                  ELSE [main EXCEPT !.phase = "dispose", !.failed = TRUE]
      BY <2>2 DEF Leave
    <3> HIDE DEF s
    <3> QED
      BY <2>2, <3>2, <3>3
  <2> QED
    BY <2>1, <2>2
<1> HIDE DEF s
<1> QED
  BY <1>2, <1>3, <1>4, StackStep

(* Steps of a thread inside a guard or a call.                              *)
LEMMA ProgressEngineInv ==
    ASSUME Inv, EngineInv, NEW t \in AllThreads,
           \/ Acquire(t) \/ NeedEngine(t) \/ EnterFile(t)
           \/ CreateEngine(t) \/ CreateFails(t) \/ KeepGlobal(t) \/ LoadFails(t)
           \/ LuaReturns(t) \/ CallOutReturns(t)
    PROVE  EngineInv'
<1>0. {"load", "delayload", "use", "get", "lua"} = Guards /\ Lua \in Engines
  BY DEF Guards, Engines
<1>1. CASE Acquire(t)
  <2>1. PICK x \in Frame :
          /\ x.unlocked = Top(t).unlocked
          /\ stack' = [stack EXCEPT ![t] = [stack[t] EXCEPT ![Len(stack[t])] = x]]
    BY <1>1, AcquireStack
  <2>2. stack[t] \in Seq(Frame) /\ stack[t] # <<>> /\ Top(t) = stack[t][Len(stack[t])]
    BY <1>1, UnlockedNeedsJava DEF Acquire, Top, Height
  <2> DEFINE s == [stack[t] EXCEPT ![Len(stack[t])] = x]
  <2>3. UnlockedIn(s) # {} => real[Java] # "none"
    BY <2>1, <2>2, UnlockedReplace, UnlockedNeedsJava
  <2>4. stack' = [stack EXCEPT ![t] = s]
    BY <2>1
  <2>5. Active(t) /\ UNCHANGED <<main, status, real, aseglobal, imported, loaded>>
    BY <1>1, <2>2, ActiveRuns DEF Acquire, engineVars
  <2> HIDE DEF s
  <2> QED
    BY <2>3, <2>4, <2>5, StackStep
<1>2. CASE NeedEngine(t)
  <2>1. /\ stack[t] # <<>> /\ Push(t, NewFrame("get", Top(t).eng))
        /\ UNCHANGED <<main, status, engineVars>>
    BY <1>2 DEF NeedEngine, Inside, At
  <2>2. Top(t).eng \in Engines
    BY <2>1, TopType DEF Inv
  <2> QED
    BY <1>0, <2>1, <2>2, EnterEngineInv
<1>3. CASE EnterFile(t)
  <2>1. /\ stack[t] # <<>> /\ UNCHANGED <<main, status, engineVars>>
        /\ \E k \in Guards : Push(t, NewFrame(k, Lua))
    BY <1>0, <1>3 DEF EnterFile, Inside, At
  <2> QED
    BY <1>0, <2>1, EnterEngineInv
<1>4. CASE CreateEngine(t)
  <2>1. /\ stack[t] # <<>> /\ Leave(t, 1, TRUE) /\ t = Main
        /\ UNCHANGED <<status, aseglobal, loaded>>
        /\ real' = [real EXCEPT ![Top(t).eng] = "loaded"]
        /\ imported' = [imported EXCEPT ![Top(t).eng] = aseglobal[Top(t).eng]]
    BY <1>4 DEF CreateEngine, MayCreate, Inside, At
  <2>2. Top(t).eng \in Engines /\ 1 \in Nat
    BY <2>1, TopType DEF Inv
  <2> QED
    BY <2>1, <2>2, LeaveEngineInv
<1>5. CASE CreateFails(t)
  <2>1. /\ stack[t] # <<>> /\ Leave(t, 2, FALSE) /\ 2 \in Nat
        /\ UNCHANGED <<status, real, aseglobal, imported, loaded>>
    BY <1>5 DEF CreateFails, Inside, At, engineVars
  <2> QED
    BY <2>1, LeaveEngineInv
<1>6. CASE KeepGlobal(t)
  <2>1. /\ stack[t] # <<>> /\ Leave(t, 1, TRUE)
        /\ UNCHANGED <<status, real, aseglobal, imported>>
        /\ real[Top(t).eng] # "none"
        /\ loaded' = [loaded EXCEPT ![Top(t).eng] = TRUE]
    BY <1>6 DEF KeepGlobal, Inside, At
  <2>2. Top(t).eng \in Engines /\ 1 \in Nat
    BY <2>1, TopType DEF Inv
  <2> QED
    BY <2>1, <2>2, LeaveEngineInv
<1>7. CASE LoadFails(t)
  <2>1. /\ stack[t] # <<>> /\ Leave(t, 1, FALSE) /\ 1 \in Nat
        /\ UNCHANGED <<status, real, aseglobal, imported, loaded>>
    BY <1>7 DEF LoadFails, Inside, At, engineVars
  <2> QED
    BY <2>1, LeaveEngineInv
<1>8. CASE LuaReturns(t)
  <2>1. /\ stack[t] # <<>>
        /\ \E n \in Nat, ok \in BOOLEAN : Leave(t, n, ok)
        /\ UNCHANGED <<status, real, aseglobal, imported, loaded>>
    BY <1>8 DEF LuaReturns, Inside, At, engineVars
  <2> QED
    BY <2>1, LeaveEngineInv
<1>9. CASE CallOutReturns(t)
  <2>1. /\ stack[t] # <<>> /\ Pop(t, 1)
        /\ UNCHANGED <<main, status, real, aseglobal, imported, loaded>>
    BY <1>9 DEF CallOutReturns, At, engineVars
  <2> DEFINE s == SubSeq(stack[t], 1, Len(stack[t]) - 1)
  <2>2. stack' = [stack EXCEPT ![t] = s]
    BY <2>1 DEF Pop, Below, Height
  <2>3. UnlockedIn(s) # {} => real[Java] # "none"
    <3>1. UnlockedIn(s) \subseteq UnlockedIn(stack[t])
      BY UnlockedNeedsJava, UnlockedPop
    <3> QED
      BY <3>1, UnlockedNeedsJava
  <2>4. Active(t)
    BY <2>1, ActiveRuns
  <2> HIDE DEF s
  <2> QED
    BY <2>1, <2>2, <2>3, <2>4, StackStep
<1> QED
  BY <1>1, <1>2, <1>3, <1>4, <1>5, <1>6, <1>7, <1>8, <1>9

(* Calls of foreign code, and the script itself.                            *)
LEMMA CallEngineInv ==
    ASSUME Inv, EngineInv, NEW t \in AllThreads,
           \/ t = Main /\ RunScript
           \/ LoadFile(t) \/ CallLua(t)
           \/ \E e \in Engines : UseGlobal(t, e)
           \/ \E b \in BOOLEAN : CallOut(t, b)
           \/ t = Main /\ \E c \in Threads : Join(c)
    PROVE  EngineInv'
<1>0. {"load", "delayload", "use", "get", "lua"} = Guards /\ Lua \in Engines
  BY DEF Guards, Engines
<1>1. CASE t = Main /\ RunScript
  <2>1. /\ Active(t) /\ Push(t, NewFrame("load", Lua))
        /\ UNCHANGED <<main, status, engineVars>>
    BY <1>1, ThreadsAssumption DEF RunScript, Active
  <2> QED
    BY <1>0, <2>1, EnterEngineInv
<1>2. CASE LoadFile(t)
  <2>1. /\ Foreign(t) /\ Push(t, NewFrame("load", Lua))
        /\ UNCHANGED <<main, status, engineVars>>
    BY <1>2 DEF LoadFile
  <2> QED
    BY <1>0, <2>1, ActiveRuns, EnterEngineInv
<1>3. CASE CallLua(t)
  <2>1. /\ Foreign(t) /\ Push(t, NewFrame("lua", Lua))
        /\ UNCHANGED <<main, status, engineVars>>
    BY <1>3 DEF CallLua
  <2> QED
    BY <1>0, <2>1, ActiveRuns, EnterEngineInv
<1>4. CASE \E e \in Engines : UseGlobal(t, e)
  <2>1. /\ Foreign(t) /\ \E e \in Engines : Push(t, NewFrame("use", e))
        /\ UNCHANGED <<main, status, engineVars>>
    BY <1>4 DEF UseGlobal
  <2> QED
    BY <1>0, <2>1, ActiveRuns, EnterEngineInv
<1>5. CASE \E b \in BOOLEAN : CallOut(t, b)
  <2>1. PICK b \in BOOLEAN : CallOut(t, b)
    BY <1>5
  <2> DEFINE f == [NewFrame("out", Lua) EXCEPT !.unlocked = b]
             s == Append(stack[t], f)
  <2>2. f \in Frame /\ f.unlocked = b
    BY <1>0 DEF NewFrame, Frame
  <2>3. stack[t] # <<>> /\ (b => real[Java] = "loaded") /\ Push(t, f)
        /\ UNCHANGED <<main, status, real, aseglobal, imported, loaded>>
    BY <2>1 DEF CallOut, Inside, At, engineVars
  <2>4. UnlockedIn(s) # {} => real[Java] # "none"
    <3> HIDE DEF f
    <3>1. ~b => UnlockedIn(s) = UnlockedIn(stack[t])
      BY <2>2, UnlockedNeedsJava, UnlockedAppend
    <3> QED
      BY <2>3, <3>1, UnlockedNeedsJava
  <2>5. Active(t) /\ stack' = [stack EXCEPT ![t] = s]
    BY <2>3, ActiveRuns DEF Push
  <2> HIDE DEF f, s
  <2> QED
    BY <2>3, <2>4, <2>5, StackStep
<1>6. CASE t = Main /\ \E c \in Threads : Join(c)
  <2>1. PICK c \in Threads : Join(c)
    BY <1>6
  <2>2. PICK x \in Frame :
          /\ x.unlocked = Top(Main).unlocked
          /\ stack' = [stack EXCEPT ![Main] = [stack[Main] EXCEPT ![Len(stack[Main])] = x]]
    BY <2>1, JoinInv
  <2>3. /\ stack[t] \in Seq(Frame) /\ stack[t] # <<>> /\ Top(t) = stack[t][Len(stack[t])]
        /\ UNCHANGED <<main, status, real, aseglobal, imported, loaded>>
    BY <1>6, <2>1, UnlockedNeedsJava, JoinInv DEF Join, Top, Height, engineVars
  <2> DEFINE s == [stack[t] EXCEPT ![Len(stack[t])] = x]
  <2>4. UnlockedIn(s) # {} => real[Java] # "none"
    BY <1>6, <2>2, <2>3, UnlockedReplace, UnlockedNeedsJava
  <2>5. Active(t) /\ stack' = [stack EXCEPT ![t] = s]
    BY <1>6, <2>2, <2>3, ActiveRuns
  <2> HIDE DEF s
  <2> QED
    BY <2>3, <2>4, <2>5, StackStep
<1> QED
  BY <1>1, <1>2, <1>3, <1>4, <1>5, <1>6

(* A thread starts: only while some thread runs or the script is loading.   *)
LEMMA StartEngineInv ==
    ASSUME Inv, EngineInv, NEW t \in AllThreads, NEW c \in Threads, StartThread(t, c)
    PROVE  EngineInv'
<1>1. /\ Foreign(t) /\ (At(t, "out") => Top(t).unlocked)
      /\ status[c] = "new" /\ status' = [status EXCEPT ![c] = "running"]
      /\ UNCHANGED <<main, stack, real, aseglobal, imported, loaded>>
  BY DEF StartThread, engineVars
<1>2. Active(t) /\ (t \in Threads => real[Java] # "none")
  BY <1>1, ActiveRuns
<1>3. real[Java] # "none"
  <2>1. CASE t \in Threads
    BY <1>2, <2>1
  <2>2. CASE t = Main
    <3>1. stack[t] # <<>> /\ Top(t).unlocked
      BY <1>1, <2>2, ThreadsAssumption DEF Foreign, At
    <3>2. Len(stack[t]) \in 1 .. Len(stack[t])
      BY <3>1, FrontTop, UnlockedNeedsJava
    <3>3. UnlockedIn(stack[t]) # {}
      BY <3>1, <3>2 DEF UnlockedIn, Top, Height
    <3> QED
      BY <3>3, UnlockedNeedsJava
  <2> QED
    BY <2>1, <2>2 DEF AllThreads
<1>4. Quiet => main.phase = "load"
  BY <1>2 DEF Active, Quiet, AllThreads
<1>5. status \in [Threads -> {"new", "running", "ended"}]
  BY DEF Inv, RestType
<1>6. ThreadsStarted'
  BY <1>1, <1>3, <1>5 DEF EngineInv, ThreadsStarted
<1>7. ThreadsJoined'
  BY <1>1, <1>4 DEF EngineInv, ThreadsJoined
<1>8. Loading' /\ GlobalImported' /\ LoadedIsReal'
  BY <1>1 DEF EngineInv, Loading, GlobalImported, LoadedIsReal
<1> QED
  BY <1>6, <1>7, <1>8 DEF EngineInv

LEMMA EndThreadEngineInv ==
    ASSUME Inv, EngineInv, NEW c \in Threads, EndThread(c)
    PROVE  EngineInv'
<1>1. /\ status[c] = "running" /\ stack[c] = <<>>
      /\ status' = [status EXCEPT ![c] = "ended"]
      /\ UNCHANGED <<main, stack, real, aseglobal, imported, loaded>>
  BY DEF EndThread, engineVars
<1>2. status \in [Threads -> {"new", "running", "ended"}]
  BY DEF Inv, RestType
<1>3. \A u \in Threads : status'[u] = "running" => status[u] = "running"
  BY <1>1, <1>2
<1>4. ThreadsStarted'
  BY <1>1, <1>2 DEF EngineInv, ThreadsStarted
<1>5. ThreadsJoined'
  BY <1>1, <1>3 DEF EngineInv, ThreadsJoined, Quiet
<1>6. Loading' /\ GlobalImported' /\ LoadedIsReal'
  BY <1>1 DEF EngineInv, Loading, GlobalImported, LoadedIsReal
<1> QED
  BY <1>4, <1>5, <1>6 DEF EngineInv

(* The end of the program.                                                  *)
LEMMA EndEngineInv ==
    ASSUME Inv, EngineInv,
           \/ JoinAll \/ WaitEnds \/ Destroy
           \/ \E e \in Engines : WaitEngine(e) \/ Dispose(e)
    PROVE  EngineInv'
<1>0. /\ main \in Program /\ real \in [Engines -> {"none", "loaded", "disposed", "destroyed"}]
      /\ aseglobal \in [Engines -> BOOLEAN] /\ Java \in Engines
  BY DEF Inv, RestType, Engines
<1>1. /\ UNCHANGED <<stack, status, imported, loaded>>
      /\ \A e \in Engines : real'[e] = "none" <=> real[e] = "none"
  <2>1. CASE JoinAll \/ WaitEnds \/ \E e \in Engines : WaitEngine(e)
    BY <2>1 DEF JoinAll, WaitEnds, WaitEngine, engineVars
  <2>2. CASE Destroy
    BY <2>2 DEF Destroy
  <2>3. CASE \E e \in Engines : Dispose(e)
    BY <1>0, <2>3 DEF Dispose
  <2> QED
    BY <2>1, <2>2, <2>3
<1>2. ThreadsStarted' /\ GlobalImported' /\ LoadedIsReal'
  BY <1>0, <1>1 DEF EngineInv, ThreadsStarted, GlobalImported, LoadedIsReal
<1>3. CASE JoinAll
  <2>1. /\ main.joining /\ Quiet
        /\ main' = [main EXCEPT !.joining = FALSE]
        /\ UNCHANGED <<status, stack, real, aseglobal>>
    BY <1>3 DEF JoinAll, Quiet, engineVars
  <2>2. main'.phase = "wait" /\ main.phase = "wait" /\ ~main'.joining
    BY <1>0, <2>1 DEF EngineInv, Loading, Program
  <2>3. Loading' /\ ThreadsJoined'
    BY <2>1, <2>2 DEF EngineInv, Loading, ThreadsJoined, Quiet
  <2> QED
    BY <1>2, <2>3 DEF EngineInv
<1>4. CASE WaitEnds
  <2>1. /\ main.phase = "wait" /\ Quiet
        /\ main' = [main EXCEPT !.phase = "dispose", !.todo = Engines]
        /\ ~main.joining /\ UNCHANGED <<status, stack, real, aseglobal>>
    BY <1>4 DEF WaitEnds, EngineInv, ThreadsJoined, engineVars
  <2>2. main'.phase = "dispose" /\ ~main'.joining
    BY <1>0, <2>1 DEF Program
  <2>3. Loading' /\ ThreadsJoined'
    BY <2>1, <2>2 DEF EngineInv, Loading, ThreadsJoined, Quiet
  <2> QED
    BY <1>2, <2>3 DEF EngineInv
<1>5. CASE \E e \in Engines : WaitEngine(e)
  <2>1. PICK e \in Engines :
          /\ main.phase = "wait" /\ ~main.joining /\ e \in main.todo
          /\ main' = [main EXCEPT !.todo = @ \ {e},
                                  !.joining = (e = Java /\ real[e] = "loaded")]
          /\ UNCHANGED <<status, stack, real>>
    BY <1>5 DEF WaitEngine
  <2>2. /\ main'.phase = "wait" /\ main'.todo = main.todo \ {e}
        /\ main'.joining <=> (e = Java /\ real[e] = "loaded")
    BY <1>0, <2>1 DEF Program
  <2>3. Loading'
    BY <2>1, <2>2 DEF EngineInv, Loading
  <2>4. ASSUME Java \notin main'.todo, ~main'.joining
        PROVE  Quiet'
    <3>1. CASE e # Java
      BY <2>1, <2>2, <2>4, <3>1 DEF EngineInv, ThreadsJoined, Quiet
    <3>2. CASE e = Java
      <4>1. real[Java] = "none"
        BY <1>0, <2>1, <2>2, <2>4, <3>2 DEF EngineInv, Loading
      <4> QED
        BY <2>1, <4>1 DEF EngineInv, ThreadsStarted, Quiet
    <3> QED
      BY <3>1, <3>2
  <2>5. ThreadsJoined'
    BY <2>2, <2>4 DEF ThreadsJoined
  <2> QED
    BY <1>2, <2>3, <2>5 DEF EngineInv
<1>6. CASE \E e \in Engines : Dispose(e)
  <2>1. PICK e \in Engines :
          /\ main.phase = "dispose"
          /\ main' = [main EXCEPT !.todo = @ \ {e}]
          /\ UNCHANGED <<status, stack>>
    BY <1>6 DEF Dispose
  <2>2. main'.phase = "dispose" /\ main'.joining = main.joining /\ main'.failed = main.failed
    BY <1>0, <2>1 DEF Program
  <2>3. Loading' /\ ThreadsJoined'
    BY <2>1, <2>2 DEF EngineInv, Loading, ThreadsJoined, Quiet
  <2> QED
    BY <1>2, <2>3 DEF EngineInv
<1>7. CASE Destroy
  <2>1. /\ main.phase = "dispose"
        /\ main' = [main EXCEPT !.phase = "ended"]
        /\ UNCHANGED <<status, stack>>
    BY <1>7 DEF Destroy
  <2>2. main'.phase = "ended" /\ main'.joining = main.joining /\ main'.failed = main.failed
    BY <1>0, <2>1 DEF Program
  <2>3. Loading' /\ ThreadsJoined'
    BY <2>1, <2>2 DEF EngineInv, Loading, ThreadsJoined, Quiet
  <2> QED
    BY <1>2, <2>3 DEF EngineInv
<1> QED
  BY <1>3, <1>4, <1>5, <1>6, <1>7

LEMMA NextEngineInv == Inv /\ EngineInv /\ [Next]_vars => EngineInv'
<1> SUFFICES ASSUME Inv, EngineInv, [Next]_vars PROVE EngineInv'
  OBVIOUS
<1>0. Main \in AllThreads
  BY DEF AllThreads
<1>1. CASE MainProgram
  <2>1. CASE RunScript
    BY <1>0, <2>1, CallEngineInv
  <2>2. CASE ~RunScript
    BY <1>1, <2>2, EndEngineInv DEF MainProgram
  <2> QED
    BY <2>1, <2>2
<1>2. ASSUME NEW t \in AllThreads, Progress(t)
      PROVE  EngineInv'
  <2>1. CASE t \in Threads /\ EndThread(t)
    BY <2>1, EndThreadEngineInv
  <2>2. CASE ~(t \in Threads /\ EndThread(t))
    BY <1>2, <2>2, ProgressEngineInv DEF Progress
  <2> QED
    BY <2>1, <2>2
<1>3. ASSUME NEW t \in AllThreads, Call(t)
      PROVE  EngineInv'
  <2>1. CASE \E c \in Threads : StartThread(t, c)
    BY <2>1, StartEngineInv
  <2>2. CASE ~\E c \in Threads : StartThread(t, c)
    BY <1>3, <2>2, CallEngineInv DEF Call
  <2> QED
    BY <2>1, <2>2
<1>4. CASE \E c \in Threads : Join(c)
  BY <1>0, <1>4, CallEngineInv
<1>5. CASE UNCHANGED vars
  BY <1>5 DEF vars, EngineInv, Loading, ThreadsStarted, ThreadsJoined, Quiet,
              GlobalImported, LoadedIsReal
<1> QED
  BY <1>1, <1>2, <1>3, <1>4, <1>5 DEF Next

LEMMA AlwaysEngineInv == Spec => [](Inv /\ EngineInv)
<1>1. Init => Inv /\ EngineInv
  BY InitInv, InitEngineInv
<1>2. Inv /\ EngineInv /\ [Next]_vars => Inv' /\ EngineInv'
  BY NextInv, NextEngineInv
<1> QED
  BY <1>1, <1>2, PTL DEF Spec

(* No engine is created after wait_threads has taken the ASE global away    *)
(* from it, although threads go on using the globals.                       *)
THEOREM GlobalsImported == Spec => []GlobalImported
<1>1. EngineInv => GlobalImported
  BY DEF EngineInv
<1> QED
  BY <1>1, AlwaysEngineInv, PTL

(* A global that counts as loaded has an engine.                            *)
THEOREM LoadedAreReal == Spec => []LoadedIsReal
<1>1. EngineInv => LoadedIsReal
  BY DEF EngineInv
<1> QED
  BY <1>1, AlwaysEngineInv, PTL

(* aserun destroys the engines only when every thread has ended, if the     *)
(* script was loaded without an exception.                                  *)
THEOREM EnginesOutlive == Spec => []EnginesOutliveThreads
<1>1. Inv /\ EngineInv => EnginesOutliveThreads
  <2> SUFFICES ASSUME Inv, EngineInv, main.phase = "ended", ~main.failed
               PROVE  /\ mutex.owner = NoThread
                      /\ \A c \in Threads : status[c] # "running" /\ stack[c] = <<>>
    BY DEF EnginesOutliveThreads
  <2>1. \A c \in Threads : status[c] # "running" /\ stack[c] = <<>>
    BY DEF EngineInv, ThreadsJoined, ThreadsStarted, Quiet
  <2>2. \A t \in AllThreads : stack[t] = <<>>
    BY <2>1 DEF EngineInv, Loading, AllThreads
  <2>3. mutex.owner = NoThread
    BY <2>2, HeldEmpty DEF Inv, LockInv, LockExact, MutexType
  <2> QED
    BY <2>1, <2>3
<1> QED
  BY <1>1, AlwaysEngineInv, PTL

(* wait_threads reads real_engine without the mutex; no step writes it      *)
(* meanwhile.                                                               *)
THEOREM EnginesFixed == Spec => EnginesFixedWhileWaiting
<1>1. Inv /\ EngineInv /\ [Next]_vars => [main.phase = "wait" => UNCHANGED real]_vars
  <2> SUFFICES ASSUME EngineInv, Next, main.phase = "wait"
               PROVE  UNCHANGED real
    BY DEF vars
  <2>1. ASSUME NEW t \in AllThreads, Progress(t)
        PROVE  UNCHANGED real
    <3>1. CASE CreateEngine(t)
      <4>1. t = Main /\ stack[t] # <<>>
        BY <3>1 DEF CreateEngine, MayCreate, Inside, At
      <4> QED
        BY <4>1 DEF EngineInv, Loading
    <3>2. CASE ~CreateEngine(t)
      BY <2>1, <3>2 DEF Progress, Acquire, NeedEngine, EnterFile, CreateFails, KeepGlobal,
         LoadFails, LuaReturns, CallOutReturns, EndThread, engineVars
    <3> QED
      BY <3>1, <3>2
  <2>2. ASSUME NEW t \in AllThreads, Call(t)
        PROVE  UNCHANGED real
    BY <2>2 DEF Call, LoadFile, CallLua, UseGlobal, CallOut, StartThread, engineVars
  <2>3. CASE MainProgram
    BY <2>3 DEF MainProgram, RunScript, JoinAll, WaitEnds, Destroy, WaitEngine, Dispose,
       engineVars
  <2>4. CASE \E c \in Threads : Join(c)
    BY <2>4 DEF Join, engineVars
  <2> QED
    BY <2>1, <2>2, <2>3, <2>4 DEF Next
<1> QED
  BY <1>1, AlwaysEngineInv, PTL DEF Spec, EnginesFixedWhileWaiting

-----------------------------------------------------------------------------
(* The Lua contexts.                                                        *)

(* The guards of a stack that have a context of their own.                  *)
LuaIn(s) == {i \in LockedIn(s) : s[i].kind = "lua"}

(* ContextsExact, with the places in the cache and on the stacks apart.     *)
CacheKnown == \A i \in 1 .. Len(cached) : cached[i] \in 1 .. contexts
GuardKnown == \A t \in AllThreads : \A i \in LuaIn(stack[t]) :
    stack[t][i].ctx \in 1 .. contexts
InCache(n) == \E i \in 1 .. Len(cached) : cached[i] = n
InGuard(n) == \E t \in AllThreads : \E i \in LuaIn(stack[t]) : stack[t][i].ctx = n
NoneLost == \A n \in 1 .. contexts : InCache(n) \/ InGuard(n)
CachedOnce == \A i, j \in 1 .. Len(cached) : cached[i] = cached[j] => i = j
NotBoth == \A n \in 1 .. contexts : ~(InCache(n) /\ InGuard(n))
UsedOnce == \A t, u \in AllThreads : \A i \in LuaIn(stack[t]), j \in LuaIn(stack[u]) :
    stack[t][i].ctx = stack[u][j].ctx => t = u /\ i = j

ContextInv ==
    CacheKnown /\ GuardKnown /\ NoneLost /\ CachedOnce /\ NotBoth /\ UsedOnce

(* The place of a context, and the context at a place, as ContextsExact     *)
(* writes them.                                                             *)
LEMMA ContextInvExact == Inv /\ ContextInv => ContextsExact
<1> SUFFICES ASSUME Inv, ContextInv PROVE ContextsExact
  OBVIOUS
<1> DEFINE used(t) == {i \in LockedIn(stack[t]) : stack[t][i].kind = "lua"}
           places == {<<NoThread, i>> : i \in 1 .. Len(cached)} \cup
                     UNION {{t} \X used(t) : t \in AllThreads}
           ctx(p) == IF p[1] = NoThread THEN cached[p[2]] ELSE stack[p[1]][p[2]].ctx
<1>1. \A t \in AllThreads : t # NoThread /\ used(t) = LuaIn(stack[t])
  BY ThreadsAssumption DEF LuaIn
<1>2. ASSUME NEW p \in places
      PROVE  \/ /\ p[1] = NoThread /\ p[2] \in 1 .. Len(cached)
                /\ p = <<NoThread, p[2]>> /\ ctx(p) = cached[p[2]]
             \/ /\ p[1] \in AllThreads /\ p[2] \in LuaIn(stack[p[1]])
                /\ p = <<p[1], p[2]>> /\ ctx(p) = stack[p[1]][p[2]].ctx
  <2>1. CASE p \in {<<NoThread, i>> : i \in 1 .. Len(cached)}
    BY <2>1
  <2>2. CASE p \in UNION {{t} \X used(t) : t \in AllThreads}
    <3>1. PICK t \in AllThreads : p \in {t} \X used(t)
      BY <2>2
    <3>2. p[1] = t /\ p[2] \in LuaIn(stack[t]) /\ p = <<t, p[2]>>
      BY <1>1, <3>1
    <3> QED
      BY <1>1, <3>2
  <2> QED
    BY <2>1, <2>2
<1>3. ASSUME NEW i \in 1 .. Len(cached)
      PROVE  <<NoThread, i>> \in places /\ ctx(<<NoThread, i>>) = cached[i]
  OBVIOUS
<1>4. ASSUME NEW t \in AllThreads, NEW i \in LuaIn(stack[t])
      PROVE  <<t, i>> \in places /\ ctx(<<t, i>>) = stack[t][i].ctx
  <2>1. <<t, i>> \in {t} \X used(t)
    BY <1>1
  <2> HIDE DEF used
  <2>2. <<t, i>> \in places
    BY <2>1
  <2>3. ctx(<<t, i>>) = stack[t][i].ctx
    BY <1>1
  <2> QED
    BY <2>2, <2>3
<1> HIDE DEF places, ctx
<1>5. {ctx(p) : p \in places} \subseteq 1 .. contexts
  BY <1>2 DEF ContextInv, CacheKnown, GuardKnown
<1>6. 1 .. contexts \subseteq {ctx(p) : p \in places}
  <2> SUFFICES ASSUME NEW n \in 1 .. contexts PROVE \E p \in places : ctx(p) = n
    OBVIOUS
  <2>1. CASE InCache(n)
    BY <1>3, <2>1 DEF InCache
  <2>2. CASE InGuard(n)
    BY <1>4, <2>2 DEF InGuard
  <2> QED
    BY <2>1, <2>2 DEF ContextInv, NoneLost
<1>7. ASSUME NEW p \in places, NEW q \in places, ctx(p) = ctx(q)
      PROVE  p = q
  <2> DEFINE n == ctx(p)
  <2>0. n \in 1 .. contexts
    BY <1>5
  <2>1. CASE p[1] = NoThread /\ q[1] = NoThread
    BY <1>1, <1>2, <1>7, <2>1 DEF ContextInv, CachedOnce
  <2>2. CASE p[1] # NoThread /\ q[1] # NoThread
    <3>1. /\ p[1] \in AllThreads /\ p[2] \in LuaIn(stack[p[1]])
          /\ q[1] \in AllThreads /\ q[2] \in LuaIn(stack[q[1]])
          /\ stack[p[1]][p[2]].ctx = stack[q[1]][q[2]].ctx
          /\ p = <<p[1], p[2]>> /\ q = <<q[1], q[2]>>
      BY <1>2, <1>7, <2>2
    <3>2. p[1] = q[1] /\ p[2] = q[2]
      BY <3>1 DEF ContextInv, UsedOnce
    <3> QED
      BY <3>1, <3>2
  <2>3. CASE p[1] = NoThread /\ q[1] # NoThread
    <3>1. InCache(n) /\ InGuard(n)
      BY <1>1, <1>2, <1>7, <2>3 DEF InCache, InGuard
    <3> QED
      BY <2>0, <3>1 DEF ContextInv, NotBoth
  <2>4. CASE p[1] # NoThread /\ q[1] = NoThread
    <3>1. InCache(n) /\ InGuard(n)
      BY <1>1, <1>2, <1>7, <2>4 DEF InCache, InGuard
    <3> QED
      BY <2>0, <3>1 DEF ContextInv, NotBoth
  <2> QED
    BY <2>1, <2>2, <2>3, <2>4
<1>8. {ctx(p) : p \in places} = 1 .. contexts /\ \A p, q \in places : ctx(p) = ctx(q) => p = q
  BY <1>5, <1>6, <1>7
<1> QED
  BY <1>8 DEF ContextsExact, places, ctx

(* A step of t that keeps the guards of t with a context.                   *)
SameContexts(s, r) == LuaIn(r) = LuaIn(s) /\ \A i \in LuaIn(s) : r[i].ctx = s[i].ctx

LEMMA ContextsKept ==
    ASSUME Inv, ContextInv, NEW t \in AllThreads, NEW s,
           stack' = [stack EXCEPT ![t] = s], SameContexts(stack[t], s), UNCHANGED luaVars
    PROVE  ContextInv'
<1>1. stack \in [AllThreads -> Seq(Frame)]
  BY DEF Inv, LockInv, StackType
<1>2. \A u \in AllThreads : /\ LuaIn(stack'[u]) = LuaIn(stack[u])
                            /\ \A i \in LuaIn(stack[u]) : stack'[u][i].ctx = stack[u][i].ctx
  BY <1>1 DEF SameContexts
<1>3. cached' = cached /\ contexts' = contexts
  BY DEF luaVars
<1>4. CacheKnown' /\ CachedOnce'
  BY <1>3 DEF ContextInv, CacheKnown, CachedOnce
<1>5. GuardKnown' /\ UsedOnce'
  BY <1>2, <1>3 DEF ContextInv, GuardKnown, UsedOnce
<1>6. \A n : (InGuard(n)' <=> InGuard(n)) /\ (InCache(n)' <=> InCache(n))
  BY <1>2, <1>3 DEF InGuard, InCache
<1>7. NoneLost' /\ NotBoth'
  BY <1>3, <1>6 DEF ContextInv, NoneLost, NotBoth
<1> QED
  BY <1>4, <1>5, <1>7 DEF ContextInv

(* A guard takes the last cached context, or a new one.                     *)
LEMMA ContextTaken ==
    ASSUME Inv, ContextInv, NEW t \in AllThreads, NEW s, NEW h,
           stack' = [stack EXCEPT ![t] = s],
           h \notin LuaIn(stack[t]), LuaIn(s) = LuaIn(stack[t]) \cup {h},
           \A i \in LuaIn(stack[t]) : s[i].ctx = stack[t][i].ctx,
           s[h].ctx = NextContext, cached' = CachedRest,
           contexts' = IF cached = <<>> THEN NextContext ELSE contexts
    PROVE  ContextInv'
<1>0. PICK c : c = NextContext
  OBVIOUS
<1>1. /\ stack \in [AllThreads -> Seq(Frame)]
      /\ cached \in Seq(Nat) /\ contexts \in Nat /\ Len(cached) \in Nat
  BY LenProperties DEF Inv, LockInv, StackType, RestType
<1>2. /\ \A u \in AllThreads : u # t => stack'[u] = stack[u]
      /\ stack'[t] = s
  BY <1>1
<1>3. /\ contexts' \in Nat /\ contexts <= contexts'
      /\ \A i \in 1 .. Len(cached') : /\ i \in 1 .. Len(cached) /\ cached'[i] = cached[i]
                                      /\ cached[i] # c
      /\ c \in 1 .. contexts'
      /\ ~InGuard(c)
      /\ \A i \in 1 .. Len(cached) : i \in 1 .. Len(cached') \/ cached[i] = c
      /\ \A n \in 1 .. contexts' : n \in 1 .. contexts \/ n = c
  <2>1. CASE cached = <<>>
    <3>1. c = contexts + 1 /\ contexts' = contexts + 1 /\ cached' = <<>> /\ Len(cached) = 0
      BY <1>0, <2>1 DEF NextContext, CachedRest
    <3>2. c \notin 1 .. contexts
      BY <1>1, <3>1
    <3>3. ~InGuard(c)
      BY <3>2 DEF ContextInv, GuardKnown, InGuard
    <3> QED
      BY <1>1, <2>1, <3>1, <3>3
  <2>2. CASE cached # <<>>
    <3>1. c = cached[Len(cached)] /\ contexts' = contexts
          /\ cached' = SubSeq(cached, 1, Len(cached) - 1)
      BY <1>0, <2>2 DEF NextContext, CachedRest
    <3>2. Len(cached) \in Nat \ {0} /\ Len(cached) - 1 \in Nat /\ Len(cached) \in 1 .. Len(cached)
      BY <1>1, <2>2, EmptySeq
    <3>3. Len(cached') = Len(cached) - 1 /\ \A i \in 1 .. Len(cached) - 1 : cached'[i] = cached[i]
      <4> DEFINE m == Len(cached) - 1
      <4>1. /\ m \in Nat /\ m - 1 + 1 = m
            /\ \A i \in 1 .. m : cached[i] \in Nat /\ 1 + i - 1 = i
        BY <1>1, <3>2, ElementOfSeq
      <4> HIDE DEF m
      <4>2. Len(SubSeq(cached, 1, m)) = m /\ \A i \in 1 .. m : SubSeq(cached, 1, m)[i] = cached[i]
        BY <4>1, SubSeqProperties
      <4> QED
        BY <3>1, <4>2 DEF m
    <3>4. c \in 1 .. contexts /\ InCache(c)
      BY <3>1, <3>2 DEF ContextInv, CacheKnown, InCache
    <3>5. ~InGuard(c)
      BY <3>4 DEF ContextInv, NotBoth
    <3>6. \A i \in 1 .. Len(cached) - 1 :
            /\ i \in 1 .. Len(cached) /\ cached[i] # c
      BY <3>1, <3>2 DEF ContextInv, CachedOnce
    <3>7. \A i \in 1 .. Len(cached) : i \in 1 .. Len(cached') \/ cached[i] = c
      BY <3>1, <3>2, <3>3
    <3>8. \A i \in 1 .. Len(cached') : /\ i \in 1 .. Len(cached) /\ cached'[i] = cached[i]
                                       /\ cached[i] # c
      BY <3>3, <3>6
    <3>9. contexts' \in Nat /\ contexts <= contexts' /\ c \in 1 .. contexts'
      BY <1>1, <3>1, <3>4
    <3> QED
      BY <3>1, <3>5, <3>7, <3>8, <3>9
  <2> QED
    BY <2>1, <2>2
<1>4. s[h].ctx = c
  BY <1>0
<1>5. \A n \in 1 .. contexts : n \in 1 .. contexts'
  BY <1>1, <1>3
<1>6. CacheKnown' /\ CachedOnce'
  BY <1>3, <1>5 DEF ContextInv, CacheKnown, CachedOnce
<1>7. GuardKnown'
  BY <1>2, <1>3, <1>4, <1>5 DEF ContextInv, GuardKnown
<1>8. \A n : InGuard(n)' <=> InGuard(n) \/ n = c
  BY <1>2, <1>4 DEF InGuard
<1>9. \A n : n # c => (InCache(n)' <=> InCache(n))
  BY <1>3 DEF InCache
<1>10. ~InCache(c)'
  BY <1>3 DEF InCache
<1>11. NoneLost'
  BY <1>3, <1>8, <1>9 DEF ContextInv, NoneLost
<1>12. NotBoth'
  BY <1>3, <1>8, <1>9, <1>10 DEF ContextInv, NotBoth
<1>13. UsedOnce'
  <2> SUFFICES ASSUME NEW u \in AllThreads, NEW v \in AllThreads,
                      NEW i \in LuaIn(stack'[u]), NEW j \in LuaIn(stack'[v]),
                      stack'[u][i].ctx = stack'[v][j].ctx
               PROVE  u = v /\ i = j
    BY DEF UsedOnce
  <2>1. \/ i \in LuaIn(stack[u]) /\ stack'[u][i].ctx = stack[u][i].ctx /\ stack[u][i].ctx # c
        \/ u = t /\ i = h /\ stack'[u][i].ctx = c
    BY <1>2, <1>3, <1>4 DEF InGuard
  <2>2. \/ j \in LuaIn(stack[v]) /\ stack'[v][j].ctx = stack[v][j].ctx /\ stack[v][j].ctx # c
        \/ v = t /\ j = h /\ stack'[v][j].ctx = c
    BY <1>2, <1>3, <1>4 DEF InGuard
  <2> QED
    BY <2>1, <2>2 DEF ContextInv, UsedOnce
<1> QED
  BY <1>6, <1>7, <1>11, <1>12, <1>13 DEF ContextInv

(* A guard caches its context as it ends.                                   *)
LEMMA ContextReturned ==
    ASSUME Inv, ContextInv, NEW t \in AllThreads, NEW s, NEW h \in LuaIn(stack[t]),
           stack' = [stack EXCEPT ![t] = s],
           LuaIn(s) = LuaIn(stack[t]) \ {h},
           \A i \in LuaIn(s) : s[i].ctx = stack[t][i].ctx,
           cached' = Append(cached, stack[t][h].ctx), contexts' = contexts
    PROVE  ContextInv'
<1> DEFINE l == Len(cached)
<1>0. PICK c : c = stack[t][h].ctx
  OBVIOUS
<1>1. /\ stack \in [AllThreads -> Seq(Frame)]
      /\ cached \in Seq(Nat) /\ contexts \in Nat /\ l \in Nat
  BY LenProperties DEF Inv, LockInv, StackType, RestType
<1>2. /\ \A u \in AllThreads : u # t => stack'[u] = stack[u]
      /\ stack'[t] = s
  BY <1>1
<1>3. c \in 1 .. contexts /\ InGuard(c) /\ ~InCache(c) /\ c \in Nat
  <2>1. c \in 1 .. contexts /\ InGuard(c)
    BY <1>0 DEF ContextInv, GuardKnown, InGuard
  <2> QED
    BY <1>1, <2>1 DEF ContextInv, NotBoth
<1>4. /\ Len(cached') = l + 1 /\ cached'[l + 1] = c
      /\ \A i \in 1 .. l : cached'[i] = cached[i]
  BY <1>0, <1>1, <1>3, AppendProperties
<1>5. \A i \in 1 .. l + 1 : i \in 1 .. l \/ i = l + 1
  BY <1>1
<1>6. \A i \in 1 .. l : cached[i] # c /\ i \in 1 .. l + 1
  BY <1>1, <1>3 DEF InCache
<1>7. CacheKnown'
  BY <1>3, <1>4, <1>5 DEF ContextInv, CacheKnown
<1>8. CachedOnce'
  BY <1>4, <1>5, <1>6 DEF ContextInv, CachedOnce
<1>9. GuardKnown'
  BY <1>2 DEF ContextInv, GuardKnown
<1>10. UsedOnce'
  BY <1>2 DEF ContextInv, UsedOnce
<1>11. \A n : InCache(n)' <=> InCache(n) \/ n = c
  <2>1. l + 1 \in 1 .. l + 1
    BY <1>1
  <2> QED
    BY <1>4, <1>5, <1>6, <2>1 DEF InCache
<1>12. \A n : InGuard(n)' <=> InGuard(n) /\ n # c
  <2>1. ASSUME NEW n, InGuard(n)'
        PROVE  InGuard(n) /\ n # c
    <3>1. PICK u \in AllThreads : \E i \in LuaIn(stack'[u]) : stack'[u][i].ctx = n
      BY <2>1 DEF InGuard
    <3>2. PICK i \in LuaIn(stack'[u]) : stack'[u][i].ctx = n
      BY <3>1
    <3>3. i \in LuaIn(stack[u]) /\ stack[u][i].ctx = n /\ ~(u = t /\ i = h)
      BY <1>2, <3>2
    <3>4. n # c
      BY <1>0, <3>3 DEF ContextInv, UsedOnce
    <3> QED
      BY <3>3, <3>4 DEF InGuard
  <2>2. ASSUME NEW n, InGuard(n), n # c
        PROVE  InGuard(n)'
    <3>1. PICK u \in AllThreads : \E i \in LuaIn(stack[u]) : stack[u][i].ctx = n
      BY <2>2 DEF InGuard
    <3>2. PICK i \in LuaIn(stack[u]) : stack[u][i].ctx = n
      BY <3>1
    <3>3. i \in LuaIn(stack'[u]) /\ stack'[u][i].ctx = n
      BY <1>0, <1>2, <2>2, <3>2
    <3> QED
      BY <3>3 DEF InGuard
  <2> QED
    BY <2>1, <2>2
<1>13. NoneLost' /\ NotBoth'
  BY <1>3, <1>11, <1>12 DEF ContextInv, NoneLost, NotBoth
<1> QED
  BY <1>7, <1>8, <1>9, <1>10, <1>13 DEF ContextInv

(* Pushing, popping and replacing frames, and the contexts of a stack.      *)
LEMMA LuaAppend ==
    ASSUME NEW s \in Seq(Frame), NEW f \in Frame, ~f.locked
    PROVE  SameContexts(s, Append(s, f))
<1> DEFINE a == Append(s, f)
<1>1. /\ Len(s) \in Nat /\ Len(a) = Len(s) + 1
      /\ \A i \in 1 .. Len(s) : a[i] = s[i]
      /\ a[Len(s) + 1] = f
  BY AppendProperties, LenProperties
<1> HIDE DEF a
<1>2. \A i : i \in 1 .. Len(s) + 1 <=> i \in 1 .. Len(s) \/ i = Len(s) + 1
  BY <1>1
<1>3. SameContexts(s, a)
  BY <1>1, <1>2 DEF SameContexts, LuaIn, LockedIn
<1> QED
  BY <1>3 DEF a

LEMMA LuaPop ==
    ASSUME NEW s \in Seq(Frame), NEW n \in Nat, n <= Len(s)
    PROVE  /\ LuaIn(SubSeq(s, 1, Len(s) - n)) = {i \in LuaIn(s) : i <= Len(s) - n}
           /\ \A i \in LuaIn(SubSeq(s, 1, Len(s) - n)) :
                 SubSeq(s, 1, Len(s) - n)[i].ctx = s[i].ctx
<1> DEFINE m == Len(s) - n
<1>1. m \in Nat /\ m <= Len(s) /\ Len(s) \in Nat
  BY LenProperties
<1>2. /\ \A i \in 1 .. m : i \in 1 .. Len(s) /\ s[i] \in Frame /\ 1 + i - 1 = i
      /\ m - 1 + 1 = m
      /\ \A i \in 1 .. Len(s) : i <= m <=> i \in 1 .. m
  BY <1>1, ElementOfSeq
<1> HIDE DEF m
<1>3. Len(SubSeq(s, 1, m)) = m /\ \A i \in 1 .. m : SubSeq(s, 1, m)[i] = s[i]
  BY <1>1, <1>2, SubSeqProperties
<1>4. /\ LuaIn(SubSeq(s, 1, m)) = {i \in LuaIn(s) : i <= m}
      /\ \A i \in LuaIn(SubSeq(s, 1, m)) : SubSeq(s, 1, m)[i].ctx = s[i].ctx
  BY <1>2, <1>3 DEF LuaIn, LockedIn
<1> QED
  BY <1>4 DEF m

LEMMA LuaReplace ==
    ASSUME NEW s \in Seq(Frame), s # <<>>, NEW x \in Frame, x.kind = s[Len(s)].kind
    PROVE  LET r == [s EXCEPT ![Len(s)] = x]
           IN  /\ x.kind # "lua" => SameContexts(s, r)
               /\ x.kind = "lua" /\ x.locked /\ ~s[Len(s)].locked =>
                     /\ Len(s) \notin LuaIn(s)
                     /\ LuaIn(r) = LuaIn(s) \cup {Len(s)}
                     /\ \A i \in LuaIn(s) : r[i].ctx = s[i].ctx
                     /\ r[Len(s)].ctx = x.ctx
<1> DEFINE r == [s EXCEPT ![Len(s)] = x]
<1>1. /\ Len(s) \in 1 .. Len(s)
      /\ Len(r) = Len(s) /\ \A i \in 1 .. Len(s) : r[i] = IF i = Len(s) THEN x ELSE s[i]
  BY FrontTop, ExceptSeq
<1> HIDE DEF r
<1>2. x.kind # "lua" => SameContexts(s, r)
  BY <1>1 DEF SameContexts, LuaIn, LockedIn
<1>3. ASSUME x.kind = "lua", x.locked, ~s[Len(s)].locked
      PROVE  /\ Len(s) \notin LuaIn(s)
             /\ LuaIn(r) = LuaIn(s) \cup {Len(s)}
             /\ \A i \in LuaIn(s) : r[i].ctx = s[i].ctx
             /\ r[Len(s)].ctx = x.ctx
  BY <1>1, <1>3 DEF LuaIn, LockedIn
<1> QED
  BY <1>2, <1>3 DEF r

(* A step of t that pushes a frame without a lock.                          *)
LEMMA PushContexts ==
    ASSUME Inv, ContextInv, NEW t \in AllThreads, NEW f \in Frame, ~f.locked,
           Push(t, f), UNCHANGED luaVars
    PROVE  ContextInv'
<1>1. stack[t] \in Seq(Frame)
  BY DEF Inv, LockInv, StackType
<1>2. stack' = [stack EXCEPT ![t] = Append(stack[t], f)]
  BY DEF Push
<1> QED
  BY <1>1, <1>2, LuaAppend, ContextsKept

(* A step of t that leaves frames without a context.                        *)
LEMMA PopContexts ==
    ASSUME Inv, ContextInv, NEW t \in AllThreads, NEW n \in {1, 2}, n <= Height(t),
           Top(t).kind # "lua", n = 2 => stack[t][Height(t) - 1].kind # "lua",
           Pop(t, n), UNCHANGED luaVars
    PROVE  ContextInv'
<1> DEFINE s == SubSeq(stack[t], 1, Len(stack[t]) - n)
<1>1. stack[t] \in Seq(Frame) /\ Len(stack[t]) \in Nat
  BY LenProperties DEF Inv, LockInv, StackType
<1>2. stack' = [stack EXCEPT ![t] = s]
  BY DEF Pop, Below, Height
<1>3. /\ LuaIn(s) = {i \in LuaIn(stack[t]) : i <= Len(stack[t]) - n}
      /\ \A i \in LuaIn(s) : s[i].ctx = stack[t][i].ctx
  <2>1. n \in Nat /\ n <= Len(stack[t])
    BY DEF Height
  <2> QED
    BY <1>1, <2>1, LuaPop
<1>4. \A i \in LuaIn(stack[t]) : i <= Len(stack[t]) - n
  <2> SUFFICES ASSUME NEW i \in LuaIn(stack[t]), ~(i <= Len(stack[t]) - n)
               PROVE  FALSE
    OBVIOUS
  <2>1. i \in 1 .. Len(stack[t]) /\ stack[t][i].kind = "lua"
    BY DEF LuaIn, LockedIn
  <2>2. i = Len(stack[t]) \/ (n = 2 /\ i = Len(stack[t]) - 1)
    BY <1>1, <2>1
  <2> QED
    BY <2>1, <2>2 DEF Top, Height
<1> HIDE DEF s
<1>5. SameContexts(stack[t], s)
  BY <1>3, <1>4 DEF SameContexts
<1> QED
  BY <1>2, <1>5, ContextsKept

LEMMA AcquireContexts ==
    ASSUME Inv, ContextInv, NEW t \in AllThreads, Acquire(t)
    PROVE  ContextInv'
<1>1. PICK x \in Frame :
        /\ x.kind = Top(t).kind /\ x.locked = TRUE
        /\ x.kind = "lua" => x.ctx = NextContext
        /\ stack' = [stack EXCEPT ![t] = [stack[t] EXCEPT ![Len(stack[t])] = x]]
  BY AcquireStack
<1>2. /\ stack[t] # <<>> /\ ~Top(t).locked
      /\ stack[t] \in Seq(Frame) /\ Top(t) = stack[t][Len(stack[t])]
  BY AcquireStack, TopType DEF Inv
<1> DEFINE s == [stack[t] EXCEPT ![Len(stack[t])] = x]
           h == Len(stack[t])
<1>3. CASE x.kind # "lua"
  <2>1. SameContexts(stack[t], s)
    BY <1>1, <1>2, <1>3, LuaReplace
  <2>2. UNCHANGED luaVars
    BY <1>1, <1>3 DEF Acquire
  <2> HIDE DEF s
  <2> QED
    BY <1>1, <2>1, <2>2, ContextsKept DEF s
<1>4. CASE x.kind = "lua"
  <2>1. /\ h \notin LuaIn(stack[t]) /\ LuaIn(s) = LuaIn(stack[t]) \cup {h}
        /\ \A i \in LuaIn(stack[t]) : s[i].ctx = stack[t][i].ctx
        /\ s[h].ctx = NextContext
    BY <1>1, <1>2, <1>4, LuaReplace
  <2>2. cached' = CachedRest /\ contexts' = IF cached = <<>> THEN NextContext ELSE contexts
    BY <1>1, <1>4 DEF Acquire
  <2>3. stack' = [stack EXCEPT ![t] = s]
    BY <1>1
  <2> HIDE DEF s, h
  <2> QED
    BY <2>1, <2>2, <2>3, ContextTaken
<1> QED
  BY <1>3, <1>4

LEMMA ReturnContexts ==
    ASSUME Inv, ContextInv, NEW t \in AllThreads, LuaReturns(t)
    PROVE  ContextInv'
<1>1. /\ stack[t] # <<>> /\ Top(t).kind = "lua" /\ Top(t).locked
      /\ cached' = Append(cached, Top(t).ctx) /\ contexts' = contexts
  BY DEF LuaReturns, Inside, At
<1>2. /\ stack[t] \in Seq(Frame) /\ Len(stack[t]) \in Nat \ {0}
      /\ Height(t) = Len(stack[t]) /\ Top(t) = stack[t][Len(stack[t])]
  BY <1>1, TopType DEF Inv
<1> DEFINE h == Len(stack[t])
<1>3. h \in LuaIn(stack[t])
  BY <1>1, <1>2 DEF LuaIn, LockedIn
<1>4. PICK n \in {1, 3} :
        /\ n <= h /\ Pop(t, n)
        /\ n = 3 => /\ stack[t][h - 1].kind # "lua"
                    /\ stack[t][h - 2].kind # "lua"
  <2>1. CASE Height(t) > 1 /\ stack[t][Height(t) - 1].kind = "delayload"
    <3>1. Height(t) >= 3 /\ stack[t][Height(t) - 2].kind = "load"
      BY <1>1, <2>1, UnderTop DEF Inv
    <3>2. Pop(t, 3)
      BY <2>1 DEF LuaReturns, Leave
    <3> QED
      BY <1>2, <2>1, <3>1, <3>2
  <2>2. CASE ~(Height(t) > 1 /\ stack[t][Height(t) - 1].kind = "delayload")
    <3>1. Pop(t, 1)
      BY <2>2 DEF LuaReturns, Leave
    <3> QED
      BY <1>2, <3>1
  <2> QED
    BY <2>1, <2>2
<1> DEFINE s == SubSeq(stack[t], 1, Len(stack[t]) - n)
<1>5. stack' = [stack EXCEPT ![t] = s]
  BY <1>4 DEF Pop, Below, Height
<1>6. /\ LuaIn(s) = {i \in LuaIn(stack[t]) : i <= h - n}
      /\ \A i \in LuaIn(s) : s[i].ctx = stack[t][i].ctx
  <2>1. n \in Nat /\ n <= Len(stack[t])
    BY <1>4
  <2> QED
    BY <1>2, <2>1, LuaPop
<1>7. \A i \in LuaIn(stack[t]) : i <= h - n <=> i # h
  <2> SUFFICES ASSUME NEW i \in LuaIn(stack[t]) PROVE i <= h - n <=> i # h
    OBVIOUS
  <2>1. i \in 1 .. h /\ stack[t][i].kind = "lua"
    BY DEF LuaIn, LockedIn
  <2>2. n = 3 => i # h - 1 /\ i # h - 2
    BY <1>4, <2>1
  <2> QED
    BY <1>2, <1>4, <2>1, <2>2
<1> HIDE DEF s, h
<1>8. LuaIn(s) = LuaIn(stack[t]) \ {h}
  BY <1>6, <1>7
<1>9. cached' = Append(cached, stack[t][h].ctx)
  BY <1>1, <1>2 DEF h
<1> QED
  BY <1>1, <1>3, <1>5, <1>6, <1>8, <1>9, ContextReturned

LEMMA ProgressContexts ==
    ASSUME Inv, ContextInv, NEW t \in AllThreads,
           \/ NeedEngine(t) \/ EnterFile(t)
           \/ CreateEngine(t) \/ CreateFails(t) \/ KeepGlobal(t) \/ LoadFails(t)
           \/ CallOutReturns(t)
    PROVE  ContextInv'
<1>0. /\ {"load", "delayload", "use", "get", "lua"} = Guards /\ Lua \in Engines
      /\ stack[t] # <<>>
  BY DEF Guards, Engines, NeedEngine, EnterFile, CreateEngine, CreateFails, KeepGlobal,
     LoadFails, CallOutReturns, Inside, At
<1>1. Height(t) \in Nat \ {0} /\ Height(t) >= 1 /\ Top(t).eng \in Engines
  BY <1>0, TopType DEF Inv
<1>2. CASE NeedEngine(t) \/ EnterFile(t)
  <2>1. /\ \E k \in Guards, e \in Engines : Push(t, NewFrame(k, e))
        /\ UNCHANGED luaVars
    BY <1>0, <1>1, <1>2 DEF NeedEngine, EnterFile
  <2> QED
    BY <2>1, NewFrameType, PushContexts
<1>3. CASE CreateEngine(t) \/ KeepGlobal(t) \/ LoadFails(t) \/ CallOutReturns(t)
  <2>1. /\ Top(t).kind \in {"get", "use", "load", "out"}
        /\ Pop(t, 1) /\ UNCHANGED luaVars
    BY <1>3 DEF CreateEngine, KeepGlobal, LoadFails, CallOutReturns, Inside, At, Leave
  <2> QED
    BY <1>1, <2>1, PopContexts
<1>4. CASE CreateFails(t)
  <2>1. Top(t).kind = "get" /\ Pop(t, 2) /\ UNCHANGED luaVars
    BY <1>4 DEF CreateFails, Inside, At, Leave
  <2>2. Height(t) >= 2 /\ stack[t][Height(t) - 1].kind \in {"load", "use"}
    BY <1>0, <2>1, UnderTop DEF Inv
  <2> QED
    BY <2>1, <2>2, PopContexts
<1> QED
  BY <1>2, <1>3, <1>4

LEMMA CallContexts ==
    ASSUME Inv, ContextInv, NEW t \in AllThreads,
           \/ t = Main /\ RunScript
           \/ LoadFile(t) \/ CallLua(t)
           \/ \E e \in Engines : UseGlobal(t, e)
           \/ \E b \in BOOLEAN : CallOut(t, b)
    PROVE  ContextInv'
<1>1. CASE \E b \in BOOLEAN : CallOut(t, b)
  <2>1. PICK b \in BOOLEAN : CallOut(t, b)
    BY <1>1
  <2> DEFINE f == [NewFrame("out", Lua) EXCEPT !.unlocked = b]
  <2>2. f \in Frame /\ f.locked = FALSE
    BY DEF NewFrame, Frame, Engines
  <2>3. Push(t, f) /\ UNCHANGED luaVars
    BY <2>1 DEF CallOut
  <2> HIDE DEF f
  <2> QED
    BY <2>2, <2>3, PushContexts
<1>2. CASE ~\E b \in BOOLEAN : CallOut(t, b)
  <2>1. {"load", "delayload", "use", "get", "lua"} = Guards /\ Lua \in Engines
    BY DEF Guards, Engines
  <2>2. /\ \E k \in Guards, e \in Engines : Push(t, NewFrame(k, e))
        /\ UNCHANGED luaVars
    BY <1>2, <2>1 DEF RunScript, LoadFile, CallLua, UseGlobal
  <2> QED
    BY <2>2, NewFrameType, PushContexts
<1> QED
  BY <1>1, <1>2

LEMMA JoinContexts ==
    ASSUME Inv, ContextInv, NEW c \in Threads, Join(c)
    PROVE  ContextInv'
<1>1. PICK f \in Frame :
        /\ f.kind = "out" /\ Top(Main).kind = "out"
        /\ stack' = [stack EXCEPT ![Main] = [stack[Main] EXCEPT ![Len(stack[Main])] = f]]
  BY JoinInv
<1>2. /\ Main \in AllThreads /\ stack[Main] # <<>>
      /\ stack[Main] \in Seq(Frame) /\ Top(Main) = stack[Main][Len(stack[Main])]
  BY JoinInv DEF AllThreads, Inv, LockInv, StackType, Top, Height
<1>3. SameContexts(stack[Main], [stack[Main] EXCEPT ![Len(stack[Main])] = f])
  BY <1>1, <1>2, LuaReplace
<1>4. UNCHANGED luaVars
  BY DEF Join
<1> QED
  BY <1>1, <1>2, <1>3, <1>4, ContextsKept

LEMMA NextContextInv == Inv /\ ContextInv /\ [Next]_vars => ContextInv'
<1> SUFFICES ASSUME Inv, ContextInv, [Next]_vars PROVE ContextInv'
  OBVIOUS
<1>0. Main \in AllThreads
  BY DEF AllThreads
<1>1. ASSUME UNCHANGED <<stack, luaVars>>
      PROVE  ContextInv'
  BY <1>1 DEF ContextInv, CacheKnown, GuardKnown, NoneLost, CachedOnce, NotBoth, UsedOnce,
     InCache, InGuard, luaVars
<1>2. CASE MainProgram
  <2>1. CASE RunScript
    BY <1>0, <2>1, CallContexts
  <2>2. CASE ~RunScript
    <3>1. UNCHANGED <<stack, luaVars>>
      BY <1>2, <2>2 DEF MainProgram, JoinAll, WaitEnds, Destroy, WaitEngine, Dispose
    <3> QED
      BY <1>1, <3>1
  <2> QED
    BY <2>1, <2>2
<1>3. ASSUME NEW t \in AllThreads, Progress(t)
      PROVE  ContextInv'
  <2>1. CASE Acquire(t)
    BY <2>1, AcquireContexts
  <2>2. CASE LuaReturns(t)
    BY <2>2, ReturnContexts
  <2>3. CASE t \in Threads /\ EndThread(t)
    BY <1>1, <2>3 DEF EndThread
  <2> QED
    BY <1>3, <2>1, <2>2, <2>3, ProgressContexts DEF Progress
<1>4. ASSUME NEW t \in AllThreads, Call(t)
      PROVE  ContextInv'
  <2>1. CASE \E c \in Threads : StartThread(t, c)
    BY <1>1, <2>1 DEF StartThread
  <2> QED
    BY <1>4, <2>1, CallContexts DEF Call
<1>5. CASE \E c \in Threads : Join(c)
  BY <1>5, JoinContexts
<1>6. CASE UNCHANGED vars
  BY <1>1, <1>6 DEF vars, luaVars
<1> QED
  BY <1>2, <1>3, <1>4, <1>5, <1>6 DEF Next

LEMMA InitContextInv == Init => ContextInv
<1> SUFFICES ASSUME Init PROVE ContextInv
  OBVIOUS
<1>1. Len(cached) = 0 /\ contexts = 0 /\ \A i : i \notin 1 .. 0
  BY DEF Init
<1>2. \A t \in AllThreads : LuaIn(stack[t]) = {}
  BY DEF Init, LuaIn, LockedIn
<1> QED
  BY <1>1, <1>2 DEF ContextInv, CacheKnown, GuardKnown, NoneLost, CachedOnce, NotBoth,
     UsedOnce, InCache, InGuard

(* No Lua context is lost or used by two calls at once: a call suspended in *)
(* a call out of Lua finds its context as it left it, whatever other        *)
(* threads took from the cache and put back meanwhile.                      *)
THEOREM ContextsAreExact == Spec => []ContextsExact
<1>1. Init => ContextInv
  BY InitContextInv
<1>2. Inv /\ ContextInv /\ [Next]_vars => ContextInv'
  BY NextContextInv
<1>3. Inv /\ ContextInv => ContextsExact
  BY ContextInvExact
<1> QED
  BY <1>1, <1>2, <1>3, AlwaysInv, PTL DEF Spec

-----------------------------------------------------------------------------
(* The C/C++ source loader, whose callers are threads of the engine: two    *)
(* threads, or two processes, that import the same file.                    *)

(* A time stamp does not lie: a whole library newer than the source has the *)
(* text of the source, unless its compiler was late; a file that a linker   *)
(* still fills proves nothing yet.                                          *)
StampsHold ==
    /\ library.mtime <= now /\ source.mtime <= now
    /\ \A t \in Callers : so_time[t] <= now
    /\ source.exists /\ library.state = "whole" /\ ~library.late /\ library.mtime > source.mtime
         => library.version = source.version
    /\ library.by # Nobody => library.state = "partial"

(* A library without its source is the one that was shipped; a compiler     *)
(* that works has read a source.                                            *)
Shipped ==
    /\ ~source.exists => library.version = source.version
    /\ \A t \in Callers : pc[t] = "compiling" => source.exists /\ compiling[t] # None

(* The library does for a thread: it is not older than what the thread saw, *)
(* or the edit came too late for its compiler, or it cannot be loaded.      *)
EnoughFor(t) == since[t] <= library.version \/ library.late \/ library.state # "whole"

(* So it is for a thread past compile_file, for one whose linker works (it  *)
(* may fill a file that another linker has replaced meanwhile), and for one *)
(* whose time stamp of the library is newer than the source.                *)
NewEnough ==
    \A t \in Callers :
        /\ since[t] <= source.version
        /\ pc[t] \in {"linking", "lookup", "load"} => EnoughFor(t)
        /\ pc[t] = "stat_source" /\ source.exists /\ so_time[t] > source.mtime => EnoughFor(t)

(* The inductive invariant.                                                 *)
LoaderInv == LoaderTypeOK /\ OneClass /\ StampsHold /\ Shipped /\ NewEnough

LEMMA LoaderInitInv == LoaderInit => LoaderInv
<1> SUFFICES ASSUME LoaderInit PROVE LoaderInv
  OBVIOUS
<1> USE ProcessAssumption, LoaderBoundsAssumption DEF LoaderInit
<1>1. LoaderTypeOK
  BY DEF LoaderTypeOK, Version, Time, None, Nobody
<1>2. OneClass
  BY DEF OneClass, None
<1>3. StampsHold /\ Shipped /\ NewEnough
  BY DEF StampsHold, Shipped, NewEnough, EnoughFor
<1> QED
  BY <1>1, <1>2, <1>3 DEF LoaderInv

(* Each step keeps them.                                                    *)
LEMMA LoaderStepInv == LoaderInv /\ [LoaderNext]_loaderVars => LoaderInv'
<1> SUFFICES ASSUME LoaderInv, [LoaderNext]_loaderVars
             PROVE  LoaderInv'
  OBVIOUS
<1> USE ProcessAssumption, LoaderBoundsAssumption
    DEF LoaderInv, LoaderTypeOK, OneClass, StampsHold, Shipped, NewEnough, EnoughFor,
        Version, Time, None, Nobody, files, maps, locals, Goes
<1>1. CASE Tick
  BY <1>1 DEF Tick
<1>2. CASE Edit
  BY <1>2 DEF Edit
<1>3. ASSUME NEW t \in Callers, ExecuteFile(t)
      PROVE  LoaderInv'
  BY <1>3 DEF ExecuteFile
<1>4. ASSUME NEW t \in Callers, Check(t)
      PROVE  LoaderInv'
  BY <1>4 DEF Check
<1>5. ASSUME NEW t \in Callers, StatSo(t)
      PROVE  LoaderInv'
  BY <1>5 DEF StatSo
<1>6. ASSUME NEW t \in Callers, StatSource(t)
      PROVE  LoaderInv'
  BY <1>6 DEF StatSource, Newer
<1>7. ASSUME NEW t \in Callers, Compile(t)
      PROVE  LoaderInv'
  BY <1>7 DEF Compile
<1>8. ASSUME NEW t \in Callers, CompileFails(t)
      PROVE  LoaderInv'
  BY <1>8 DEF CompileFails
<1>9. ASSUME NEW t \in Callers, LinkBegins(t)
      PROVE  LoaderInv'
  <2>1. /\ library' = [state |-> "partial", version |-> compiling[t], mtime |-> now, by |-> t,
                       late |-> FALSE]
        /\ pc' = [pc EXCEPT ![t] = "linking"] /\ compiling' = [compiling EXCEPT ![t] = 0]
        /\ UNCHANGED <<now, source, so_time, since, klass, modmap, libmap>>
        /\ source.exists
    BY <1>9 DEF LinkBegins
  <2>2. compiling[t] \in Version
    BY <1>9 DEF LinkBegins
  <2>3. LoaderTypeOK'
    BY <2>1, <2>2
  <2>4. (OneClass /\ Shipped)'
    BY <2>1
  <2>5. StampsHold'
    BY <2>1
  <2>6. NewEnough'
    BY <2>1
  <2> QED
    BY <2>3, <2>4, <2>5, <2>6
<1>10. ASSUME NEW t \in Callers, LinkEnds(t)
       PROVE  LoaderInv'
  <2>1. CASE library.by = t
    <3>1. /\ library' = [library EXCEPT !.state = "whole", !.mtime = now, !.by = "nobody",
                                           !.late = library.version # source.version]
          /\ UNCHANGED <<now, source, so_time, compiling, since, klass, modmap, libmap>>
          /\ pc[t] = "linking" /\ pc' = [pc EXCEPT ![t] = "lookup"]
      BY <1>10, <2>1 DEF LinkEnds
    <3>2. /\ library'.version = library.version /\ library'.mtime = now
          /\ library'.late <=> library.version # source.version
          /\ library'.by = "nobody" /\ library'.state = "whole"
      BY <3>1
    <3>3. LoaderTypeOK'
      BY <3>1
    <3>4. (OneClass /\ StampsHold /\ Shipped /\ NewEnough)'
      BY <3>1, <3>2
    <3> QED
      BY <3>3, <3>4
  <2>2. CASE library.by # t
    BY <1>10, <2>2 DEF LinkEnds
  <2> QED
    BY <2>1, <2>2
<1>11. ASSUME NEW t \in Callers, LinkKilled(t)
       PROVE  LoaderInv'
  BY <1>11 DEF LinkKilled
<1>12. ASSUME NEW t \in Callers, Lookup(t)
       PROVE  LoaderInv'
  BY <1>12 DEF Lookup
<1>13. ASSUME NEW t \in Callers, FindModule(t)
       PROVE  LoaderInv'
  BY <1>13 DEF FindModule, Loaded
<1>14. ASSUME NEW t \in Callers, LoadModule(t)
       PROVE  LoaderInv'
  BY <1>14 DEF LoadModule, Loaded
<1>15. ASSUME NEW t \in Callers, LoadThrows(t)
       PROVE  LoaderInv'
  BY <1>15 DEF LoadThrows
<1>16. ASSUME NEW t \in Callers, Store(t)
       PROVE  LoaderInv'
  BY <1>16 DEF Store
<1>17. CASE UNCHANGED loaderVars
  BY <1>17 DEF loaderVars
<1> QED
  BY <1>1, <1>2, <1>3, <1>4, <1>5, <1>6, <1>7, <1>8, <1>9, <1>10, <1>11, <1>12, <1>13, <1>14,
     <1>15, <1>16, <1>17 DEF LoaderNext

(* All threads of a process get the class of the one library that it loads, *)
(* although they look into libmap without the mutex.                        *)
THEOREM LoadedOnce == LoaderSpec => []OneClass
<1>1. LoaderInit => LoaderInv
  BY LoaderInitInv
<1>2. LoaderInv /\ [LoaderNext]_loaderVars => LoaderInv'
  BY LoaderStepInv
<1>3. LoaderInv => OneClass
  BY DEF LoaderInv
<1> QED
  BY <1>1, <1>2, <1>3, PTL DEF LoaderSpec

(* A library that is loaded was compiled from a source not older than the   *)
(* one its caller could see, whichever process compiled it and however the  *)
(* time stamps of the two files agree, unless the source was edited between *)
(* the compiler's reading it and its linker's end.                          *)
THEOREM LoadsAreCurrent == LoaderSpec => LoadedIsCurrent
<1> DEFINE Fresh == \A t \in Callers : pc[t] = "load" /\ pc'[t] = "store" /\ modmap # modmap' =>
                        modmap'[ProcessOf[t]] >= since[t] \/ library.late
<1>1. LoaderInit => LoaderInv
  BY LoaderInitInv
<1>2. LoaderInv /\ [LoaderNext]_loaderVars => LoaderInv'
  BY LoaderStepInv
<1>3. LoaderInv /\ [LoaderNext]_loaderVars => [Fresh]_loaderVars
  <2> SUFFICES ASSUME LoaderInv, LoaderNext, NEW t \in Callers,
                      pc[t] = "load", pc'[t] = "store", modmap # modmap'
               PROVE  modmap'[ProcessOf[t]] >= since[t] \/ library.late
    BY DEF loaderVars
  <2> USE DEF Goes, maps, locals, files, LoaderInv, LoaderTypeOK
  <2>1. PICK u \in Callers : LoadModule(u)
    BY DEF LoaderNext, Tick, Edit, ExecuteFile, Check,
           StatSo, StatSource, Compile, CompileFails,
           LinkBegins, LinkEnds, LinkKilled, Lookup,
           FindModule, LoadThrows, Store
  <2>2. u = t
    BY <2>1 DEF LoadModule
  <2>3. ProcessOf[t] \in Processes
    BY ProcessAssumption
  <2>4. modmap'[ProcessOf[t]] = library.version
    BY <2>1, <2>2, <2>3 DEF LoadModule
  <2>5. library.state = "whole"
    BY <2>1 DEF LoadModule
  <2>6. EnoughFor(t)
    BY DEF NewEnough
  <2>7. CASE library.late
    BY <2>7
  <2>8. CASE ~library.late
    <3>1. since[t] <= library.version /\ since[t] \in Nat /\ library.version \in Nat
      BY <2>5, <2>6, <2>8 DEF EnoughFor, Version
    <3> QED
      BY <2>4, <3>1
  <2> QED
    BY <2>7, <2>8
<1> QED
  BY <1>1, <1>2, <1>3, PTL DEF LoaderSpec, LoadedIsCurrent
=============================================================================
