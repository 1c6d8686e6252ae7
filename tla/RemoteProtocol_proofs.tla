------------------------- MODULE RemoteProtocol_proofs -------------------------
(***************************************************************************)
(* Proofs about RemoteProtocol, for every set of objects and every bound,  *)
(* about RemoteCall, which it implements, and about RemoteDestructors.     *)
(***************************************************************************)
EXTENDS RemoteDestructors, SequenceTheorems, FiniteSetTheorems, TLAPS

-----------------------------------------------------------------------------
(* The operators of the handle: what they return, and what they leave.      *)

LEMMA AddRefType ==
    ASSUME NEW h \in Handle, NEW S
    PROVE  /\ AddRef(h, S) \in Handle
           /\ AddRef(h, S).stream = h.stream
           /\ AddRef(h, S).last_op = h.last_op
  BY DEF AddRef, Handle, Plus

LEMMA DeleteType ==
    ASSUME NEW h \in Handle, NEW S
    PROVE  /\ Delete(h, S) \in Handle
           /\ Delete(h, S).stream = h.stream
           /\ Delete(h, S).last_op = h.last_op
  BY DEF Delete, Handle

(* close_connection always ends without a stream, an exported object or a   *)
(* candidate.                                                               *)
LEMMA CloseConnectionType ==
    ASSUME NEW h \in Handle
    PROVE  /\ CloseConnection(h) \in Handle
           /\ CloseConnection(h).stream = FALSE
           /\ CloseConnection(h).localobjmap = {}
           /\ CloseConnection(h).destr_cand = {}
           /\ CloseConnection(h).last_op = h.last_op
  BY DEF CloseConnection, Delete, Handle

LEMMA MinusType ==
    ASSUME NEW f \in [Objects -> Int], NEW S
    PROVE  Minus(f, S) \in [Objects -> Int]
  BY DEF Minus

(* release may close the connection, and never opens it.                    *)
LEMMA ReleaseType ==
    ASSUME NEW h \in Handle, NEW S \in SUBSET Objects
    PROVE  /\ Release(h, S) \in Handle
           /\ Release(h, S).stream => h.stream
           /\ Release(h, S).last_op = h.last_op
<1> DEFINE g == [h EXCEPT !.refcount = Minus(@, S)]
           dead == {o \in S : g.refcount[o] = 0}
           marked == [g EXCEPT !.destr_cand = @ \cup (dead \ h.owner)]
<1>1. /\ g \in Handle
      /\ g.stream = h.stream
      /\ g.last_op = h.last_op
  BY MinusType DEF Handle
<1>2. /\ marked \in Handle
      /\ marked.stream = h.stream
      /\ marked.last_op = h.last_op
  <2> HIDE DEF g
  <2>1. dead \in SUBSET Objects
    OBVIOUS
  <2> HIDE DEF dead
  <2>2. QED
    BY <1>1, <2>1 DEF Handle
<1>3. h.stream \in BOOLEAN
  BY DEF Handle
<1>4. Release(h, S) = IF ~h.stream THEN Delete(g, dead)
                      ELSE IF dead \cap h.owner = {} THEN marked
                      ELSE Delete(CloseConnection(marked), dead)
  BY DEF Release
<1> HIDE DEF g, dead, marked
<1>5. CASE ~h.stream
  BY <1>1, <1>3, <1>4, <1>5, DeleteType
<1>6. CASE h.stream /\ dead \cap h.owner = {}
  BY <1>2, <1>3, <1>4, <1>6
<1>7. CASE h.stream /\ dead \cap h.owner # {}
  <2> DEFINE closed == CloseConnection(marked)
  <2>1. closed \in Handle /\ closed.last_op = h.last_op
    BY <1>2, CloseConnectionType
  <2>2. Release(h, S) = Delete(closed, dead)
    BY <1>4, <1>7
  <2> HIDE DEF closed
  <2>3. QED
    BY <2>1, <2>2, <1>7, DeleteType
<1>8. QED
  BY <1>3, <1>5, <1>6, <1>7

LEMMA LocalRemote ==
    ASSUME NEW p \in Peer
    PROVE  /\ Other(p) \in Peer /\ Other(p) # p /\ Other(Other(p)) = p
           /\ Local(p) \subseteq Objects
           /\ Remote(p) \subseteq Objects
           /\ Peer = {p, Other(p)}
  BY DEF Peer, Other, Client, Server, Local, Remote, Objects

LEMMA SerializeType ==
    ASSUME NEW p \in Peer, NEW h \in Handle, NEW refs
    PROVE  /\ Serialize(p, h, refs) \in Handle
           /\ Serialize(p, h, refs).stream = h.stream
           /\ Serialize(p, h, refs).last_op = h.last_op
  BY LocalRemote DEF Serialize, Handle

LEMMA DeserializeType ==
    ASSUME NEW p \in Peer, NEW h \in Handle, NEW refs
    PROVE  /\ Deserialize(p, h, refs) \in Handle
           /\ Deserialize(p, h, refs).stream = h.stream
           /\ Deserialize(p, h, refs).last_op = h.last_op
<1> DEFINE proxies == refs \cap Remote(p)
           first == IF p = Client /\ h.remoteobjmap = {} /\ proxies # {}
                    THEN {CHOOSE o \in proxies : TRUE} ELSE {}
<1>1. proxies \in SUBSET Objects
  BY LocalRemote
<1>2. first \in SUBSET Objects
  BY <1>1
<1>3. Deserialize(p, h, refs) =
        [AddRef(h, proxies) EXCEPT !.remoteobjmap = @ \cup proxies,
                                   !.owner = @ \cup first]
  BY DEF Deserialize
<1> DEFINE g == AddRef(h, proxies)
<1>4. g \in Handle /\ g.stream = h.stream /\ g.last_op = h.last_op
  BY AddRefType
<1>5. Deserialize(p, h, refs) = [g EXCEPT !.remoteobjmap = @ \cup proxies,
                                          !.owner = @ \cup first]
  BY <1>3
<1> HIDE DEF proxies, first, g
<1>6. QED
  BY <1>1, <1>2, <1>4, <1>5 DEF Handle

-----------------------------------------------------------------------------
(* The stack: its last element replaced, dropped, and a new one on top.     *)

LEMMA StackLast ==
    ASSUME NEW s \in Seq(Activation), s # << >>
    PROVE  /\ Len(s) \in Nat \ {0}
           /\ s[Len(s)] \in Activation
           /\ \A i \in 1 .. Len(s) : s[i] \in Activation
  OBVIOUS

LEMMA StackReplace ==
    ASSUME NEW s \in Seq(Activation), s # << >>, NEW a \in Activation
    PROVE  LET t == [s EXCEPT ![Len(s)] = a]
           IN  /\ t \in Seq(Activation)
               /\ t # << >>
               /\ Len(t) = Len(s)
               /\ t[Len(t)] = a
               /\ \A i \in 1 .. Len(s) - 1 : t[i] = s[i]
  OBVIOUS

LEMMA StackPop ==
    ASSUME NEW s \in Seq(Activation), s # << >>
    PROVE  LET t == SubSeq(s, 1, Len(s) - 1)
           IN  /\ t \in Seq(Activation)
               /\ Len(t) = Len(s) - 1
               /\ \A i \in 1 .. Len(s) - 1 : t[i] = s[i]
<1>1. Len(s) \in Nat \ {0}
  OBVIOUS
<1>2. \A i \in 1 .. Len(s) - 1 : s[i] \in Activation
  BY <1>1
<1> DEFINE n == Len(s) - 1
<1>3. n \in Int /\ 1 \in Int
  BY <1>1
<1>4. /\ SubSeq(s, 1, n) \in Seq(Activation)
      /\ Len(SubSeq(s, 1, n)) = IF 1 <= n THEN n - 1 + 1 ELSE 0
      /\ \A i \in 1 .. n - 1 + 1 : SubSeq(s, 1, n)[i] = s[1 + i - 1]
  BY <1>2, <1>3, SubSeqProperties
<1>5. ASSUME NEW i \in 1 .. n
      PROVE  SubSeq(s, 1, n)[i] = s[i]
  <2>1. i \in 1 .. n - 1 + 1 /\ 1 + i - 1 = i
    BY <1>3
  <2>2. SubSeq(s, 1, n)[i] = s[1 + i - 1]
    BY <1>4, <2>1
  <2>3. QED
    BY <2>1, <2>2
<1>6. Len(SubSeq(s, 1, n)) = n
  <2>1. n \in Nat
    BY <1>1
  <2> HIDE DEF n
  <2>2. QED
    BY <1>4, <2>1
<1>7. QED
  BY <1>4, <1>5, <1>6

LEMMA StackPush ==
    ASSUME NEW s \in Seq(Activation), NEW a \in Activation
    PROVE  LET t == Append(s, a)
           IN  /\ t \in Seq(Activation)
               /\ t # << >>
               /\ Len(t) = Len(s) + 1
               /\ t[Len(t)] = a
               /\ \A i \in 1 .. Len(s) : t[i] = s[i]
  OBVIOUS

-----------------------------------------------------------------------------
(***************************************************************************)
(* The inductive invariant.  Shape: only the last activation runs, the     *)
(* others wait; the serving loop is the first one; whoever writes a reply  *)
(* has an activation below it.  Discipline: a side that waits did not read *)
(* last, and a side that runs on an open connection did not write last.    *)
(***************************************************************************)
Shape(s) ==
    \A i \in 1 .. Len(s) :
        /\ i < Len(s) => s[i].at \in {"wait", "gc"}
        /\ s[i].op = "hello" => i = 1
        /\ s[i].at \in {"write", "gc"} /\ s[i].op \notin {"call", "hello"} => i > 1

Runs(s) == s # << >> /\ s[Len(s)].at \in {"user", "write"}

Discipline(h, s) ==
    /\ s = << >> => ~h.stream
    /\ s # << >> /\ ~Runs(s) => h.last_op # 1
    /\ Runs(s) /\ h.stream => h.last_op # 2

Sound(h, s) == Shape(s) /\ Discipline(h, s)

SidesSound == \A p \in Peer : Sound(handle[p], stack[p])

IInv == TypeOK /\ SidesSound /\ NoAbort /\ FlipFlop

-----------------------------------------------------------------------------
(* How the changes of the stack keep Sound.                                 *)

LEMMA SoundReplace ==
    ASSUME NEW s \in Seq(Activation), s # << >>, Shape(s),
           NEW a \in Activation, NEW g \in Handle,
           a.op = "hello" => s[Len(s)].op = "hello",
           a.at \in {"write", "gc"} /\ a.op \notin {"call", "hello"} => Len(s) > 1,
           a.at \in {"wait", "gc"} => g.last_op # 1,
           a.at \in {"user", "write"} /\ g.stream => g.last_op # 2
    PROVE  /\ [s EXCEPT ![Len(s)] = a] \in Seq(Activation)
           /\ Sound(g, [s EXCEPT ![Len(s)] = a])
           /\ Runs([s EXCEPT ![Len(s)] = a]) <=> a.at \in {"user", "write"}
<1> DEFINE t == [s EXCEPT ![Len(s)] = a]
<1>1. /\ t \in Seq(Activation)
      /\ t # << >>
      /\ Len(t) = Len(s)
      /\ t[Len(t)] = a
      /\ \A i \in 1 .. Len(s) - 1 : t[i] = s[i]
  BY StackReplace
<1>2. Len(s) \in Nat \ {0}
  BY StackLast
<1>3. a.at \in {"user", "write", "gc", "wait"}
  BY DEF Activation
<1> HIDE DEF t
<1>4. Shape(t)
  <2> SUFFICES ASSUME NEW i \in 1 .. Len(t)
               PROVE  /\ i < Len(t) => t[i].at \in {"wait", "gc"}
                      /\ t[i].op = "hello" => i = 1
                      /\ t[i].at \in {"write", "gc"} /\ t[i].op \notin {"call", "hello"}
                           => i > 1
    BY DEF Shape
  <2>1. CASE i < Len(s)
    BY <1>1, <1>2, <2>1 DEF Shape
  <2>2. CASE i = Len(s)
    BY <1>1, <1>2, <2>2 DEF Shape
  <2>3. QED
    BY <1>1, <1>2, <2>1, <2>2
<1>5. Runs(t) <=> a.at \in {"user", "write"}
  BY <1>1 DEF Runs
<1>6. Discipline(g, t)
  BY <1>1, <1>3, <1>5 DEF Discipline
<1>7. QED
  BY <1>1, <1>4, <1>5, <1>6 DEF Sound, t

LEMMA SoundPop ==
    ASSUME NEW s \in Seq(Activation), Len(s) > 1, Shape(s)
    PROVE  /\ SubSeq(s, 1, Len(s) - 1) \in Seq(Activation)
           /\ SubSeq(s, 1, Len(s) - 1) # << >>
           /\ Shape(SubSeq(s, 1, Len(s) - 1))
           /\ ~Runs(SubSeq(s, 1, Len(s) - 1))
<1> DEFINE t == SubSeq(s, 1, Len(s) - 1)
<1>1. s # << >> /\ Len(s) \in Nat
  OBVIOUS
<1>2. /\ t \in Seq(Activation)
      /\ Len(t) = Len(s) - 1
      /\ \A i \in 1 .. Len(s) - 1 : t[i] = s[i]
  BY <1>1, StackPop
<1> HIDE DEF t
<1>3. t # << >> /\ Len(t) \in 1 .. Len(s) - 1
  BY <1>1, <1>2
<1>4. Shape(t)
  BY <1>1, <1>2 DEF Shape
<1>5. t[Len(t)].at \in {"wait", "gc"}
  BY <1>1, <1>2, <1>3 DEF Shape
<1>6. ~Runs(t)
  BY <1>5 DEF Runs
<1>7. QED
  BY <1>2, <1>3, <1>4, <1>6 DEF t

LEMMA SoundPush ==
    ASSUME NEW s \in Seq(Activation), s # << >>, Shape(s), ~Runs(s),
           NEW a \in Activation, a.op # "hello", a.at \in {"user", "write"},
           NEW g \in Handle, g.last_op = 1
    PROVE  /\ Append(s, a) \in Seq(Activation)
           /\ Sound(g, Append(s, a))
           /\ Runs(Append(s, a))
<1> DEFINE t == Append(s, a)
<1>1. /\ t \in Seq(Activation)
      /\ t # << >>
      /\ Len(t) = Len(s) + 1
      /\ t[Len(t)] = a
      /\ \A i \in 1 .. Len(s) : t[i] = s[i]
  BY StackPush
<1>2. Len(s) \in Nat \ {0} /\ s[Len(s)] \in Activation
  BY StackLast
<1> HIDE DEF t
<1>3. s[Len(s)].at \in {"wait", "gc"}
  BY <1>2 DEF Runs, Activation
<1>4. Shape(t)
  <2> SUFFICES ASSUME NEW i \in 1 .. Len(t)
               PROVE  /\ i < Len(t) => t[i].at \in {"wait", "gc"}
                      /\ t[i].op = "hello" => i = 1
                      /\ t[i].at \in {"write", "gc"} /\ t[i].op \notin {"call", "hello"}
                           => i > 1
    BY DEF Shape
  <2>1. CASE i < Len(s)
    BY <1>1, <1>2, <2>1 DEF Shape
  <2>2. CASE i = Len(s)
    BY <1>1, <1>2, <1>3, <2>2 DEF Shape
  <2>3. CASE i = Len(t)
    BY <1>1, <1>2, <2>3
  <2>4. QED
    BY <1>1, <1>2, <2>1, <2>2, <2>3
<1>5. Runs(t)
  BY <1>1 DEF Runs
<1>6. Discipline(g, t)
  BY <1>1, <1>5 DEF Discipline
<1>7. QED
  BY <1>1, <1>4, <1>5, <1>6 DEF Sound, t

(* After an exception on a closed connection the stack is sound again.      *)
LEMMA SoundFailure ==
    ASSUME NEW s \in Seq(Activation), s # << >>, Shape(s),
           NEW g \in Handle, ~g.stream
    PROVE  /\ AfterFailure(s) \in Seq(Activation)
           /\ Sound(g, AfterFailure(s))
<1> DEFINE n == Len(s)
           b == [s[n] EXCEPT !.at = "user", !.op = "none", !.wres = {}]
<1>1. n \in Nat \ {0} /\ s[n] \in Activation
  BY StackLast
<1>2. CASE s[n].op = "hello"
  <2>1. n = 1
    <3>1. n \in 1 .. Len(s)
      BY <1>1
    <3> HIDE DEF n
    <3>2. QED
      BY <1>2, <3>1 DEF Shape
  <2>2. AfterFailure(s) = SubSeq(s, 1, 0)
    BY <1>2, <2>1 DEF AfterFailure
  <2>3. SubSeq(s, 1, 0) = << >>
    BY SubSeqEmpty
  <2>4. QED
    BY <2>2, <2>3 DEF Sound, Shape, Discipline, Runs
<1>3. CASE s[n].op # "hello"
  <2>1. AfterFailure(s) = [s EXCEPT ![n] = b]
    BY <1>3 DEF AfterFailure
  <2>2. /\ b \in Activation
        /\ b.at = "user"
        /\ b.op = "none"
    BY <1>1 DEF Activation
  <2> HIDE DEF b
  <2>3. s[n] \in Activation /\ g.stream = FALSE
    BY <1>1 DEF Handle
  <2>4. /\ [s EXCEPT ![Len(s)] = b] \in Seq(Activation)
        /\ Sound(g, [s EXCEPT ![Len(s)] = b])
    BY <2>2, <2>3, SoundReplace
  <2>5. QED
    BY <2>1, <2>4
<1>4. QED
  BY <1>2, <1>3

-----------------------------------------------------------------------------
(* What a step of side p must do to its handle, its stack and the channels. *)

RunToken(s) == IF Runs(s) THEN 1 ELSE 0
Traffic(p, c) == Len(c[p]) + Len(c[Other(p)])
(* What a step of p finds, and what it does: nothing here is about the other *)
(* side.                                                                    *)
Steady(p) == TypeOK /\ NoAbort /\ Sound(handle[p], stack[p])

Advances(p) ==
    /\ TypeOK' /\ aborted' = aborted
    /\ Sound(handle'[p], stack'[p])
    /\ \A q \in Peer \ {p} : handle'[q] = handle[q] /\ stack'[q] = stack[q]
    /\ handle'[p].stream => handle[p].stream
    /\ handle'[p].stream =>
         RunToken(stack'[p]) + Traffic(p, chan') = RunToken(stack[p]) + Traffic(p, chan)

LEMMA SteadyIs == \A p \in Peer : IInv => Steady(p)
  BY DEF IInv, SidesSound, Steady

LEMMA Moved ==
    ASSUME NEW p \in Peer, Steady(p),
           NEW h \in Handle, NEW s \in Seq(Activation), NEW c \in [Peer -> Seq(Packet)],
           handle' = [handle EXCEPT ![p] = h],
           stack' = [stack EXCEPT ![p] = s],
           chan' = c,
           app' \in [Peer -> [Objects -> Int]],
           aborted' = aborted,
           Sound(h, s),
           h.stream => handle[p].stream,
           h.stream => RunToken(s) + Traffic(p, c) = RunToken(stack[p]) + Traffic(p, chan)
    PROVE  Advances(p)
<1>1. /\ handle'[p] = h /\ stack'[p] = s
      /\ \A q \in Peer \ {p} : handle'[q] = handle[q] /\ stack'[q] = stack[q]
  BY DEF Steady, TypeOK
<1>2. TypeOK'
  BY DEF Steady, TypeOK
<1>3. QED
  BY <1>1, <1>2 DEF Advances

LEMMA Advance ==
    ASSUME IInv, NEW p \in Peer, Advances(p)
    PROVE  IInv'
<1> DEFINE q == Other(p)
<1>1. q \in Peer /\ q # p /\ Peer = {p, q}
  BY LocalRemote
<1> DEFINE h == handle'[p]
           s == stack'[p]
           c == chan'
<1>2. /\ handle'[p] = h /\ handle'[q] = handle[q]
      /\ stack'[p] = s /\ stack'[q] = stack[q]
      /\ aborted' = aborted /\ Sound(h, s)
      /\ h.stream => handle[p].stream
      /\ h.stream => RunToken(s) + Traffic(p, c) = RunToken(stack[p]) + Traffic(p, chan)
  BY <1>1 DEF Advances
<1>3. TypeOK'
  BY DEF Advances
<1>4. SidesSound'
  BY <1>1, <1>2 DEF IInv, SidesSound
<1>5. NoAbort'
  BY <1>2 DEF IInv, NoAbort
<1>6. FlipFlop'
  <2> SUFFICES ASSUME Open'
               PROVE  Token(Client)' + Token(Server)' = 1
    BY DEF FlipFlop
  <2>1. h.stream /\ Open
    BY <1>1, <1>2 DEF Open
  <2>2. \A r \in Peer : /\ Token(r) = RunToken(stack[r]) + Len(chan[r])
                        /\ Token(r)' = RunToken(stack'[r]) + Len(c[r])
    <3> SUFFICES ASSUME NEW r \in Peer
                 PROVE  /\ Controls(r) <=> Runs(stack[r])
                        /\ Controls(r)' <=> Runs(stack'[r])
      BY DEF Token, RunToken
    <3>1. ~aborted[r] /\ ~aborted'[r]
      BY <1>5 DEF IInv, NoAbort
    <3>2. QED
      BY <3>1 DEF Controls, At, Cur, Runs
  <2>3. \A r \in Peer : Len(chan[r]) \in Nat /\ Len(c[r]) \in Nat
    BY <1>3 DEF IInv, TypeOK
  <2>4. \A r \in Peer : RunToken(stack[r]) \in Nat /\ RunToken(stack'[r]) \in Nat
    BY DEF RunToken
  <2>5. Token(p) + Token(q) = 1
    <3> DEFINE t == Token(Client)
               u == Token(Server)
    <3>1. t + u = 1
      BY <2>1 DEF IInv, FlipFlop
    <3>2. t \in Nat /\ u \in Nat
      <4>1. \A r \in Peer : Token(r) = RunToken(stack[r]) + Len(chan[r])
        BY <2>2
      <4>2. \A r \in Peer : Token(r) \in Nat
        <5> TAKE r \in Peer
        <5>1. RunToken(stack[r]) \in Nat /\ Len(chan[r]) \in Nat
          BY <2>3, <2>4
        <5>2. Token(r) = RunToken(stack[r]) + Len(chan[r])
          BY <4>1
        <5> HIDE DEF c, s, h
        <5> QED
          BY <5>1, <5>2
      <4>3. Client \in Peer /\ Server \in Peer
        BY DEF Peer
      <4> QED
        BY <4>2, <4>3, Zenon
    <3>3. (Token(p) = t /\ Token(q) = u) \/ (Token(p) = u /\ Token(q) = t)
      BY DEF Other, Peer
    <3> HIDE DEF t, u
    <3>4. t + u = u + t
      BY <3>2
    <3>5. QED
      BY <3>1, <3>3, <3>4
  <2>6. Token(p)' + Token(q)' = 1
    <3> DEFINE r == RunToken(stack[p])   r1 == RunToken(s)
               m == Len(chan[p])         m1 == Len(c[p])
               n == Len(chan[q])         n1 == Len(c[q])
               other == RunToken(stack[q])
    <3>1. /\ Token(p) = r + m /\ Token(q) = other + n
          /\ Token(p)' = r1 + m1 /\ Token(q)' = other + n1
      BY <1>1, <1>2, <2>2
    <3>2. m \in Nat /\ n \in Nat /\ m1 \in Nat /\ n1 \in Nat
      BY <1>1, <2>3
    <3>3. r \in Nat /\ r1 \in Nat /\ other \in Nat
      BY DEF RunToken
    <3>4. r1 + (m1 + n1) = r + (m + n)
      BY <1>2, <2>1 DEF Traffic
    <3> HIDE DEF r, r1, m, m1, n, n1, other
    <3>5. r + m + (other + n) = 1
      BY <3>1, <2>5
    <3>6. r1 + m1 + (other + n1) = 1
      BY <3>2, <3>3, <3>4, <3>5
    <3>7. QED
      BY <3>1, <3>6
  <2>7. QED
    <3> DEFINE t == Token(Client)'
               u == Token(Server)'
    <3>1. t \in Nat /\ u \in Nat
      BY <2>2, <2>3, <2>4 DEF Peer
    <3>2. (Token(p)' = t /\ Token(q)' = u) \/ (Token(p)' = u /\ Token(q)' = t)
      BY DEF Other, Peer
    <3> HIDE DEF t, u
    <3>3. t + u = u + t
      BY <3>1
    <3>4. t + u = 1
      BY <2>6, <3>2, <3>3
    <3>5. QED
      BY <3>4 DEF t, u
<1>7. QED
  BY <1>3, <1>4, <1>5, <1>6 DEF IInv

(* What the invariant says about a side whose thread is alive.              *)
LEMMA Present ==
    ASSUME NEW p \in Peer, Steady(p), stack[p] # << >>
    PROVE  /\ handle[p] \in Handle
           /\ stack[p] \in Seq(Activation)
           /\ Cur(p) \in Activation
           /\ Len(stack[p]) \in Nat \ {0}
           /\ Shape(stack[p])
           /\ Runs(stack[p]) <=> Cur(p).at \in {"user", "write"}
           /\ Cur(p).at \in {"wait", "gc"} => handle[p].last_op # 1
           /\ Cur(p).at \in {"user", "write"} /\ handle[p].stream => handle[p].last_op # 2
           /\ Cur(p).at \in {"write", "gc"} /\ Cur(p).op \notin {"call", "hello"}
                => Len(stack[p]) > 1
<1>1. handle[p] \in Handle /\ stack[p] \in Seq(Activation)
  BY DEF Steady, TypeOK
<1>2. Cur(p) \in Activation /\ Len(stack[p]) \in Nat \ {0}
  BY <1>1, StackLast DEF Cur
<1>3. Shape(stack[p]) /\ Discipline(handle[p], stack[p])
  BY DEF Steady, Sound
<1>4. Runs(stack[p]) <=> Cur(p).at \in {"user", "write"}
  BY DEF Runs, Cur
<1>5. Cur(p).at \in {"write", "gc"} /\ Cur(p).op \notin {"call", "hello"} => Len(stack[p]) > 1
  BY <1>2, <1>3 DEF Shape, Cur
<1>6. QED
  BY <1>1, <1>2, <1>3, <1>4, <1>5 DEF Discipline

(* A step that replaces the current activation.                             *)
LEMMA ReplaceStep ==
    ASSUME NEW p \in Peer, Steady(p), stack[p] # << >>,
           NEW h \in Handle, NEW a \in Activation, NEW c \in [Peer -> Seq(Packet)],
           SetHandle(p, h), SetCur(p, a), chan' = c,
           app' \in [Peer -> [Objects -> Int]], aborted' = aborted,
           a.op = "hello" => Cur(p).op = "hello",
           a.at \in {"write", "gc"} /\ a.op \notin {"call", "hello"} => Len(stack[p]) > 1,
           a.at \in {"wait", "gc"} => h.last_op # 1,
           a.at \in {"user", "write"} /\ h.stream => h.last_op # 2,
           h.stream => handle[p].stream,
           h.stream => (IF a.at \in {"user", "write"} THEN 1 ELSE 0) + Traffic(p, c)
                       = (IF Cur(p).at \in {"user", "write"} THEN 1 ELSE 0) + Traffic(p, chan)
    PROVE  Advances(p)
<1> DEFINE s == [stack[p] EXCEPT ![Len(stack[p])] = a]
<1>1. /\ stack[p] \in Seq(Activation)
      /\ Shape(stack[p])
      /\ Runs(stack[p]) <=> Cur(p).at \in {"user", "write"}
  BY Present
<1>2. /\ s \in Seq(Activation)
      /\ Sound(h, s)
      /\ Runs(s) <=> a.at \in {"user", "write"}
  BY <1>1, SoundReplace DEF Cur
<1>3. handle' = [handle EXCEPT ![p] = h] /\ stack' = [stack EXCEPT ![p] = s]
  BY DEF SetHandle, SetCur
<1>4. h.stream => RunToken(s) + Traffic(p, c) = RunToken(stack[p]) + Traffic(p, chan)
  BY <1>1, <1>2 DEF RunToken
<1> HIDE DEF s
<1>5. QED
  BY <1>2, <1>3, <1>4, Moved

(* A step that changes the handle only.                                     *)
LEMMA HandleStep ==
    ASSUME NEW p \in Peer, Steady(p), NEW h \in Handle,
           SetHandle(p, h), UNCHANGED <<stack, chan, aborted>>,
           app' \in [Peer -> [Objects -> Int]],
           h.last_op = handle[p].last_op,
           h.stream => handle[p].stream
    PROVE  Advances(p)
<1>1. /\ stack[p] \in Seq(Activation) /\ chan \in [Peer -> Seq(Packet)]
      /\ stack' = [stack EXCEPT ![p] = stack[p]]
  BY DEF Steady, TypeOK
<1>2. Sound(h, stack[p])
  BY DEF Steady, Sound, Discipline
<1>3. QED
  BY <1>1, <1>2, Moved DEF SetHandle

(* The channels after a packet is sent, and after one is read.              *)
LEMMA SendType ==
    ASSUME NEW p \in Peer, Steady(p), NEW op, NEW refs, [op |-> op, refs |-> refs] \in Packet
    PROVE  LET c == [chan EXCEPT ![Other(p)] = Append(@, [op |-> op, refs |-> refs])]
           IN  /\ c \in [Peer -> Seq(Packet)]
               /\ Traffic(p, c) = Traffic(p, chan) + 1
               /\ Traffic(p, chan) \in Nat
<1> DEFINE pkt == [op |-> op, refs |-> refs]
           c == [chan EXCEPT ![Other(p)] = Append(@, pkt)]
<1>1. /\ chan \in [Peer -> Seq(Packet)] /\ Other(p) \in Peer /\ Other(p) # p
      /\ pkt \in Packet
  BY LocalRemote DEF Steady, TypeOK
<1> HIDE DEF pkt
<1>2. c[p] = chan[p] /\ c[Other(p)] = Append(chan[Other(p)], pkt)
  BY <1>1
<1>3. /\ Append(chan[Other(p)], pkt) \in Seq(Packet)
      /\ Len(Append(chan[Other(p)], pkt)) = Len(chan[Other(p)]) + 1
      /\ Len(chan[p]) \in Nat
      /\ Len(chan[Other(p)]) \in Nat
  BY <1>1
<1>4. c \in [Peer -> Seq(Packet)]
  BY <1>1, <1>3
<1>5. Traffic(p, c) = Len(chan[p]) + (Len(chan[Other(p)]) + 1)
  BY <1>2, <1>3 DEF Traffic
<1>6. Traffic(p, chan) = Len(chan[p]) + Len(chan[Other(p)])
  BY DEF Traffic
<1> HIDE DEF c
<1>7. QED
  BY <1>3, <1>4, <1>5, <1>6 DEF c, pkt

LEMMA ReadType ==
    ASSUME NEW p \in Peer, Steady(p), chan[p] # << >>
    PROVE  LET c == [chan EXCEPT ![p] = Tail(@)]
           IN  /\ c \in [Peer -> Seq(Packet)]
               /\ Traffic(p, chan) = Traffic(p, c) + 1
               /\ Traffic(p, c) \in Nat
               /\ Incoming(p) \in Packet
<1> DEFINE c == [chan EXCEPT ![p] = Tail(@)]
<1>1. /\ chan \in [Peer -> Seq(Packet)] /\ Other(p) \in Peer /\ Other(p) # p
  BY LocalRemote DEF Steady, TypeOK
<1>2. c[p] = Tail(chan[p]) /\ c[Other(p)] = chan[Other(p)]
  BY <1>1
<1>3. /\ Tail(chan[p]) \in Seq(Packet)
      /\ Len(Tail(chan[p])) = Len(chan[p]) - 1
      /\ Head(chan[p]) \in Packet
      /\ Len(chan[p]) \in Nat \ {0}
      /\ Len(chan[Other(p)]) \in Nat
  BY <1>1
<1>4. c \in [Peer -> Seq(Packet)]
  BY <1>1, <1>3
<1>5. Traffic(p, c) = Len(chan[p]) - 1 + Len(chan[Other(p)])
  BY <1>2, <1>3 DEF Traffic
<1>6. Traffic(p, chan) = Len(chan[p]) + Len(chan[Other(p)])
  BY DEF Traffic
<1> HIDE DEF c
<1>7. QED
  BY <1>3, <1>4, <1>5, <1>6 DEF Incoming, c

-----------------------------------------------------------------------------
(* Application code.                                                        *)

LEMMA AccessibleType ==
    ASSUME NEW p \in Peer
    PROVE  Accessible(p) \subseteq Objects
  BY LocalRemote DEF Accessible

LEMMA InvokeStep ==
    ASSUME NEW p \in Peer, Steady(p), Invoke(p)
    PROVE  Advances(p)
<1>1. stack[p] # << >> /\ Cur(p).at = "user"
  BY DEF Invoke, At
<1>2. PICK target \in Accessible(p), args \in SUBSET (Accessible(p) \cup Local(p)) :
        LET wres == {target} \cup args
        IN  /\ SetHandle(p, AddRef(handle[p], wres \cap Remote(p)))
            /\ SetCur(p, [Cur(p) EXCEPT !.at = "write", !.op = "call", !.wres = wres])
  BY DEF Invoke
<1> DEFINE wres == {target} \cup args
           h == AddRef(handle[p], wres \cap Remote(p))
           a == [Cur(p) EXCEPT !.at = "write", !.op = "call", !.wres = wres]
<1>3. wres \in SUBSET Objects
  BY AccessibleType, LocalRemote
<1>4. /\ h \in Handle
      /\ h.stream = handle[p].stream
      /\ h.last_op = handle[p].last_op
  BY <1>1, Present, AddRefType
<1>5. SetHandle(p, h) /\ SetCur(p, a)
  BY <1>2
<1> HIDE DEF h, wres
<1>6. a \in Activation /\ a.at = "write" /\ a.op = "call"
  BY <1>1, <1>3, Present DEF Activation
<1> HIDE DEF a
<1>7. chan' = chan /\ aborted' = aborted /\ app' = app
  BY DEF Invoke
<1>8. chan \in [Peer -> Seq(Packet)] /\ app \in [Peer -> [Objects -> Int]]
  BY DEF Steady, TypeOK
<1>9. h.stream => h.last_op # 2
  BY <1>1, <1>4, Present
<1>10. QED
  BY <1>1, <1>4, <1>5, <1>6, <1>7, <1>8, <1>9, ReplaceStep

LEMMA AnswerStep ==
    ASSUME NEW p \in Peer, Steady(p), Answer(p)
    PROVE  Advances(p)
<1>1. stack[p] # << >> /\ Cur(p).at = "user" /\ Len(stack[p]) > 1
  BY DEF Answer, At
<1>2. PICK op \in {"return", "throw"}, refs \in SUBSET (Accessible(p) \cup Local(p)) :
        /\ SetHandle(p, AddRef(handle[p], refs \cap Remote(p)))
        /\ SetCur(p, [Cur(p) EXCEPT !.at = "write", !.op = op, !.wres = refs])
  BY DEF Answer
<1> DEFINE h == AddRef(handle[p], refs \cap Remote(p))
           a == [Cur(p) EXCEPT !.at = "write", !.op = op, !.wres = refs]
<1>3. refs \in SUBSET Objects
  BY AccessibleType, LocalRemote
<1>4. /\ h \in Handle
      /\ h.stream = handle[p].stream
      /\ h.last_op = handle[p].last_op
  BY <1>1, Present, AddRefType
<1>5. SetHandle(p, h) /\ SetCur(p, a)
  BY <1>2
<1> HIDE DEF h
<1>6. a \in Activation /\ a.at = "write" /\ a.op \in {"return", "throw"}
  BY <1>1, <1>3, Present DEF Activation
<1> HIDE DEF a
<1>7. chan' = chan /\ aborted' = aborted /\ app' = app
  BY DEF Answer
<1>8. chan \in [Peer -> Seq(Packet)] /\ app \in [Peer -> [Objects -> Int]]
  BY DEF Steady, TypeOK
<1>9. h.stream => h.last_op # 2
  BY <1>1, <1>4, Present
<1>10. QED
  BY <1>1, <1>4, <1>5, <1>6, <1>7, <1>8, <1>9, ReplaceStep

(* A copy that is kept or dropped changes counters, and may close the       *)
(* connection.                                                              *)
Counts(p, h) ==
    /\ SetHandle(p, h) /\ UNCHANGED <<stack, chan, aborted>>
    /\ app' \in [Peer -> [Objects -> Int]]
    /\ h.last_op = handle[p].last_op
    /\ h.stream => handle[p].stream

LEMMA KeepCounts ==
    ASSUME NEW p \in Peer, TypeOK, Keep(p)
    PROVE  \E h \in Handle : Counts(p, h)
<1>1. PICK o \in Accessible(p) :
        /\ app' = [app EXCEPT ![p] = Plus(@, {o})]
        /\ SetHandle(p, AddRef(handle[p], {o}))
  BY DEF Keep
<1> DEFINE h == AddRef(handle[p], {o})
<1>2. handle[p] \in Handle /\ app \in [Peer -> [Objects -> Int]]
  BY DEF TypeOK
<1>3. /\ h \in Handle
      /\ h.stream = handle[p].stream
      /\ h.last_op = handle[p].last_op
  BY <1>2, AddRefType
<1>4. app' \in [Peer -> [Objects -> Int]]
  BY <1>1, <1>2 DEF Plus
<1>5. SetHandle(p, h) /\ UNCHANGED <<stack, chan, aborted>>
  BY <1>1 DEF Keep
<1> HIDE DEF h
<1>6. QED
  BY <1>3, <1>4, <1>5 DEF Counts

LEMMA DropCounts ==
    ASSUME NEW p \in Peer, TypeOK, Drop(p)
    PROVE  \E h \in Handle : Counts(p, h)
<1>1. PICK o \in Remote(p) :
        /\ app' = [app EXCEPT ![p] = Minus(@, {o})]
        /\ SetHandle(p, Release(handle[p], {o}))
  BY DEF Drop
<1> DEFINE h == Release(handle[p], {o})
<1>2. handle[p] \in Handle /\ app \in [Peer -> [Objects -> Int]]
  BY DEF TypeOK
<1>3. /\ h \in Handle
      /\ h.stream => handle[p].stream
      /\ h.last_op = handle[p].last_op
  BY <1>2, LocalRemote, ReleaseType
<1>4. app' \in [Peer -> [Objects -> Int]]
  BY <1>1, <1>2 DEF Minus
<1>5. SetHandle(p, h) /\ UNCHANGED <<stack, chan, aborted>>
  BY <1>1 DEF Drop
<1> HIDE DEF h
<1>6. QED
  BY <1>3, <1>4, <1>5 DEF Counts

LEMMA CopyStep ==
    ASSUME NEW p \in Peer, Steady(p), Keep(p) \/ Drop(p)
    PROVE  Advances(p)
<1>1. TypeOK
  BY DEF Steady
<1>2. PICK h \in Handle : Counts(p, h)
  BY <1>1, KeepCounts, DropCounts
<1>3. QED
  BY <1>2, HandleStep DEF Counts

-----------------------------------------------------------------------------
(* packet_write and garbage_collect.                                        *)

LEMMA GcSkipStep ==
    ASSUME NEW p \in Peer, Steady(p), GcSkip(p)
    PROVE  Advances(p)
<1>1. PICK o : SetHandle(p, [handle[p] EXCEPT !.destr_cand = @ \ {o}])
  BY DEF GcSkip
<1> DEFINE h == [handle[p] EXCEPT !.destr_cand = @ \ {o}]
<1>2. handle[p] \in Handle /\ app \in [Peer -> [Objects -> Int]]
  BY DEF Steady, TypeOK
<1>3. /\ h \in Handle
      /\ h.stream = handle[p].stream
      /\ h.last_op = handle[p].last_op
  BY <1>2 DEF Handle
<1>4. SetHandle(p, h) /\ UNCHANGED <<stack, chan, app, aborted>>
  BY <1>1 DEF GcSkip
<1> HIDE DEF h
<1>5. QED
  BY <1>2, <1>3, <1>4, HandleStep

(* A step that writes a packet and waits for its answer.                    *)
LEMMA SendStep ==
    ASSUME NEW p \in Peer, Steady(p), At(p, {"write"}), handle[p].stream,
           NEW h \in Handle, NEW a \in Activation, NEW op, NEW refs,
           [op |-> op, refs |-> refs] \in Packet,
           SetHandle(p, h), SetCur(p, a), Send(p, op, refs), app' = app,
           aborted' = [aborted EXCEPT ![p] = handle[p].last_op = 2],
           a.at \in {"wait", "gc"}, a.op = Cur(p).op, h.last_op = 2
    PROVE  Advances(p)
<1> DEFINE c == [chan EXCEPT ![Other(p)] = Append(@, [op |-> op, refs |-> refs])]
<1>1. stack[p] # << >> /\ Cur(p).at = "write"
  BY DEF At
<1>2. /\ c \in [Peer -> Seq(Packet)]
      /\ Traffic(p, c) = Traffic(p, chan) + 1
      /\ Traffic(p, chan) \in Nat
  BY SendType
<1>3. chan' = c
  BY DEF Send
<1>4. aborted' = aborted
  (* last_op is not 2: the side runs on an open connection.                 *)
  <2>1. handle[p].last_op # 2
    BY <1>1, Present
  <2>2. QED
    BY <2>1 DEF Steady, NoAbort, TypeOK
<1>5. app' \in [Peer -> [Objects -> Int]]
  BY DEF Steady, TypeOK
<1>6. a.at \in {"write", "gc"} /\ a.op \notin {"call", "hello"} => Len(stack[p]) > 1
  BY <1>1, Present
<1> DEFINE before == IF Cur(p).at \in {"user", "write"} THEN 1 ELSE 0
           after == IF a.at \in {"user", "write"} THEN 1 ELSE 0
           sent == Traffic(p, c)
           old == Traffic(p, chan)
<1>7. before = 1 /\ after = 0
  BY <1>1
<1>8. sent = old + 1 /\ old \in Nat
  BY <1>2
<1> HIDE DEF before, after, sent, old
<1>9. after + sent = before + old
  BY <1>7, <1>8
<1>10. /\ a.op = "hello" => Cur(p).op = "hello"
       /\ a.at \in {"wait", "gc"} => h.last_op # 1
       /\ a.at \in {"user", "write"} /\ h.stream => h.last_op # 2
       /\ h.stream => handle[p].stream
  OBVIOUS
<1>11. h.stream => (IF a.at \in {"user", "write"} THEN 1 ELSE 0) + Traffic(p, c)
                   = (IF Cur(p).at \in {"user", "write"} THEN 1 ELSE 0) + Traffic(p, chan)
  BY <1>9 DEF before, after, sent, old
<1> HIDE DEF c
<1>12. QED
  BY <1>1, <1>2, <1>3, <1>4, <1>5, <1>6, <1>10, <1>11, ReplaceStep

LEMMA GcDestroyStep ==
    ASSUME NEW p \in Peer, Steady(p), GcDestroy(p)
    PROVE  Advances(p)
<1>1. stack[p] # << >> /\ Cur(p).at = "write" /\ handle[p].stream
  BY DEF GcDestroy, At
<1>2. PICK o \in handle[p].destr_cand :
        /\ SetHandle(p, [handle[p] EXCEPT !.destr_cand = @ \ {o}, !.last_op = 2])
        /\ Send(p, "destroy", {o})
        /\ SetCur(p, [Cur(p) EXCEPT !.at = "gc", !.victim = {o}])
  BY DEF GcDestroy
<1> DEFINE h == [handle[p] EXCEPT !.destr_cand = @ \ {o}, !.last_op = 2]
           a == [Cur(p) EXCEPT !.at = "gc", !.victim = {o}]
           c == [chan EXCEPT ![Other(p)] = Append(@, [op |-> "destroy", refs |-> {o}])]
<1>0. handle[p] \in Handle
  BY <1>1, Present
<1>3. o \in Objects
  BY <1>0 DEF Handle
<1>4. h \in Handle /\ h.stream = handle[p].stream /\ h.last_op = 2
  BY <1>0 DEF Handle
<1>5. a \in Activation /\ a.at = "gc" /\ a.op = Cur(p).op
  BY <1>1, <1>3, Present DEF Activation
<1>6. [op |-> "destroy", refs |-> {o}] \in Packet
  BY <1>3 DEF Packet
<1>7. /\ SetHandle(p, h) /\ SetCur(p, a) /\ Send(p, "destroy", {o}) /\ app' = app
      /\ aborted' = [aborted EXCEPT ![p] = handle[p].last_op = 2]
      /\ At(p, {"write"})
  BY <1>2 DEF GcDestroy
<1> HIDE DEF h, a
<1>8. QED
  BY <1>1, <1>4, <1>5, <1>6, <1>7, SendStep

LEMMA WriteCallStep ==
    ASSUME NEW p \in Peer, Steady(p), WriteCall(p)
    PROVE  Advances(p)
<1> DEFINE g == Serialize(p, handle[p], Cur(p).wres)
           h == [g EXCEPT !.last_op = 2]
           a == [Cur(p) EXCEPT !.at = "wait"]
           op == IF Cur(p).op = "hello" THEN "return" ELSE "request"
<1>1. stack[p] # << >> /\ At(p, {"write"}) /\ handle[p].stream
  BY DEF WriteCall, At
<1>2. g \in Handle
  BY <1>1, Present, SerializeType
<1>3. /\ SetHandle(p, h) /\ SetCur(p, a) /\ Send(p, op, Cur(p).wres) /\ app' = app
      /\ aborted' = [aborted EXCEPT ![p] = handle[p].last_op = 2]
  BY DEF WriteCall
<1>4. [op |-> op, refs |-> Cur(p).wres] \in Packet
  BY <1>1, Present DEF Packet, Activation
<1>5. a \in Activation /\ a.at = "wait" /\ a.op = Cur(p).op
  BY <1>1, Present DEF Activation
<1> HIDE DEF g
<1>6. h \in Handle /\ h.last_op = 2
  BY <1>2 DEF Handle
<1> HIDE DEF h, a, op
<1>7. QED
  BY <1>1, <1>3, <1>4, <1>5, <1>6, SendStep

(* Two releases in a row: those of the end of an activation.                *)
LEMMA ReleaseTwice ==
    ASSUME NEW h \in Handle, NEW p \in Peer, NEW S, NEW T
    PROVE  LET g == Release(Release(h, S \cap Remote(p)), T \cap Remote(p))
           IN  /\ g \in Handle
               /\ g.stream => h.stream
               /\ g.last_op = h.last_op
<1>1. S \cap Remote(p) \in SUBSET Objects /\ T \cap Remote(p) \in SUBSET Objects
  BY LocalRemote
<1> DEFINE g == Release(h, S \cap Remote(p))
<1>2. g \in Handle /\ (g.stream => h.stream) /\ g.last_op = h.last_op
  BY <1>1, ReleaseType
<1> HIDE DEF g
<1>3. LET k == Release(g, T \cap Remote(p))
      IN  k \in Handle /\ (k.stream => g.stream) /\ k.last_op = g.last_op
  BY <1>1, <1>2, ReleaseType
<1>4. QED
  BY <1>2, <1>3 DEF g

LEMMA WriteReplyStep ==
    ASSUME NEW p \in Peer, Steady(p), WriteReply(p)
    PROVE  Advances(p)
<1> DEFINE wres == Cur(p).wres
           g == Serialize(p, handle[p], wres)
           h0 == [g EXCEPT !.last_op = 2]
           rpkt == Cur(p).rpkt
           h == Release(Release(h0, wres \cap Remote(p)), rpkt \cap Remote(p))
           op == IF Cur(p).op = "throw" THEN "throw" ELSE "return"
           c == [chan EXCEPT ![Other(p)] = Append(@, [op |-> op, refs |-> wres])]
           s == Rest(p)
<1>1. /\ stack[p] # << >> /\ Cur(p).at = "write" /\ handle[p].stream
      /\ Cur(p).op \in {"return", "throw", "ack"}
  BY DEF WriteReply, At
<1>2. /\ handle[p] \in Handle /\ handle[p].last_op # 2
      /\ Len(stack[p]) > 1 /\ Shape(stack[p]) /\ Runs(stack[p])
      /\ wres \in SUBSET Objects /\ stack[p] \in Seq(Activation)
  BY <1>1, Present DEF Activation
<1>3. g \in Handle
  BY <1>2, SerializeType
<1>4. /\ handle' = [handle EXCEPT ![p] = h]
      /\ stack' = [stack EXCEPT ![p] = s]
      /\ chan' = c
      /\ app' = app
  BY DEF WriteReply, SetHandle, SetStack, Send
<1>5. [op |-> op, refs |-> wres] \in Packet
  BY <1>2 DEF Packet
<1>6. /\ c \in [Peer -> Seq(Packet)]
      /\ Traffic(p, c) = Traffic(p, chan) + 1
      /\ Traffic(p, chan) \in Nat
  <2> HIDE DEF op, wres
  <2>1. QED
    BY <1>5, SendType
<1> HIDE DEF c, op, g
<1>7. h0 \in Handle /\ h0.last_op = 2
  BY <1>3 DEF Handle
<1> HIDE DEF h0, wres, rpkt
<1>8. h \in Handle /\ h.last_op = 2
  <2> DEFINE k == Release(h0, wres \cap Remote(p))
  <2>1. wres \cap Remote(p) \in SUBSET Objects /\ rpkt \cap Remote(p) \in SUBSET Objects
    BY LocalRemote
  <2>2. k \in Handle /\ k.last_op = 2
    BY <1>7, <2>1, ReleaseType
  <2> HIDE DEF k
  <2>3. LET r == Release(k, rpkt \cap Remote(p)) IN r \in Handle /\ r.last_op = k.last_op
    BY <2>1, <2>2, ReleaseType
  <2>4. QED
    BY <2>2, <2>3 DEF k
<1> HIDE DEF h
<1>9. s \in Seq(Activation) /\ s # << >> /\ Shape(s) /\ ~Runs(s)
  BY <1>2, SoundPop DEF Rest
<1> HIDE DEF s
<1>10. Sound(h, s)
  BY <1>8, <1>9 DEF Sound, Discipline
<1>11. aborted' = aborted
  BY <1>2 DEF WriteReply, Steady, NoAbort, TypeOK
<1>12. RunToken(s) + Traffic(p, c) = RunToken(stack[p]) + Traffic(p, chan)
  <2> DEFINE after == RunToken(s)    before == RunToken(stack[p])
             sent == Traffic(p, c)   old == Traffic(p, chan)
  <2>1. after = 0 /\ before = 1
    BY <1>2, <1>9 DEF RunToken
  <2>2. sent = old + 1 /\ old \in Nat
    BY <1>6
  <2> HIDE DEF after, before, sent, old
  <2>3. after + sent = before + old
    BY <2>1, <2>2
  <2>4. QED
    BY <2>3 DEF after, before, sent, old
<1>13. app' \in [Peer -> [Objects -> Int]]
  BY <1>4 DEF Steady, TypeOK
<1>14. QED
  BY <1>1, <1>4, <1>6, <1>8, <1>9, <1>10, <1>11, <1>12, <1>13, Moved

(* A step that leaves a closed connection.                                  *)
LEMMA FailureStep ==
    ASSUME NEW p \in Peer, Steady(p),
           NEW s \in Seq(Activation), s # << >>, Shape(s),
           NEW h \in Handle, ~h.stream, NEW c \in [Peer -> Seq(Packet)],
           SetHandle(p, h), SetStack(p, AfterFailure(s)), chan' = c,
           app' \in [Peer -> [Objects -> Int]], aborted' = aborted
    PROVE  Advances(p)
<1> DEFINE t == AfterFailure(s)
<1>1. t \in Seq(Activation) /\ Sound(h, t)
  BY SoundFailure
<1>2. handle' = [handle EXCEPT ![p] = h] /\ stack' = [stack EXCEPT ![p] = t]
  BY DEF SetHandle, SetStack
<1> HIDE DEF t
<1>3. QED
  BY <1>1, <1>2, Moved

LEMMA WriteFailsStep ==
    ASSUME NEW p \in Peer, Steady(p), WriteFails(p)
    PROVE  Advances(p)
<1> DEFINE closed == CloseConnection(handle[p])
           h == Release(closed, Cur(p).wres \cap Remote(p))
           below == Rest(p)[Len(Rest(p))]
           k == Release(Release(h, Cur(p).rpkt \cap Remote(p)),
                        below.wres \cap Remote(p))
<1>1. stack[p] # << >> /\ Cur(p).at = "write"
  BY DEF WriteFails, At
<1>2. handle[p] \in Handle /\ stack[p] \in Seq(Activation) /\ Shape(stack[p])
  BY <1>1, Present
<1>3. closed \in Handle /\ ~closed.stream
  BY <1>2, CloseConnectionType
<1>4. Cur(p).wres \cap Remote(p) \in SUBSET Objects
  BY LocalRemote
<1>5. /\ chan' = chan /\ app' = app /\ aborted' = aborted
      /\ chan \in [Peer -> Seq(Packet)]
      /\ app \in [Peer -> [Objects -> Int]]
  BY DEF WriteFails, Steady, TypeOK
<1>6. IF Cur(p).op \in {"call", "hello"}
      THEN SetHandle(p, h) /\ SetStack(p, AfterFailure(stack[p]))
      ELSE SetHandle(p, k) /\ SetStack(p, AfterFailure(Rest(p)))
  BY DEF WriteFails
<1> HIDE DEF closed
<1>7. h \in Handle /\ ~h.stream
  BY <1>3, <1>4, ReleaseType
<1> HIDE DEF h, below
<1>8. k \in Handle /\ ~k.stream
  BY <1>7, ReleaseTwice
<1> HIDE DEF k
<1>9. CASE Cur(p).op \in {"call", "hello"}
  BY <1>1, <1>2, <1>5, <1>6, <1>7, <1>9, FailureStep
<1>10. CASE Cur(p).op \notin {"call", "hello"}
  <2>1. Len(stack[p]) > 1
    BY <1>1, <1>10, Present
  <2>2. Rest(p) \in Seq(Activation) /\ Rest(p) # << >> /\ Shape(Rest(p))
    BY <1>2, <2>1, SoundPop DEF Rest
  <2>3. QED
    BY <1>5, <1>6, <1>8, <1>10, <2>2, FailureStep
<1>11. QED
  BY <1>9, <1>10

-----------------------------------------------------------------------------
(* remote_event_loop and packet_read.                                       *)

LEMMA LoopThrowsStep ==
    ASSUME NEW p \in Peer, Steady(p), At(p, {"wait", "gc"}),
           LoopThrows(p, handle[p]),
           NEW c \in [Peer -> Seq(Packet)], chan' = c,
           app' = app, aborted' = aborted
    PROVE  Advances(p)
<1> DEFINE g == [handle[p] EXCEPT !.last_op = 1]
           closed == CloseConnection(g)
           h == Delete(closed, Cur(p).victim)
           k == Release(closed, Cur(p).wres \cap Remote(p))
           a == [Cur(p) EXCEPT !.at = "write", !.victim = {}]
<1>1. stack[p] # << >> /\ Cur(p).at \in {"wait", "gc"}
  BY DEF At
<1>2. /\ handle[p] \in Handle /\ stack[p] \in Seq(Activation) /\ Shape(stack[p])
      /\ Cur(p) \in Activation
  BY <1>1, Present
<1>3. g \in Handle
  BY <1>2 DEF Handle
<1>4. IF Cur(p).at = "gc"
      THEN SetHandle(p, h) /\ SetCur(p, a)
      ELSE SetHandle(p, k) /\ SetStack(p, AfterFailure(stack[p]))
  BY DEF LoopThrows
<1> HIDE DEF g
<1>5. closed \in Handle /\ ~closed.stream
  BY <1>3, CloseConnectionType
<1>6. Cur(p).wres \cap Remote(p) \in SUBSET Objects
  BY LocalRemote
<1> HIDE DEF closed
<1>7. h \in Handle /\ ~h.stream
  BY <1>5, DeleteType
<1>8. k \in Handle /\ ~k.stream
  BY <1>5, <1>6, ReleaseType
<1> HIDE DEF h, k
<1>9. app' \in [Peer -> [Objects -> Int]]
  BY DEF Steady, TypeOK
<1>10. CASE Cur(p).at = "gc"
  <2>1. a \in Activation /\ a.at = "write" /\ a.op = Cur(p).op
    BY <1>2 DEF Activation
  <2>2. a.op \notin {"call", "hello"} => Len(stack[p]) > 1
    BY <1>1, <1>10, <2>1, Present
  <2>3. SetHandle(p, h) /\ SetCur(p, a)
    BY <1>4, <1>10
  <2> HIDE DEF a
  <2>4. QED
    BY <1>1, <1>7, <1>9, <2>1, <2>2, <2>3, ReplaceStep
<1>11. CASE Cur(p).at # "gc"
  BY <1>1, <1>2, <1>4, <1>8, <1>9, <1>11, FailureStep
<1>12. QED
  BY <1>10, <1>11

LEMMA ReadFailsStep ==
    ASSUME NEW p \in Peer, Steady(p), ReadFails(p)
    PROVE  Advances(p)
<1>1. At(p, {"wait", "gc"}) /\ LoopThrows(p, handle[p])
  BY DEF ReadFails
<1>2. handle[p].last_op # 1
  BY <1>1, Present DEF At
<1>3. chan' = chan /\ app' = app /\ aborted' = aborted
  BY <1>2 DEF ReadFails, Steady, NoAbort, TypeOK
<1>4. chan \in [Peer -> Seq(Packet)]
  BY DEF Steady, TypeOK
<1>5. QED
  BY <1>1, <1>3, <1>4, LoopThrowsStep

(* packet_read does not abort: a side that waits did not read last.         *)
LEMMA Reading ==
    ASSUME NEW p \in Peer, Steady(p), NEW ops, Read(p, ops)
    PROVE  /\ At(p, {"wait", "gc"})
           /\ stack[p] # << >> /\ Cur(p).at \in {"wait", "gc"}
           /\ handle[p].stream
           /\ chan[p] # << >>
           /\ chan' = [chan EXCEPT ![p] = Tail(@)]
           /\ aborted' = aborted
<1>1. /\ stack[p] # << >> /\ Cur(p).at \in {"wait", "gc"} /\ handle[p].stream
      /\ chan[p] # << >>
      /\ chan' = [chan EXCEPT ![p] = Tail(@)]
  BY DEF Read, At, Arrived
<1>2. handle[p].last_op # 1
  BY <1>1, Present
<1>3. aborted' = aborted
  BY <1>2 DEF Read, Steady, NoAbort, TypeOK
<1>4. QED
  BY <1>1, <1>3 DEF Read

(* The packet at the head of the channel is read and the loop throws.       *)
LEMMA ReadThrowsStep ==
    ASSUME NEW p \in Peer, Steady(p), NEW ops, Read(p, ops),
           LoopThrows(p, handle[p]), app' = app
    PROVE  Advances(p)
<1> DEFINE c == [chan EXCEPT ![p] = Tail(@)]
<1>1. At(p, {"wait", "gc"}) /\ chan[p] # << >> /\ chan' = c /\ aborted' = aborted
  BY Reading
<1>2. c \in [Peer -> Seq(Packet)]
  BY <1>1, ReadType
<1> HIDE DEF c
<1>3. QED
  BY <1>1, <1>2, LoopThrowsStep

(* A request is read and a new activation executes it.                      *)
LEMMA PushStep ==
    ASSUME NEW p \in Peer, Steady(p), NEW ops, Read(p, ops),
           NEW h \in Handle, h.last_op = 1, h.stream = handle[p].stream,
           NEW a \in Activation, a.op # "hello", a.at \in {"user", "write"},
           SetHandle(p, h), SetStack(p, Append(stack[p], a)), app' = app
    PROVE  Advances(p)
<1> DEFINE c == [chan EXCEPT ![p] = Tail(@)]
           s == Append(stack[p], a)
<1>1. /\ stack[p] # << >> /\ Cur(p).at \in {"wait", "gc"}
      /\ chan[p] # << >> /\ chan' = c /\ aborted' = aborted
  BY Reading
<1>2. /\ c \in [Peer -> Seq(Packet)]
      /\ Traffic(p, chan) = Traffic(p, c) + 1
      /\ Traffic(p, c) \in Nat
  BY <1>1, ReadType
<1> HIDE DEF c
<1>3. stack[p] \in Seq(Activation) /\ Shape(stack[p]) /\ ~Runs(stack[p])
  BY <1>1, Present
<1>4. s \in Seq(Activation) /\ Sound(h, s) /\ Runs(s)
  BY <1>1, <1>3, SoundPush
<1>5. handle' = [handle EXCEPT ![p] = h] /\ stack' = [stack EXCEPT ![p] = s]
  BY DEF SetHandle, SetStack
<1> HIDE DEF s
<1>6. RunToken(s) + Traffic(p, c) = RunToken(stack[p]) + Traffic(p, chan)
  <2> DEFINE after == RunToken(s)    before == RunToken(stack[p])
             left == Traffic(p, c)   old == Traffic(p, chan)
  <2>1. after = 1 /\ before = 0
    BY <1>3, <1>4 DEF RunToken
  <2>2. old = left + 1 /\ left \in Nat
    BY <1>2
  <2> HIDE DEF after, before, left, old
  <2>3. after + left = before + old
    BY <2>1, <2>2
  <2>4. QED
    BY <2>3 DEF after, before, left, old
<1>7. app' \in [Peer -> [Objects -> Int]]
  BY DEF Steady, TypeOK
<1>8. QED
  BY <1>1, <1>2, <1>4, <1>5, <1>6, <1>7, Moved

(* An answer is read and the current activation goes on.                    *)
LEMMA ResumeStep ==
    ASSUME NEW p \in Peer, Steady(p), NEW ops, Read(p, ops),
           NEW h \in Handle, h.last_op = 1, h.stream => handle[p].stream,
           NEW a \in Activation, a.at \in {"user", "write"},
           a.op = "hello" => Cur(p).op = "hello",
           a.at = "write" /\ a.op \notin {"call", "hello"} => Len(stack[p]) > 1,
           SetHandle(p, h), SetCur(p, a), app' \in [Peer -> [Objects -> Int]]
    PROVE  Advances(p)
<1> DEFINE c == [chan EXCEPT ![p] = Tail(@)]
<1>1. /\ stack[p] # << >> /\ Cur(p).at \in {"wait", "gc"}
      /\ chan[p] # << >> /\ chan' = c /\ aborted' = aborted
  BY Reading
<1>2. /\ c \in [Peer -> Seq(Packet)]
      /\ Traffic(p, chan) = Traffic(p, c) + 1
      /\ Traffic(p, c) \in Nat
  BY <1>1, ReadType
<1> HIDE DEF c
<1> DEFINE before == IF Cur(p).at \in {"user", "write"} THEN 1 ELSE 0
           after == IF a.at \in {"user", "write"} THEN 1 ELSE 0
           left == Traffic(p, c)
           old == Traffic(p, chan)
<1>3. before = 0 /\ after = 1
  BY <1>1
<1>4. old = left + 1 /\ left \in Nat
  BY <1>2
<1> HIDE DEF before, after, left, old
<1>5. after + left = before + old
  BY <1>3, <1>4
<1>6. h.stream => (IF a.at \in {"user", "write"} THEN 1 ELSE 0) + Traffic(p, c)
                  = (IF Cur(p).at \in {"user", "write"} THEN 1 ELSE 0) + Traffic(p, chan)
  BY <1>5 DEF before, after, left, old
<1>7. /\ a.at \in {"write", "gc"} /\ a.op \notin {"call", "hello"} => Len(stack[p]) > 1
      /\ a.at \in {"wait", "gc"} => h.last_op # 1
      /\ a.at \in {"user", "write"} /\ h.stream => h.last_op # 2
  OBVIOUS
<1>8. QED
  BY <1>1, <1>2, <1>6, <1>7, ReplaceStep

LEMMA Arriving ==
    ASSUME NEW p \in Peer, Steady(p), NEW ops, Read(p, ops)
    PROVE  Incoming(p).refs \in SUBSET Objects
<1>1. chan[p] # << >>
  BY Reading
<1>2. Incoming(p) \in Packet
  BY <1>1, ReadType
<1>3. QED
  BY <1>2 DEF Packet

LEMMA ReadRequestStep ==
    ASSUME NEW p \in Peer, Steady(p), ReadRequest(p)
    PROVE  Advances(p)
<1> DEFINE refs == Incoming(p).refs
           g == [handle[p] EXCEPT !.last_op = 1]
           h == Deserialize(p, g, refs)
           a == [Idle EXCEPT !.rpkt = refs]
<1>1. Read(p, {"request"}) /\ app' = app
  BY DEF ReadRequest
<1>2. handle[p] \in Handle
  BY DEF Steady, TypeOK
<1>3. g \in Handle /\ g.last_op = 1 /\ g.stream = handle[p].stream
  BY <1>2 DEF Handle
<1>4. refs \in SUBSET Objects
  BY <1>1, Arriving
<1>5. a \in Activation /\ a.op # "hello" /\ a.at \in {"user", "write"}
  BY <1>4 DEF Idle, Activation
<1>6. IF Known(p, handle[p], refs)
      THEN SetHandle(p, h) /\ SetStack(p, Append(stack[p], a))
      ELSE LoopThrows(p, handle[p])
  BY DEF ReadRequest
<1> HIDE DEF g, refs
<1>7. h \in Handle /\ h.last_op = 1 /\ h.stream = handle[p].stream
  BY <1>3, DeserializeType
<1> HIDE DEF h, a
<1>8. CASE Known(p, handle[p], refs)
  BY <1>1, <1>5, <1>6, <1>7, <1>8, PushStep
<1>9. CASE ~Known(p, handle[p], refs)
  BY <1>1, <1>6, <1>9, ReadThrowsStep
<1>10. QED
  BY <1>8, <1>9

LEMMA ReadDestroyStep ==
    ASSUME NEW p \in Peer, Steady(p), ReadDestroy(p)
    PROVE  Advances(p)
<1> DEFINE refs == Incoming(p).refs
           h == [handle[p] EXCEPT !.last_op = 1, !.localobjmap = @ \ refs]
           a == [Idle EXCEPT !.at = "write", !.op = "ack", !.rpkt = refs]
<1>1. Read(p, {"destroy"}) /\ app' = app
  BY DEF ReadDestroy
<1>2. handle[p] \in Handle
  BY DEF Steady, TypeOK
<1>3. h \in Handle /\ h.last_op = 1 /\ h.stream = handle[p].stream
  BY <1>2 DEF Handle
<1>4. refs \in SUBSET Objects
  BY <1>1, Arriving
<1>5. a \in Activation /\ a.op # "hello" /\ a.at \in {"user", "write"}
  BY <1>4 DEF Idle, Activation
<1>6. IF Known(p, handle[p], refs)
      THEN SetHandle(p, h) /\ SetStack(p, Append(stack[p], a))
      ELSE LoopThrows(p, handle[p])
  BY DEF ReadDestroy
<1> HIDE DEF refs, h, a
<1>7. CASE Known(p, handle[p], refs)
  BY <1>1, <1>3, <1>5, <1>6, <1>7, PushStep
<1>8. CASE ~Known(p, handle[p], refs)
  BY <1>1, <1>6, <1>8, ReadThrowsStep
<1>9. QED
  BY <1>7, <1>8

LEMMA ReadReplyStep ==
    ASSUME NEW p \in Peer, Steady(p), ReadReply(p)
    PROVE  Advances(p)
<1> DEFINE refs == Incoming(p).refs
           proxies == refs \cap Remote(p)
           g == [handle[p] EXCEPT !.last_op = 1]
           d == Deserialize(p, g, refs)
           wres == Cur(p).wres
           a == Resumed(p)
<1>1. Read(p, {"return", "throw"})
  BY DEF ReadReply
<1>2. stack[p] # << >>
  BY <1>1, Reading
<1>3. handle[p] \in Handle /\ app \in [Peer -> [Objects -> Int]]
  BY DEF Steady, TypeOK
<1>4. g \in Handle /\ g.last_op = 1 /\ g.stream = handle[p].stream
  BY <1>3 DEF Handle
<1>5. CASE Known(p, handle[p], refs) /\ Cur(p).op = "call"
  <2>1. PICK kept : /\ app' = [app EXCEPT ![p] = Plus(@, kept)]
                    /\ SetHandle(p, Release(Release(d, proxies \ kept),
                                             wres \cap Remote(p)))
                    /\ SetCur(p, a)
    BY <1>5 DEF ReadReply
  <2> DEFINE k == Release(d, proxies \ kept)
             h == Release(k, wres \cap Remote(p))
  <2>2. app' \in [Peer -> [Objects -> Int]]
    BY <1>3, <2>1 DEF Plus
  <2>3. proxies \ kept \in SUBSET Objects /\ wres \cap Remote(p) \in SUBSET Objects
    BY LocalRemote
  <2>4. a \in Activation /\ a.at = "user" /\ a.op = "none"
    BY <1>2, Present DEF Resumed, Activation
  <2>5. SetHandle(p, h) /\ SetCur(p, a)
    BY <2>1
  <2> HIDE DEF g, refs, proxies, wres, a
  <2>6. d \in Handle /\ d.last_op = 1 /\ d.stream = handle[p].stream
    BY <1>4, DeserializeType
  <2> HIDE DEF d
  <2>7. k \in Handle /\ k.last_op = 1 /\ (k.stream => handle[p].stream)
    BY <2>3, <2>6, ReleaseType
  <2> HIDE DEF k
  <2>8. h \in Handle /\ h.last_op = 1 /\ (h.stream => handle[p].stream)
    BY <2>3, <2>7, ReleaseType
  <2> HIDE DEF h
  <2>9. QED
    BY <1>1, <2>2, <2>4, <2>5, <2>8, ResumeStep
<1>6. CASE ~(Known(p, handle[p], refs) /\ Cur(p).op = "call")
  <2>1. LoopThrows(p, handle[p]) /\ app' = app
    BY <1>6 DEF ReadReply
  <2>2. QED
    BY <1>1, <2>1, ReadThrowsStep
<1>7. QED
  BY <1>5, <1>6

LEMMA ReadAckStep ==
    ASSUME NEW p \in Peer, Steady(p), ReadAck(p)
    PROVE  Advances(p)
<1> DEFINE g == [handle[p] EXCEPT !.last_op = 1]
           h == Delete(g, Cur(p).victim)
           a == [Cur(p) EXCEPT !.at = "write", !.victim = {}]
<1>1. Read(p, {"return", "throw"}) /\ Cur(p).at = "gc" /\ app' = app
  BY DEF ReadAck
<1>2. stack[p] # << >>
  BY <1>1, Reading
<1>3. handle[p] \in Handle /\ app \in [Peer -> [Objects -> Int]]
  BY DEF Steady, TypeOK
<1>4. g \in Handle /\ g.last_op = 1 /\ g.stream = handle[p].stream
  BY <1>3 DEF Handle
<1>5. CASE Incoming(p).op = "return"
  <2>1. SetHandle(p, h) /\ SetCur(p, a)
    BY <1>5 DEF ReadAck
  <2>2. a \in Activation /\ a.at = "write" /\ a.op = Cur(p).op
    BY <1>2, Present DEF Activation
  <2>3. a.op \notin {"call", "hello"} => Len(stack[p]) > 1
    BY <1>1, <1>2, <2>2, Present
  <2> HIDE DEF g
  <2>4. h \in Handle /\ h.last_op = 1 /\ (h.stream => handle[p].stream)
    BY <1>4, DeleteType
  <2> HIDE DEF h, a
  <2>5. QED
    BY <1>1, <1>3, <2>1, <2>2, <2>3, <2>4, ResumeStep
<1>6. CASE Incoming(p).op # "return"
  <2>1. LoopThrows(p, handle[p])
    BY <1>6 DEF ReadAck
  <2>2. QED
    BY <1>1, <2>1, ReadThrowsStep
<1>7. QED
  BY <1>5, <1>6

(* All steps of p.                                                          *)
LEMMA SideStep ==
    ASSUME NEW p \in Peer, Steady(p),
           \/ Invoke(p) \/ Answer(p) \/ Keep(p) \/ Drop(p)
           \/ GcSkip(p) \/ GcDestroy(p) \/ WriteCall(p) \/ WriteReply(p) \/ WriteFails(p)
           \/ ReadRequest(p) \/ ReadDestroy(p) \/ ReadReply(p) \/ ReadAck(p) \/ ReadFails(p)
    PROVE  Advances(p)
  BY InvokeStep, AnswerStep, CopyStep, GcSkipStep, GcDestroyStep, WriteCallStep, WriteReplyStep,
     WriteFailsStep, ReadRequestStep, ReadDestroyStep, ReadReplyStep, ReadAckStep, ReadFailsStep

-----------------------------------------------------------------------------
(* The same facts under the invariant of both sides.                        *)

LEMMA Current ==
    ASSUME IInv, NEW p \in Peer, stack[p] # << >>
    PROVE  /\ handle[p] \in Handle
           /\ stack[p] \in Seq(Activation)
           /\ Cur(p) \in Activation
           /\ Len(stack[p]) \in Nat \ {0}
           /\ Shape(stack[p])
           /\ Runs(stack[p]) <=> Cur(p).at \in {"user", "write"}
           /\ Cur(p).at \in {"wait", "gc"} => handle[p].last_op # 1
           /\ Cur(p).at \in {"user", "write"} /\ handle[p].stream => handle[p].last_op # 2
           /\ Cur(p).at \in {"write", "gc"} /\ Cur(p).op \notin {"call", "hello"}
                => Len(stack[p]) > 1
  BY SteadyIs, Present

LEMMA ReadEffect ==
    ASSUME IInv, NEW p \in Peer, NEW ops, Read(p, ops)
    PROVE  /\ At(p, {"wait", "gc"})
           /\ stack[p] # << >> /\ Cur(p).at \in {"wait", "gc"}
           /\ handle[p].stream
           /\ chan[p] # << >>
           /\ chan' = [chan EXCEPT ![p] = Tail(@)]
           /\ aborted' = aborted
  BY SteadyIs, Reading

LEMMA IncomingType ==
    ASSUME IInv, NEW p \in Peer, NEW ops, Read(p, ops)
    PROVE  Incoming(p).refs \in SUBSET Objects
  BY SteadyIs, Arriving

-----------------------------------------------------------------------------
(* The theorems.                                                            *)

LEMMA InitInvariant == Init => IInv
<1> SUFFICES ASSUME Init PROVE IInv
  OBVIOUS
<1> DEFINE a == [Idle EXCEPT !.at = "wait", !.op = "call"]
           b == [Idle EXCEPT !.at = "write", !.op = "hello", !.wres = {TopObj}]
<1>1. TopObj \in Objects
  BY ObjectsAssumption DEF Objects
<1>2. /\ a \in Activation /\ a.at = "wait" /\ a.op = "call"
      /\ b \in Activation /\ b.at = "write" /\ b.op = "hello"
  BY <1>1 DEF Idle, Activation
<1>3. stack = [p \in Peer |-> IF p = Client THEN <<a>> ELSE <<b>>]
  BY DEF Init
<1> HIDE DEF a, b
<1>4. /\ Client \in Peer /\ Server \in Peer /\ Client # Server
      /\ stack[Client] = <<a>> /\ stack[Server] = <<b>>
  BY <1>3 DEF Peer, Client, Server
<1>5. \A p \in Peer : handle[p] = NewHandle /\ chan[p] = << >> /\ ~aborted[p]
  BY DEF Init
<1>6. NewHandle \in Handle /\ NewHandle.last_op = 0
  BY DEF NewHandle, Handle
<1>7. TypeOK
  <2>1. stack \in [Peer -> Seq(Activation)]
    BY <1>2, <1>3
  <2>2. handle \in [Peer -> Handle]
    BY <1>6 DEF Init
  <2>3. chan \in [Peer -> Seq(Packet)]
    BY DEF Init
  <2>4. app \in [Peer -> [Objects -> Int]] /\ aborted \in [Peer -> BOOLEAN]
    BY DEF Init
  <2>5. QED
    BY <2>1, <2>2, <2>3, <2>4 DEF TypeOK
<1>8. ASSUME NEW e \in Activation, e.op \in {"call", "hello"}
      PROVE  Shape(<<e>>) /\ Discipline(NewHandle, <<e>>)
  <2> DEFINE s == <<e>>
  <2>1. s # << >> /\ Len(s) = 1 /\ s[1] = e
    OBVIOUS
  <2> HIDE DEF s
  <2>2. Shape(s)
    BY <1>8, <2>1 DEF Shape
  <2>3. Discipline(NewHandle, s)
    BY <1>6, <2>1 DEF Discipline
  <2>4. QED
    BY <2>2, <2>3 DEF s
<1>9. SidesSound
  <2>1. \A p \in Peer : stack[p] = <<a>> \/ stack[p] = <<b>>
    BY <1>3
  <2>2. /\ Shape(<<a>>) /\ Discipline(NewHandle, <<a>>)
        /\ Shape(<<b>>) /\ Discipline(NewHandle, <<b>>)
    BY <1>2, <1>8
  <2>3. QED
    BY <1>5, <2>1, <2>2 DEF SidesSound, Sound
<1>10. NoAbort
  BY <1>5 DEF NoAbort
<1>11. FlipFlop
  <2>1. ~Controls(Client)
    BY <1>2, <1>4 DEF Controls, At, Cur
  <2>2. Controls(Server)
    BY <1>2, <1>4, <1>5 DEF Controls, At, Cur
  <2>3. Len(chan[Client]) = 0 /\ Len(chan[Server]) = 0
    BY <1>4, <1>5
  <2>4. Token(Client) = 0 /\ Token(Server) = 1
    BY <2>1, <2>2, <2>3 DEF Token
  <2>5. QED
    BY <2>4 DEF FlipFlop
<1>12. QED
  BY <1>7, <1>9, <1>10, <1>11 DEF IInv

LEMMA StutterInvariant == IInv /\ UNCHANGED vars => IInv'
<1> SUFFICES ASSUME IInv, UNCHANGED vars PROVE IInv'
  OBVIOUS
<1>1. /\ handle' = handle /\ stack' = stack /\ chan' = chan
      /\ app' = app /\ aborted' = aborted
  BY DEF vars
<1>2. TypeOK' /\ SidesSound' /\ NoAbort'
  BY <1>1 DEF IInv, TypeOK, SidesSound, NoAbort
<1>3. FlipFlop'
  BY <1>1 DEF IInv, FlipFlop, Open, Token, Controls, At, Cur
<1>4. QED
  BY <1>2, <1>3 DEF IInv

LEMMA NextInvariant == IInv /\ [Next]_vars => IInv'
<1> SUFFICES ASSUME IInv, Next PROVE IInv'
  BY StutterInvariant
<1> PICK p \in Peer :
      \/ Invoke(p) \/ Answer(p) \/ Keep(p) \/ Drop(p)
      \/ GcSkip(p) \/ GcDestroy(p) \/ WriteCall(p) \/ WriteReply(p) \/ WriteFails(p)
      \/ ReadRequest(p) \/ ReadDestroy(p) \/ ReadReply(p) \/ ReadAck(p) \/ ReadFails(p)
  BY DEF Next
<1>1. Advances(p)
  BY SteadyIs, SideStep
<1>2. QED
  BY <1>1, Advance

LEMMA Invariant == Spec => []IInv
  BY InitInvariant, NextInvariant, PTL DEF Spec

(* Type correctness: for every set of objects and every bound, the state of *)
(* both ends keeps its type.                                                *)
THEOREM TypeCorrect == Spec => []TypeOK
<1>1. IInv => TypeOK
  BY DEF IInv
<1>2. QED
  BY <1>1, Invariant, PTL

(* The last_op checks of packet_write, packet_read and garbage_collect      *)
(* never abort a process, whatever calls nest, collect, fail or time out.   *)
THEOREM NeverAborts == Spec => []NoAbort
<1>1. IInv => NoAbort
  BY DEF IInv
<1>2. QED
  BY <1>1, Invariant, PTL

(* The flip-flop rule: while both ends of the connection are open, exactly  *)
(* one of them runs or exactly one packet is on its way.                    *)
THEOREM TokenUnique == Spec => []FlipFlop
<1>1. IInv => FlipFlop
  BY DEF IInv
<1>2. QED
  BY <1>1, Invariant, PTL

-----------------------------------------------------------------------------
(***************************************************************************)
(* How the activations of the two sides fit together.  Well: only the last *)
(* activation of a side may collect, the others wait for their own call;   *)
(* the first one of the server, and no other, is its serving loop; the     *)
(* answer to op_destroy is written at once.                                *)
(***************************************************************************)
Last(s) == s[Len(s)]

Well(p, s) ==
    /\ \A i \in 1 .. Len(s) - 1 : s[i].at = "wait"
    /\ \A i \in 1 .. Len(s) :
         /\ s[i].op = "hello" <=> (p = Server /\ i = 1)
         /\ s[i].at = "wait" => s[i].op \in {"call", "hello"}
         /\ s[i].op = "ack" => s[i].at = "write"
         /\ s[i].op = "hello" => s[i].at \in {"write", "wait"}

(* The server has nothing to collect before its first packet.               *)
HelloClean(h, s) ==
    s # << >> /\ Last(s).op = "hello" /\ Last(s).at = "write" => h.destr_cand = {}

(* The packet a side finds, and the activation that reads it.               *)
Fits(a, op) ==
    \/ op \in {"request", "destroy"} /\ a.at = "wait"
    \/ op \in {"return", "throw"} /\ a.at = "wait" /\ a.op = "call"
    \/ op = "return" /\ a.at = "gc"

(* Activations of the server more than of the client, if p has stack s and  *)
(* the other side has stack r.                                              *)
Ahead(p, s, r) == IF p = Client THEN Len(r) - Len(s) ELSE Len(s) - Len(r)

(* p runs: the other side waits for what it may answer.                     *)
RunPair(p, s, r) ==
    /\ Last(r).at = IF Last(s).op = "ack" THEN "gc" ELSE "wait"
    /\ Ahead(p, s, r) = IF p = Server /\ Last(s).op # "hello" THEN 1 ELSE 0

(* A packet is on its way to p: the other side waits as its op says.        *)
Asks(op) == op \in {"request", "destroy"}
FlightPair(p, s, r, op) ==
    /\ Last(r).at = IF op = "destroy" THEN "gc" ELSE "wait"
    /\ Ahead(p, s, r) = IF (p = Client) <=> Asks(op) THEN 1 ELSE 0

NestOf(p, h, s, c, r, open) ==
    /\ Well(p, s)
    /\ HelloClean(h, s)
    /\ h.stream /\ c # << >> => Len(c) = 1 /\ Fits(Last(s), Head(c).op)
    /\ open /\ Runs(s) => RunPair(p, s, r)
    /\ open /\ c # << >> => FlightPair(p, s, r, Head(c).op)

Nest == \A p \in Peer : NestOf(p, handle[p], stack[p], chan[p], stack[Other(p)], Open)

-----------------------------------------------------------------------------
(* The changes of the stack keep Well.                                      *)

LEMMA WellReplace ==
    ASSUME NEW p \in Peer, NEW s \in Seq(Activation), s # << >>, Well(p, s),
           NEW a \in Activation,
           a.op = "hello" <=> Last(s).op = "hello",
           a.at = "wait" => a.op \in {"call", "hello"},
           a.op = "ack" => a.at = "write",
           a.op = "hello" => a.at \in {"write", "wait"}
    PROVE  LET t == [s EXCEPT ![Len(s)] = a]
           IN  /\ t \in Seq(Activation) /\ t # << >> /\ Len(t) = Len(s) /\ Last(t) = a
               /\ Well(p, t)
<1> DEFINE t == [s EXCEPT ![Len(s)] = a]
<1>1. /\ t \in Seq(Activation) /\ t # << >> /\ Len(t) = Len(s) /\ t[Len(t)] = a
      /\ \A i \in 1 .. Len(s) - 1 : t[i] = s[i]
  BY StackReplace
<1>2. Len(s) \in Nat \ {0}
  BY StackLast
<1> HIDE DEF t
<1>3. \A i \in 1 .. Len(t) : i \in 1 .. Len(s) - 1 \/ i = Len(s)
  BY <1>1, <1>2
<1>6. Len(s) \in 1 .. Len(s)
  BY <1>2
<1>4. Last(s).op = "hello" <=> (p = Server /\ Len(s) = 1)
  BY <1>6 DEF Well, Last
<1>5. Well(p, t)
  BY <1>1, <1>2, <1>3, <1>4 DEF Well
<1> QED
  BY <1>1, <1>5 DEF Last, t

LEMMA WellPop ==
    ASSUME NEW p \in Peer, NEW s \in Seq(Activation), Len(s) > 1, Well(p, s)
    PROVE  LET t == SubSeq(s, 1, Len(s) - 1)
           IN  /\ t \in Seq(Activation) /\ t # << >> /\ Len(t) = Len(s) - 1
               /\ Last(t).at = "wait" /\ Last(t) = s[Len(s) - 1]
               /\ Well(p, t)
<1> DEFINE t == SubSeq(s, 1, Len(s) - 1)
<1>1. s # << >> /\ Len(s) \in Nat
  OBVIOUS
<1>2. /\ t \in Seq(Activation) /\ Len(t) = Len(s) - 1
      /\ \A i \in 1 .. Len(s) - 1 : t[i] = s[i]
  BY <1>1, StackPop
<1> HIDE DEF t
<1>3. t # << >> /\ Len(t) \in 1 .. Len(s) - 1
  BY <1>1, <1>2
<1>4. Last(t).at = "wait" /\ Last(t) = s[Len(s) - 1]
  BY <1>2, <1>3 DEF Well, Last
<1>5. Well(p, t)
  BY <1>1, <1>2 DEF Well
<1> QED
  BY <1>2, <1>3, <1>4, <1>5 DEF t

LEMMA WellPush ==
    ASSUME NEW p \in Peer, NEW s \in Seq(Activation), s # << >>, Well(p, s),
           Last(s).at = "wait",
           NEW a \in Activation, a.op # "hello", a.at \in {"user", "write"},
           a.op = "ack" => a.at = "write"
    PROVE  LET t == Append(s, a)
           IN  /\ t \in Seq(Activation) /\ t # << >> /\ Len(t) = Len(s) + 1 /\ Last(t) = a
               /\ Well(p, t)
<1> DEFINE t == Append(s, a)
<1>1. /\ t \in Seq(Activation) /\ t # << >> /\ Len(t) = Len(s) + 1
      /\ t[Len(t)] = a
      /\ \A i \in 1 .. Len(s) : t[i] = s[i]
  BY StackPush
<1>2. Len(s) \in Nat \ {0}
  BY StackLast
<1> HIDE DEF t
<1>3. \A i \in 1 .. Len(t) : i \in 1 .. Len(s) \/ i = Len(t)
  BY <1>1, <1>2
<1>4. \A i \in 1 .. Len(t) - 1 : i \in 1 .. Len(s) - 1 \/ i = Len(s)
  BY <1>1, <1>2
<1>5. Well(p, t)
  BY <1>1, <1>2, <1>3, <1>4 DEF Well, Last
<1> QED
  BY <1>1, <1>5 DEF Last, t

LEMMA WellFailure ==
    ASSUME NEW p \in Peer, NEW s \in Seq(Activation), s # << >>, Well(p, s)
    PROVE  /\ AfterFailure(s) \in Seq(Activation)
           /\ Well(p, AfterFailure(s))
           /\ AfterFailure(s) # << >> =>
                 Last(AfterFailure(s)).at = "user" /\ Last(AfterFailure(s)).op = "none"
<1>1. Len(s) \in Nat \ {0} /\ Last(s) \in Activation
  BY StackLast DEF Last
<1>2. CASE Last(s).op = "hello"
  <2>4. Len(s) \in 1 .. Len(s)
    BY <1>1
  <2>5. Len(s) = 1
    BY <1>2, <2>4 DEF Well, Last
  <2>1. Len(s) = 1 /\ Len(s) - 1 = 0
    BY <2>5
  <2>2. AfterFailure(s) = SubSeq(s, 1, 0) /\ SubSeq(s, 1, 0) = << >>
    BY <1>2, <2>1, SubSeqEmpty DEF AfterFailure, Last
  <2> DEFINE e == << >>
  <2>6. Len(e) = 0
    OBVIOUS
  <2> HIDE DEF e
  <2>7. Well(p, e)
    BY <2>6 DEF Well
  <2>3. Well(p, << >>)
    BY <2>7 DEF e
  <2>8. AfterFailure(s) = << >>
    BY <2>2
  <2>9. AfterFailure(s) \in Seq(Activation)
    BY <2>8
  <2> QED
    BY <2>3, <2>8, <2>9
<1>3. CASE Last(s).op # "hello"
  <2> DEFINE b == [s[Len(s)] EXCEPT !.at = "user", !.op = "none", !.wres = {}]
  <2>1. AfterFailure(s) = [s EXCEPT ![Len(s)] = b]
    BY <1>3 DEF AfterFailure, Last
  <2>2. b \in Activation /\ b.at = "user" /\ b.op = "none"
    BY <1>1 DEF Activation, Last
  <2> HIDE DEF b
  <2>3. LET t == [s EXCEPT ![Len(s)] = b]
        IN  t \in Seq(Activation) /\ Last(t) = b /\ Well(p, t)
    BY <1>3, <2>2, WellReplace
  <2> QED
    BY <2>1, <2>2, <2>3
<1> QED
  BY <1>2, <1>3

-----------------------------------------------------------------------------
(* Who has the token.                                                       *)

LEMMA TokenAt ==
    ASSUME IInv, Open, NEW p \in Peer
    PROVE  /\ Runs(stack[p]) => /\ chan[p] = << >> /\ chan[Other(p)] = << >>
                                /\ ~Runs(stack[Other(p)])
           /\ chan[p] # << >> => /\ Len(chan[p]) = 1 /\ chan[Other(p)] = << >>
                                 /\ ~Runs(stack[p]) /\ ~Runs(stack[Other(p)])
<1> DEFINE q == Other(p)
<1>1. q \in Peer /\ q # p /\ Peer = {p, q}
  BY LocalRemote
<1>2. \A r \in Peer : Controls(r) <=> Runs(stack[r])
  BY DEF IInv, NoAbort, Controls, At, Cur, Runs
<1>3. \A r \in Peer : Len(chan[r]) \in Nat /\ (chan[r] # << >> <=> Len(chan[r]) > 0)
  BY DEF IInv, TypeOK
<1>4. Token(Client) + Token(Server) = 1
  BY DEF IInv, FlipFlop
<1> DEFINE x == IF Runs(stack[p]) THEN 1 ELSE 0
           y == IF Runs(stack[q]) THEN 1 ELSE 0
           m == Len(chan[p])
           n == Len(chan[q])
<1>5. Token(p) = x + m /\ Token(q) = y + n
  BY <1>1, <1>2 DEF Token
<1>6. (Token(p) = Token(Client) /\ Token(q) = Token(Server))
      \/ (Token(p) = Token(Server) /\ Token(q) = Token(Client))
  BY DEF Peer, Other
<1>7. m \in Nat /\ n \in Nat /\ x \in {0, 1} /\ y \in {0, 1}
  BY <1>1, <1>3
<1>8. (x + m) + (y + n) = 1
  <2> HIDE DEF x, y, m, n
  <2> QED
    BY <1>4, <1>5, <1>6, <1>7
<1>9. /\ x = 1 => m = 0 /\ n = 0 /\ y = 0
      /\ m > 0 => m = 1 /\ n = 0 /\ x = 0 /\ y = 0
  <2> HIDE DEF x, y, m, n
  <2> QED
    BY <1>7, <1>8
<1> QED
  BY <1>1, <1>3, <1>9

(* What Nest says of side p and of its partner.                             *)
LEMMA NestCurrent ==
    ASSUME IInv, Nest, NEW p \in Peer
    PROVE  /\ Well(p, stack[p]) /\ HelloClean(handle[p], stack[p])
           /\ Well(Other(p), stack[Other(p)])
           /\ handle[p] \in Handle /\ stack[p] \in Seq(Activation)
           /\ stack[Other(p)] \in Seq(Activation)
           /\ Other(p) \in Peer /\ Other(p) # p /\ Other(Other(p)) = p
           /\ Open <=> handle[p].stream /\ handle[Other(p)].stream
           /\ handle[p].stream => stack[p] # << >>
           /\ Cur(p) = Last(stack[p])
           /\ handle[p].stream /\ chan[p] # << >> =>
                Len(chan[p]) = 1 /\ Fits(Last(stack[p]), Head(chan[p]).op)
           /\ Open /\ Runs(stack[p]) => RunPair(p, stack[p], stack[Other(p)])
           /\ Open /\ chan[p] # << >> =>
                FlightPair(p, stack[p], stack[Other(p)], Head(chan[p]).op)
<1>1. Other(p) \in Peer /\ Other(p) # p /\ Other(Other(p)) = p /\ Peer = {p, Other(p)}
  BY LocalRemote
<1>2. handle[p].stream => stack[p] # << >>
  BY DEF IInv, SidesSound, Sound, Discipline
<1>3. Open <=> handle[p].stream /\ handle[Other(p)].stream
  BY <1>1 DEF Open
<1> QED
  BY <1>1, <1>2, <1>3 DEF IInv, TypeOK, Nest, NestOf, Cur, Last

(* A step of p, in terms of the new stack, handle and channels.             *)
LEMMA NestStep ==
    ASSUME IInv, Nest, NEW p \in Peer, NEW h \in Handle, NEW s \in Seq(Activation),
           NEW c \in [Peer -> Seq(Packet)],
           handle' = [handle EXCEPT ![p] = h], stack' = [stack EXCEPT ![p] = s], chan' = c,
           Well(p, s), HelloClean(h, s), h.stream => handle[p].stream,
           h.stream /\ c[p] # << >> => Len(c[p]) = 1 /\ Fits(Last(s), Head(c[p]).op),
           handle[Other(p)].stream /\ c[Other(p)] # << >> =>
             Len(c[Other(p)]) = 1 /\ Fits(Last(stack[Other(p)]), Head(c[Other(p)]).op),
           h.stream /\ handle[Other(p)].stream =>
             /\ Runs(s) => RunPair(p, s, stack[Other(p)])
             /\ Runs(stack[Other(p)]) => RunPair(Other(p), stack[Other(p)], s)
             /\ c[p] # << >> => FlightPair(p, s, stack[Other(p)], Head(c[p]).op)
             /\ c[Other(p)] # << >> =>
                  FlightPair(Other(p), stack[Other(p)], s, Head(c[Other(p)]).op)
    PROVE  Nest'
<1> DEFINE q == Other(p)
<1>1. q \in Peer /\ q # p /\ Other(q) = p /\ Peer = {p, q}
  BY LocalRemote
<1>2. /\ handle'[p] = h /\ handle'[q] = handle[q]
      /\ stack'[p] = s /\ stack'[q] = stack[q]
      /\ chan'[p] = c[p] /\ chan'[q] = c[q]
  BY <1>1 DEF IInv, TypeOK
<1>3. Open' <=> h.stream /\ handle[q].stream
  BY <1>1, <1>2 DEF Open
<1>4. Well(q, stack[q]) /\ HelloClean(handle[q], stack[q])
  BY <1>1, NestCurrent
<1>5. NestOf(p, h, s, c[p], stack[q], Open')
  BY <1>3 DEF NestOf
<1>6. NestOf(q, handle[q], stack[q], c[q], s, Open')
  BY <1>3, <1>4 DEF NestOf
<1>7. \A r \in Peer :
        NestOf(r, handle'[r], stack'[r], chan'[r], stack'[Other(r)], Open')
  BY <1>1, <1>2, <1>5, <1>6
<1> QED
  BY <1>7 DEF Nest

-----------------------------------------------------------------------------
(* The kinds of steps.                                                      *)

(* A side that runs has nothing to read.                                    *)
LEMMA NothingToRead ==
    ASSUME IInv, Nest, NEW p \in Peer, handle[p].stream, Last(stack[p]).at \in {"user", "write"}
    PROVE  chan[p] = << >>
  BY NestCurrent DEF Fits

(* The handle changes, the stack and the channels do not.                   *)
LEMMA NestHandle ==
    ASSUME IInv, Nest, NEW p \in Peer, NEW h \in Handle, SetHandle(p, h),
           UNCHANGED <<stack, chan>>, h.stream => handle[p].stream,
           HelloClean(h, stack[p])
    PROVE  Nest'
<1> DEFINE q == Other(p)
<1>1. q \in Peer /\ Other(q) = p
  BY LocalRemote
<1>2. chan \in [Peer -> Seq(Packet)] /\ stack \in [Peer -> Seq(Activation)]
  BY DEF IInv, TypeOK
<1>3. handle' = [handle EXCEPT ![p] = h] /\ chan' = chan
      /\ stack' = [stack EXCEPT ![p] = stack[p]]
  BY <1>2 DEF SetHandle
<1>4. Well(p, stack[p]) /\ stack[p] \in Seq(Activation)
  BY NestCurrent
<1>5. h.stream /\ chan[p] # << >> => Len(chan[p]) = 1 /\ Fits(Last(stack[p]), Head(chan[p]).op)
  BY NestCurrent
<1>6. handle[q].stream /\ chan[q] # << >> =>
        Len(chan[q]) = 1 /\ Fits(Last(stack[q]), Head(chan[q]).op)
  BY <1>1, NestCurrent
<1>7. ASSUME h.stream /\ handle[q].stream
      PROVE  /\ Runs(stack[p]) => RunPair(p, stack[p], stack[q])
             /\ Runs(stack[q]) => RunPair(q, stack[q], stack[p])
             /\ chan[p] # << >> => FlightPair(p, stack[p], stack[q], Head(chan[p]).op)
             /\ chan[q] # << >> => FlightPair(q, stack[q], stack[p], Head(chan[q]).op)
  <2>1. Open
    BY <1>7, NestCurrent
  <2> QED
    BY <1>1, <2>1, NestCurrent
<1> QED
  BY <1>2, <1>3, <1>4, <1>5, <1>6, <1>7, NestStep

(* How Ahead changes with the length of a stack.                            *)
LEMMA AheadChange ==
    ASSUME NEW p \in Peer, NEW s, NEW t, NEW r, Len(s) \in Nat, Len(r) \in Nat, NEW d \in Int,
           Len(t) = Len(s) + d
    PROVE  /\ Ahead(p, s, r) \in Int
           /\ Ahead(Other(p), r, s) = Ahead(p, s, r)
           /\ Ahead(p, t, r) = Ahead(p, s, r) + (IF p = Server THEN d ELSE -d)
<1> PICK k \in Nat : k = Len(s)
  OBVIOUS
<1> PICK l \in Nat : l = Len(r)
  OBVIOUS
<1>1. CASE p = Client
  <2>1. Other(p) = Server /\ p # Server /\ Other(p) # Client
    BY <1>1 DEF Other, Client, Server
  <2>2. Ahead(p, s, r) = l - k /\ Ahead(Other(p), r, s) = l - k /\ Ahead(p, t, r) = l - (k + d)
    BY <1>1, <2>1 DEF Ahead
  <2> QED
    BY <2>1, <2>2
<1>2. CASE p = Server
  <2>1. Other(p) = Client /\ p # Client
    BY <1>2 DEF Other, Client, Server
  <2>2. Ahead(p, s, r) = k - l /\ Ahead(Other(p), r, s) = k - l /\ Ahead(p, t, r) = k + d - l
    BY <1>2, <2>1 DEF Ahead
  <2> QED
    BY <1>2, <2>2
<1> QED
  BY <1>1, <1>2 DEF Peer

(* The connection is closed by p.                                           *)
LEMMA NestClose ==
    ASSUME IInv, Nest, NEW p \in Peer, NEW h \in Handle, ~h.stream,
           NEW s \in Seq(Activation), NEW c \in [Peer -> Seq(Packet)],
           SetHandle(p, h), SetStack(p, s), chan' = c, c[Other(p)] = chan[Other(p)],
           Well(p, s), HelloClean(h, s)
    PROVE  Nest'
<1> DEFINE q == Other(p)
<1>1. q \in Peer
  BY LocalRemote
<1>2. handle[q].stream /\ chan[q] # << >> =>
        Len(chan[q]) = 1 /\ Fits(Last(stack[q]), Head(chan[q]).op)
  BY <1>1, NestCurrent
<1>3. handle' = [handle EXCEPT ![p] = h] /\ stack' = [stack EXCEPT ![p] = s]
  BY DEF SetHandle, SetStack
<1>4. h.stream = FALSE
  BY DEF Handle
<1> QED
  BY <1>2, <1>3, <1>4, NestStep

(* Application code enters packet_write.                                    *)
LEMMA NestWrite ==
    ASSUME IInv, Nest, NEW p \in Peer, At(p, {"user"}),
           NEW h \in Handle, h.stream => handle[p].stream,
           NEW a \in Activation, a.at = "write", a.op \in {"call", "return", "throw"},
           SetHandle(p, h), SetCur(p, a), chan' = chan
    PROVE  Nest'
<1> DEFINE q == Other(p)
           s == stack[p]
           t == [s EXCEPT ![Len(s)] = a]
<1>1. q \in Peer /\ Other(q) = p /\ q # p
  BY LocalRemote
<1>2. s # << >> /\ Last(s).at = "user" /\ s \in Seq(Activation) /\ Well(p, s)
  BY NestCurrent DEF At
<1>3. Len(s) \in 1 .. Len(s) /\ Len(s) \in Nat
  BY <1>2, StackLast
<1>4. Last(s).op \notin {"hello", "ack"}
  BY <1>2, <1>3 DEF Well, Last
<1>5. chan \in [Peer -> Seq(Packet)]
  BY DEF IInv, TypeOK
<1>6. /\ t \in Seq(Activation) /\ t # << >> /\ Len(t) = Len(s) /\ Last(t) = a
      /\ Well(p, t)
  BY <1>2, <1>4, WellReplace
<1>7. handle' = [handle EXCEPT ![p] = h] /\ stack' = [stack EXCEPT ![p] = t]
  BY DEF SetHandle, SetCur
<1>8. HelloClean(h, t)
  BY <1>6 DEF HelloClean
<1>9. h.stream => chan[p] = << >>
  BY <1>2, NothingToRead
<1>10. handle[q].stream /\ chan[q] # << >> =>
        Len(chan[q]) = 1 /\ Fits(Last(stack[q]), Head(chan[q]).op)
  BY <1>1, NestCurrent
<1>11. Runs(s)
  BY <1>2 DEF Runs, Last
<1>12. ASSUME h.stream /\ handle[q].stream
       PROVE  /\ RunPair(p, t, stack[q])
              /\ chan[p] = << >> /\ chan[q] = << >> /\ ~Runs(stack[q])
  <2>1. Open
    BY <1>12, NestCurrent
  <2>2. RunPair(p, s, stack[q])
    BY <1>11, <2>1, NestCurrent
  <2>3. RunPair(p, t, stack[q])
    BY <1>4, <1>6, <2>2 DEF RunPair, Ahead
  <2> QED
    BY <1>11, <2>1, <2>3, TokenAt
<1> HIDE DEF t
<1> QED
  BY <1>5, <1>6, <1>7, <1>8, <1>9, <1>10, <1>12, NestStep

(* A packet is written to q, as in Send.                                    *)
LEMMA SentTo ==
    ASSUME IInv, NEW p \in Peer, NEW op, NEW refs, [op |-> op, refs |-> refs] \in Packet,
           Send(p, op, refs)
    PROVE  /\ chan' \in [Peer -> Seq(Packet)]
           /\ chan'[p] = chan[p]
           /\ chan[Other(p)] = << >> =>
                /\ chan'[Other(p)] # << >> /\ Len(chan'[Other(p)]) = 1
                /\ Head(chan'[Other(p)]).op = op
<1> DEFINE pkt == [op |-> op, refs |-> refs]
           q == Other(p)
<1>1. chan \in [Peer -> Seq(Packet)] /\ q \in Peer /\ q # p
  BY LocalRemote DEF IInv, TypeOK
<1>2. chan' = [chan EXCEPT ![q] = Append(@, pkt)]
  BY DEF Send
<1>3. chan' \in [Peer -> Seq(Packet)]
  BY <1>2, SteadyIs, SendType
<1>4. chan'[p] = chan[p] /\ chan'[q] = Append(chan[q], pkt)
  BY <1>1, <1>2
<1>5. ASSUME chan[q] = << >>
      PROVE  /\ chan'[q] # << >> /\ Len(chan'[q]) = 1 /\ Head(chan'[q]).op = op
  <2>1. pkt.op = op
    OBVIOUS
  <2> HIDE DEF pkt
  <2>2. chan'[q] = <<pkt>>
    BY <1>4, <1>5
  <2> QED
    BY <2>1, <2>2
<1> QED
  BY <1>3, <1>4, <1>5

(* A packet is written and its answer waited for.                           *)
LEMMA NestSend ==
    ASSUME IInv, Nest, NEW p \in Peer, At(p, {"write"}), handle[p].stream,
           Cur(p).op # "ack",
           NEW h \in Handle, NEW a \in Activation, NEW op, NEW refs,
           [op |-> op, refs |-> refs] \in Packet,
           SetHandle(p, h), SetCur(p, a), Send(p, op, refs),
           a.op = Cur(p).op,
           \/ op = "destroy" /\ a.at = "gc" /\ a.op # "hello"
           \/ op = "request" /\ a.at = "wait" /\ a.op = "call"
           \/ op = "return" /\ a.at = "wait" /\ a.op = "hello"
    PROVE  Nest'
<1> DEFINE q == Other(p)
           s == stack[p]
           r == stack[q]
           t == [s EXCEPT ![Len(s)] = a]
<1>1. q \in Peer /\ Other(q) = p /\ q # p /\ Peer = {p, q}
  BY LocalRemote
<1>2. /\ s # << >> /\ Last(s).at = "write" /\ s \in Seq(Activation) /\ Well(p, s)
      /\ Last(s) = Cur(p)
  BY NestCurrent DEF At
<1>3. Len(s) \in 1 .. Len(s) /\ Len(s) \in Nat
  BY <1>2, StackLast
<1>4. Last(s).op = "hello" <=> p = Server /\ Len(s) = 1
  BY <1>2, <1>3 DEF Well, Last
<1>5. /\ t \in Seq(Activation) /\ t # << >> /\ Len(t) = Len(s) /\ Last(t) = a
      /\ Well(p, t)
  BY <1>2, WellReplace
<1>6. handle' = [handle EXCEPT ![p] = h] /\ stack' = [stack EXCEPT ![p] = t]
  BY DEF SetHandle, SetCur
<1> HIDE DEF t
<1>7. HelloClean(h, t)
  BY <1>5 DEF HelloClean
<1>8. /\ chan' \in [Peer -> Seq(Packet)]
      /\ chan'[p] = chan[p]
      /\ chan[q] = << >> =>
           /\ chan'[q] # << >> /\ Len(chan'[q]) = 1
           /\ Head(chan'[q]).op = op
  BY SentTo
<1>9. chan'[p] = << >>
  BY <1>2, <1>8, NothingToRead
<1>10. Runs(s) /\ ~Runs(t)
  BY <1>2, <1>5 DEF Runs, Last
<1>11. ASSUME handle[q].stream
       PROVE  /\ ~Runs(r) /\ Len(chan'[q]) = 1 /\ Head(chan'[q]).op = op
              /\ Fits(Last(r), op) /\ FlightPair(q, r, t, op)
  <2>1. Open
    BY <1>11, NestCurrent
  <2>2. RunPair(p, s, r) /\ chan[q] = << >> /\ ~Runs(r)
    BY <1>10, <2>1, NestCurrent, TokenAt
  <2>3. Last(r).at = "wait" /\ Well(q, r) /\ r \in Seq(Activation) /\ r # << >>
    BY <1>1, <1>2, <1>11, <2>2, NestCurrent DEF RunPair
  <2>4. Len(r) \in 1 .. Len(r) /\ Len(r) \in Nat
    BY <2>3, StackLast
  <2>5. Last(r).op \in {"call", "hello"} /\ (Last(r).op = "hello" => q = Server)
    BY <2>3, <2>4 DEF Well, Last
  <2>6. Fits(Last(r), op)
    BY <1>1, <1>2, <1>4, <2>3, <2>5 DEF Fits
  <2>7. Ahead(p, s, r) = IF p = Server /\ a.op # "hello" THEN 1 ELSE 0
    BY <1>2, <2>2 DEF RunPair
  <2>8. Ahead(q, r, t) = Ahead(p, s, r)
    <3>1. Len(t) = Len(s) + 0
      BY <1>3, <1>5
    <3>2. Ahead(p, t, r) = Ahead(p, s, r) + (IF p = Server THEN 0 ELSE -0)
          /\ Ahead(p, s, r) \in Int
      BY <1>3, <2>4, <3>1, AheadChange
    <3>3. Ahead(q, r, t) = Ahead(p, t, r)
      BY <1>3, <1>5, <2>4, AheadChange
    <3> QED
      BY <3>2, <3>3
  <2>9. FlightPair(q, r, t, op)
    BY <1>1, <1>2, <1>4, <1>5, <2>7, <2>8 DEF FlightPair, Asks, Peer, Client, Server
  <2> QED
    BY <1>8, <2>2, <2>6, <2>9
<1>12. PICK c \in [Peer -> Seq(Packet)] : c = chan'
  BY <1>8
<1>13. ~Runs(t) /\ c[p] = << >>
  BY <1>9, <1>10, <1>12
<1>14. handle[q].stream =>
         /\ ~Runs(r) /\ Len(c[q]) = 1 /\ Head(c[q]).op = op
         /\ Fits(Last(r), op) /\ FlightPair(q, r, t, op)
  BY <1>11, <1>12
<1>15. handle[q].stream /\ c[q] # << >> => Len(c[q]) = 1 /\ Fits(Last(r), Head(c[q]).op)
  BY <1>14
<1> QED
  BY <1>5, <1>6, <1>7, <1>12, <1>13, <1>14, <1>15, NestStep

(* A reply is written, and its activation ends.                             *)
LEMMA NestReply ==
    ASSUME IInv, Nest, NEW p \in Peer, At(p, {"write"}), handle[p].stream,
           Len(stack[p]) > 1, Cur(p).op \in {"return", "throw", "ack"},
           NEW h \in Handle, NEW op, NEW refs, [op |-> op, refs |-> refs] \in Packet,
           SetHandle(p, h), SetStack(p, Rest(p)), Send(p, op, refs),
           op = IF Cur(p).op = "throw" THEN "throw" ELSE "return"
    PROVE  Nest'
<1> DEFINE q == Other(p)
           s == stack[p]
           r == stack[q]
           t == SubSeq(s, 1, Len(s) - 1)
<1>1. q \in Peer /\ Other(q) = p /\ q # p /\ Peer = {p, q}
  BY LocalRemote
<1>2. /\ s # << >> /\ Last(s).at = "write" /\ s \in Seq(Activation) /\ Well(p, s)
      /\ Last(s) = Cur(p)
  BY NestCurrent DEF At
<1>3. Len(s) \in 1 .. Len(s) /\ Len(s) \in Nat
  BY <1>2, StackLast
<1>4. /\ t \in Seq(Activation) /\ t # << >> /\ Len(t) = Len(s) - 1 /\ Last(t).at = "wait"
      /\ Well(p, t)
  BY <1>2, WellPop
<1>5. handle' = [handle EXCEPT ![p] = h] /\ stack' = [stack EXCEPT ![p] = t]
  BY DEF SetHandle, SetStack, Rest
<1> HIDE DEF t
<1>6. HelloClean(h, t)
  BY <1>4 DEF HelloClean
<1>7. /\ chan' \in [Peer -> Seq(Packet)]
      /\ chan'[p] = chan[p]
      /\ chan[q] = << >> =>
           /\ chan'[q] # << >> /\ Len(chan'[q]) = 1
           /\ Head(chan'[q]).op = op
  BY SentTo
<1>8. chan'[p] = << >>
  BY <1>2, <1>7, NothingToRead
<1>9. Runs(s) /\ ~Runs(t)
  BY <1>2, <1>4 DEF Runs, Last
<1>10. ASSUME handle[q].stream
       PROVE  /\ ~Runs(r) /\ Len(chan'[q]) = 1 /\ Head(chan'[q]).op = op
              /\ Fits(Last(r), op) /\ FlightPair(q, r, t, op)
  <2>1. Open
    BY <1>10, NestCurrent
  <2>2. RunPair(p, s, r) /\ chan[q] = << >> /\ ~Runs(r)
    BY <1>9, <2>1, NestCurrent, TokenAt
  <2>3. Well(q, r) /\ r \in Seq(Activation) /\ r # << >>
    BY <1>1, <1>10, NestCurrent
  <2>4. Len(r) \in 1 .. Len(r) /\ Len(r) \in Nat
    BY <2>3, StackLast
  <2>5. Last(r).at = IF Cur(p).op = "ack" THEN "gc" ELSE "wait"
    BY <1>2, <2>2 DEF RunPair
  <2>6. Ahead(p, s, r) = IF p = Server THEN 1 ELSE 0
    BY <1>2, <2>2 DEF RunPair
  <2>7. Ahead(q, r, t) = IF q = Server THEN 1 ELSE 0
    <3>1. Len(t) = Len(s) + (-1) /\ Len(t) = Len(t) + 0 /\ Len(t) \in Nat /\ -1 \in Int
      BY <1>3, <1>4
    <3>2. Ahead(p, t, r) = Ahead(p, s, r) + (IF p = Server THEN -1 ELSE -(-1))
      BY <1>3, <2>4, <3>1, AheadChange
    <3>3. Ahead(q, r, t) = Ahead(p, t, r)
      BY <2>4, <3>1, AheadChange
    <3>4. p = Server <=> q # Server
      BY <1>1 DEF Peer, Client, Server
    <3> QED
      BY <2>6, <3>2, <3>3, <3>4
  <2>8. FlightPair(q, r, t, op)
    BY <1>1, <1>4, <2>7 DEF FlightPair, Asks, Peer, Client, Server
  <2>9. Fits(Last(r), op)
    <3>1. CASE Cur(p).op = "ack"
      BY <2>5, <3>1 DEF Fits
    <3>2. CASE Cur(p).op # "ack"
      <4>1. Last(r).op \in {"call", "hello"}
        BY <2>3, <2>4, <2>5, <3>2 DEF Well, Last
      <4>2. Last(r).op = "hello" => q = Server /\ Len(r) = 1
        BY <2>3, <2>4 DEF Well, Last
      (* The first activation of the server made no call to be answered.      *)
      <4>3. ~(q = Server /\ Len(r) = 1)
        <5> SUFFICES ASSUME q = Server, Len(r) = 1
                     PROVE  FALSE
          OBVIOUS
        <5>1. p = Client /\ p # Server
          BY <1>1 DEF Peer, Client, Server
        <5>2. Len(r) - Len(s) = 0
          BY <2>6, <5>1 DEF Ahead
        <5>3. PICK k \in Nat : k = Len(s) /\ k > 1
          BY <1>3
        <5>4. 1 - k = 0
          BY <5>2, <5>3
        <5>5. \A n \in Nat : n > 1 => 1 - n # 0
          OBVIOUS
        <5> QED
          BY <5>3, <5>4, <5>5
      <4> QED
        BY <2>5, <3>2, <4>1, <4>2, <4>3 DEF Fits
    <3> QED
      BY <3>1, <3>2
  <2> QED
    BY <1>7, <2>2, <2>8, <2>9
<1>11. PICK c \in [Peer -> Seq(Packet)] : c = chan'
  BY <1>7
<1>12. ~Runs(t) /\ c[p] = << >>
  BY <1>8, <1>9, <1>11
<1>13. handle[q].stream =>
         /\ ~Runs(r) /\ Len(c[q]) = 1 /\ Head(c[q]).op = op
         /\ Fits(Last(r), op) /\ FlightPair(q, r, t, op)
  BY <1>10, <1>11
<1>14. handle[q].stream /\ c[q] # << >> => Len(c[q]) = 1 /\ Fits(Last(r), Head(c[q]).op)
  BY <1>13
<1> QED
  BY <1>4, <1>5, <1>6, <1>11, <1>12, <1>13, <1>14, NestStep

(* The packet is taken off the channel; nothing else is on its way.         *)
LEMMA TakenOff ==
    ASSUME IInv, Nest, NEW p \in Peer, NEW ops, Read(p, ops)
    PROVE  /\ chan' \in [Peer -> Seq(Packet)]
           /\ chan'[p] = << >> /\ chan'[Other(p)] = chan[Other(p)]
           /\ stack[p] # << >> /\ stack[p] \in Seq(Activation) /\ Well(p, stack[p])
           /\ handle[p].stream /\ ~Runs(stack[p])
           /\ Incoming(p).op \in ops /\ Fits(Last(stack[p]), Incoming(p).op)
           /\ Open => /\ chan'[Other(p)] = << >> /\ ~Runs(stack[Other(p)])
                      /\ FlightPair(p, stack[p], stack[Other(p)], Incoming(p).op)
<1>1. /\ stack[p] # << >> /\ Cur(p).at \in {"wait", "gc"} /\ handle[p].stream
      /\ chan[p] # << >> /\ chan' = [chan EXCEPT ![p] = Tail(@)]
  BY ReadEffect
<1>2. Other(p) \in Peer /\ Other(p) # p
  BY LocalRemote
<1>3. chan \in [Peer -> Seq(Packet)]
  BY DEF IInv, TypeOK
<1>4. Len(chan[p]) = 1
  BY <1>1, NestCurrent
<1>5. Tail(chan[p]) = << >>
  <2> PICK c \in Seq(Packet) : c = chan[p]
    BY <1>3
  <2>1. c # << >> /\ Len(c) = 1
    BY <1>1, <1>4
  <2>2. Tail(c) \in Seq(Packet) /\ Len(Tail(c)) = Len(c) - 1
    BY <2>1
  <2>3. Len(Tail(c)) = 0
    BY <2>1, <2>2
  <2> QED
    BY <2>2, <2>3, EmptySeq
<1>6. chan'[p] = << >> /\ chan'[Other(p)] = chan[Other(p)]
  BY <1>1, <1>2, <1>3, <1>5
<1>7. chan' \in [Peer -> Seq(Packet)]
  BY <1>1, SteadyIs, ReadType
<1>8. ~Runs(stack[p])
  BY <1>1 DEF Runs, Cur
<1>9. Incoming(p).op \in ops
  BY DEF Read, Arrived
<1>10. Fits(Last(stack[p]), Incoming(p).op)
  BY <1>1, NestCurrent DEF Incoming
<1>11. Open => /\ chan[Other(p)] = << >> /\ ~Runs(stack[Other(p)])
               /\ FlightPair(p, stack[p], stack[Other(p)], Incoming(p).op)
  BY <1>1, NestCurrent, TokenAt DEF Incoming
<1>12. stack[p] \in Seq(Activation) /\ Well(p, stack[p])
  BY NestCurrent
<1> QED
  BY <1>1, <1>6, <1>7, <1>8, <1>9, <1>10, <1>11, <1>12

(* A request is read and executed.                                          *)
LEMMA NestPush ==
    ASSUME IInv, Nest, NEW p \in Peer, NEW ops, Read(p, ops),
           NEW h \in Handle, h.stream => handle[p].stream, NEW a \in Activation,
           \/ Incoming(p).op = "request" /\ a.at = "user" /\ a.op = "none"
           \/ Incoming(p).op = "destroy" /\ a.at = "write" /\ a.op = "ack",
           SetHandle(p, h), SetStack(p, Append(stack[p], a))
    PROVE  Nest'
<1> DEFINE q == Other(p)
           s == stack[p]
           r == stack[q]
           t == Append(s, a)
           op == Incoming(p).op
<1>1. q \in Peer /\ Other(q) = p /\ q # p /\ Peer = {p, q}
  BY LocalRemote
<1>2. /\ chan' \in [Peer -> Seq(Packet)]
      /\ chan'[p] = << >> /\ chan'[q] = chan[q]
      /\ s # << >> /\ s \in Seq(Activation) /\ Well(p, s)
      /\ handle[p].stream /\ ~Runs(s)
      /\ Fits(Last(s), op)
      /\ Open => chan'[q] = << >> /\ ~Runs(r) /\ FlightPair(p, s, r, op)
  BY TakenOff
<1>3. Last(s).at = "wait" /\ Len(s) \in Nat
  BY <1>2 DEF Fits
<1>4. /\ t \in Seq(Activation) /\ t # << >> /\ Len(t) = Len(s) + 1 /\ Last(t) = a
      /\ Well(p, t)
  BY <1>2, <1>3, WellPush
<1>5. handle' = [handle EXCEPT ![p] = h] /\ stack' = [stack EXCEPT ![p] = t]
  BY DEF SetHandle, SetStack
<1> HIDE DEF t
<1>6. HelloClean(h, t)
  BY <1>4 DEF HelloClean
<1>7. handle[q].stream /\ chan[q] # << >> =>
        Len(chan[q]) = 1 /\ Fits(Last(r), Head(chan[q]).op)
  BY <1>1, NestCurrent
<1>8. ASSUME handle[q].stream
      PROVE  /\ chan'[q] = << >> /\ ~Runs(r) /\ RunPair(p, t, r)
  <2>1. Open
    BY <1>2, <1>8, NestCurrent
  <2>2. chan'[q] = << >> /\ ~Runs(r) /\ FlightPair(p, s, r, op)
    BY <1>2, <2>1
  <2>3. Last(r).at = IF a.op = "ack" THEN "gc" ELSE "wait"
    BY <2>2 DEF FlightPair
  <2>4. Ahead(p, s, r) = IF p = Client THEN 1 ELSE 0
    BY <2>2 DEF FlightPair, Asks
  <2>5. Len(r) \in Nat
    BY <1>1, NestCurrent
  <2>6. Ahead(p, t, r) = IF p = Server THEN 1 ELSE 0
    <3>1. Ahead(p, t, r) = Ahead(p, s, r) + (IF p = Server THEN 1 ELSE -1)
      BY <1>3, <1>4, <2>5, AheadChange
    <3>2. p = Client <=> p # Server
      BY DEF Peer, Client, Server
    <3> QED
      BY <2>4, <3>1, <3>2
  <2> QED
    BY <1>4, <2>2, <2>3, <2>6 DEF RunPair
<1>9. PICK c \in [Peer -> Seq(Packet)] : c = chan'
  BY <1>2
<1>10. c[p] = << >> /\ c[q] = chan[q]
  BY <1>2, <1>9
<1>11. handle[q].stream => c[q] = << >> /\ ~Runs(r) /\ RunPair(p, t, r)
  BY <1>8, <1>9
<1> QED
  BY <1>2, <1>4, <1>5, <1>6, <1>7, <1>9, <1>10, <1>11, NestStep

(* An answer is read, and the activation that waited for it goes on.        *)
LEMMA NestResume ==
    ASSUME IInv, Nest, NEW p \in Peer, NEW ops, Read(p, ops),
           Incoming(p).op \in {"return", "throw"},
           NEW h \in Handle, h.stream => handle[p].stream, NEW a \in Activation,
           \/ Cur(p).at = "wait" /\ Cur(p).op = "call" /\ a.at = "user" /\ a.op = "none"
           \/ Cur(p).at = "gc" /\ a.at = "write" /\ a.op = Cur(p).op,
           SetHandle(p, h), SetCur(p, a)
    PROVE  Nest'
<1> DEFINE q == Other(p)
           s == stack[p]
           r == stack[q]
           t == [s EXCEPT ![Len(s)] = a]
           op == Incoming(p).op
<1>1. q \in Peer /\ Other(q) = p /\ q # p /\ Peer = {p, q}
  BY LocalRemote
<1>2. /\ chan' \in [Peer -> Seq(Packet)]
      /\ chan'[p] = << >> /\ chan'[q] = chan[q]
      /\ s # << >> /\ s \in Seq(Activation) /\ Well(p, s)
      /\ handle[p].stream /\ ~Runs(s)
      /\ Open => chan'[q] = << >> /\ ~Runs(r) /\ FlightPair(p, s, r, op)
  BY TakenOff
<1>3. Len(s) \in 1 .. Len(s) /\ Len(s) \in Nat /\ Cur(p) = Last(s)
  BY <1>2, StackLast DEF Cur, Last
<1>4. Last(s).op # "hello" /\ (Last(s).at = "gc" => Last(s).op # "ack")
  BY <1>2, <1>3 DEF Well, Last
<1>5. /\ t \in Seq(Activation) /\ t # << >> /\ Len(t) = Len(s) /\ Last(t) = a
      /\ Well(p, t)
  BY <1>2, <1>3, <1>4, WellReplace
<1>6. handle' = [handle EXCEPT ![p] = h] /\ stack' = [stack EXCEPT ![p] = t]
  BY DEF SetHandle, SetCur
<1> HIDE DEF t
<1>7. a.op \notin {"hello", "ack"}
  BY <1>3, <1>4
<1>8. HelloClean(h, t)
  BY <1>5, <1>7 DEF HelloClean
<1>9. handle[q].stream /\ chan[q] # << >> =>
        Len(chan[q]) = 1 /\ Fits(Last(r), Head(chan[q]).op)
  BY <1>1, NestCurrent
<1>10. ASSUME handle[q].stream
       PROVE  /\ chan'[q] = << >> /\ ~Runs(r) /\ RunPair(p, t, r)
  <2>1. Open
    BY <1>2, <1>10, NestCurrent
  <2>2. chan'[q] = << >> /\ ~Runs(r) /\ FlightPair(p, s, r, op)
    BY <1>2, <2>1
  <2>3. Last(r).at = "wait"
    BY <2>2 DEF FlightPair
  <2>4. Ahead(p, s, r) = IF p = Server THEN 1 ELSE 0
    BY <1>1, <2>2 DEF FlightPair, Asks, Peer, Client, Server
  <2>5. Ahead(p, t, r) = IF p = Server THEN 1 ELSE 0
    BY <1>5, <2>4 DEF Ahead
  <2> QED
    BY <1>5, <1>7, <2>2, <2>3, <2>5 DEF RunPair
<1>11. PICK c \in [Peer -> Seq(Packet)] : c = chan'
  BY <1>2
<1>12. c[p] = << >> /\ c[q] = chan[q]
  BY <1>2, <1>11
<1>13. handle[q].stream => c[q] = << >> /\ ~Runs(r) /\ RunPair(p, t, r)
  BY <1>10, <1>11
<1> QED
  BY <1>2, <1>5, <1>6, <1>8, <1>9, <1>11, <1>12, <1>13, NestStep

-----------------------------------------------------------------------------
(* The actions.                                                             *)

LEMMA NestInvoke ==
    ASSUME IInv, Nest, NEW p \in Peer, Invoke(p)
    PROVE  Nest'
<1>1. stack[p] # << >> /\ Cur(p).at = "user" /\ At(p, {"user"}) /\ chan' = chan
  BY DEF Invoke, At
<1>2. PICK target \in Accessible(p), args \in SUBSET (Accessible(p) \cup Local(p)) :
        LET wres == {target} \cup args
        IN  /\ SetHandle(p, AddRef(handle[p], wres \cap Remote(p)))
            /\ SetCur(p, [Cur(p) EXCEPT !.at = "write", !.op = "call", !.wres = wres])
  BY DEF Invoke
<1> DEFINE wres == {target} \cup args
           h == AddRef(handle[p], wres \cap Remote(p))
           a == [Cur(p) EXCEPT !.at = "write", !.op = "call", !.wres = wres]
<1>3. wres \in SUBSET Objects
  BY AccessibleType, LocalRemote
<1>4. h \in Handle /\ h.stream = handle[p].stream
  BY <1>1, Current, AddRefType
<1>5. SetHandle(p, h) /\ SetCur(p, a)
  BY <1>2
<1> HIDE DEF h, wres
<1>6. a \in Activation /\ a.at = "write" /\ a.op = "call"
  BY <1>1, <1>3, Current DEF Activation
<1> HIDE DEF a
<1> QED
  BY <1>1, <1>4, <1>5, <1>6, NestWrite

LEMMA NestAnswer ==
    ASSUME IInv, Nest, NEW p \in Peer, Answer(p)
    PROVE  Nest'
<1>1. stack[p] # << >> /\ Cur(p).at = "user" /\ At(p, {"user"}) /\ chan' = chan
  BY DEF Answer, At
<1>2. PICK op \in {"return", "throw"}, refs \in SUBSET (Accessible(p) \cup Local(p)) :
        /\ SetHandle(p, AddRef(handle[p], refs \cap Remote(p)))
        /\ SetCur(p, [Cur(p) EXCEPT !.at = "write", !.op = op, !.wres = refs])
  BY DEF Answer
<1> DEFINE h == AddRef(handle[p], refs \cap Remote(p))
           a == [Cur(p) EXCEPT !.at = "write", !.op = op, !.wres = refs]
<1>3. refs \in SUBSET Objects
  BY AccessibleType, LocalRemote
<1>4. h \in Handle /\ h.stream = handle[p].stream
  BY <1>1, Current, AddRefType
<1>5. SetHandle(p, h) /\ SetCur(p, a)
  BY <1>2
<1> HIDE DEF h
<1>6. a \in Activation /\ a.at = "write" /\ a.op \in {"return", "throw"}
  BY <1>1, <1>3, Current DEF Activation
<1> HIDE DEF a
<1> QED
  BY <1>1, <1>4, <1>5, <1>6, NestWrite

LEMMA NestKeep ==
    ASSUME IInv, Nest, NEW p \in Peer, Keep(p)
    PROVE  Nest'
<1>1. PICK o \in Accessible(p) : SetHandle(p, AddRef(handle[p], {o}))
  BY DEF Keep
<1> DEFINE h == AddRef(handle[p], {o})
<1>2. handle[p] \in Handle
  BY DEF IInv, TypeOK
<1>3. h \in Handle /\ h.stream = handle[p].stream
  BY <1>2, AddRefType
<1>4. HelloClean(h, stack[p])
  BY DEF Keep, At, HelloClean, Cur, Last
<1> HIDE DEF h
<1> QED
  BY <1>1, <1>3, <1>4, NestHandle DEF Keep, h

LEMMA NestDrop ==
    ASSUME IInv, Nest, NEW p \in Peer, Drop(p)
    PROVE  Nest'
<1>1. PICK o \in Remote(p) : SetHandle(p, Release(handle[p], {o}))
  BY DEF Drop
<1> DEFINE h == Release(handle[p], {o})
<1>2. handle[p] \in Handle
  BY DEF IInv, TypeOK
<1>3. h \in Handle /\ (h.stream => handle[p].stream)
  BY <1>2, LocalRemote, ReleaseType
<1>4. HelloClean(h, stack[p])
  BY DEF Drop, At, HelloClean, Cur, Last
<1> HIDE DEF h
<1> QED
  BY <1>1, <1>3, <1>4, NestHandle DEF Drop, h

LEMMA NestGcSkip ==
    ASSUME IInv, Nest, NEW p \in Peer, GcSkip(p)
    PROVE  Nest'
<1>1. PICK o : SetHandle(p, [handle[p] EXCEPT !.destr_cand = @ \ {o}])
  BY DEF GcSkip
<1> DEFINE h == [handle[p] EXCEPT !.destr_cand = @ \ {o}]
<1>2. handle[p] \in Handle /\ HelloClean(handle[p], stack[p])
  BY NestCurrent DEF IInv, TypeOK
<1>3. h \in Handle /\ h.stream = handle[p].stream /\ h.destr_cand = handle[p].destr_cand \ {o}
  BY <1>2 DEF Handle
<1>4. HelloClean(h, stack[p])
  BY <1>2, <1>3 DEF HelloClean
<1> HIDE DEF h
<1> QED
  BY <1>1, <1>3, <1>4, NestHandle DEF GcSkip, h

LEMMA NestGcDestroy ==
    ASSUME IInv, Nest, NEW p \in Peer, GcDestroy(p)
    PROVE  Nest'
<1>1. /\ stack[p] # << >> /\ Cur(p).at = "write" /\ At(p, {"write"}) /\ handle[p].stream
      /\ Cur(p).op # "ack"
  BY DEF GcDestroy, At
<1>2. PICK o \in handle[p].destr_cand :
        /\ SetHandle(p, [handle[p] EXCEPT !.destr_cand = @ \ {o}, !.last_op = 2])
        /\ Send(p, "destroy", {o})
        /\ SetCur(p, [Cur(p) EXCEPT !.at = "gc", !.victim = {o}])
  BY DEF GcDestroy
<1> DEFINE h == [handle[p] EXCEPT !.destr_cand = @ \ {o}, !.last_op = 2]
           a == [Cur(p) EXCEPT !.at = "gc", !.victim = {o}]
<1>3. o \in Objects
  BY <1>1, Current DEF Handle
<1>4. h \in Handle
  BY <1>1, Current DEF Handle
<1>5. a \in Activation /\ a.at = "gc" /\ a.op = Cur(p).op
  BY <1>1, <1>3, Current DEF Activation
<1>6. [op |-> "destroy", refs |-> {o}] \in Packet
  BY <1>3 DEF Packet
<1>7. Cur(p).op # "hello"
  BY <1>1, <1>2, NestCurrent DEF HelloClean
<1>8. SetHandle(p, h) /\ SetCur(p, a) /\ Send(p, "destroy", {o})
  BY <1>2
<1> HIDE DEF h, a
<1> QED
  BY <1>1, <1>4, <1>5, <1>6, <1>7, <1>8, NestSend

LEMMA NestWriteCall ==
    ASSUME IInv, Nest, NEW p \in Peer, WriteCall(p)
    PROVE  Nest'
<1> DEFINE g == Serialize(p, handle[p], Cur(p).wres)
           h == [g EXCEPT !.last_op = 2]
           a == [Cur(p) EXCEPT !.at = "wait"]
           op == IF Cur(p).op = "hello" THEN "return" ELSE "request"
<1>1. /\ stack[p] # << >> /\ At(p, {"write"}) /\ handle[p].stream
      /\ Cur(p).op \in {"call", "hello"}
  BY DEF WriteCall, At
<1>2. g \in Handle
  BY <1>1, Current, SerializeType
<1>3. SetHandle(p, h) /\ SetCur(p, a) /\ Send(p, op, Cur(p).wres)
  BY DEF WriteCall
<1>4. [op |-> op, refs |-> Cur(p).wres] \in Packet
  BY <1>1, Current DEF Packet, Activation
<1>5. a \in Activation /\ a.at = "wait" /\ a.op = Cur(p).op
  BY <1>1, Current DEF Activation
<1> HIDE DEF g
<1>6. h \in Handle
  BY <1>2 DEF Handle
<1> HIDE DEF h, a
<1>7. \/ op = "request" /\ a.op = "call"
      \/ op = "return" /\ a.op = "hello"
  <2>1. CASE Cur(p).op = "call"
    BY <1>5, <2>1
  <2>2. CASE Cur(p).op = "hello"
    BY <1>5, <2>2
  <2> QED
    BY <1>1, <2>1, <2>2
<1> HIDE DEF op
<1> QED
  BY <1>1, <1>3, <1>4, <1>5, <1>6, <1>7, NestSend

LEMMA NestWriteReply ==
    ASSUME IInv, Nest, NEW p \in Peer, WriteReply(p)
    PROVE  Nest'
<1> DEFINE wres == Cur(p).wres
           g == Serialize(p, handle[p], wres)
           h0 == [g EXCEPT !.last_op = 2]
           h == Release(Release(h0, wres \cap Remote(p)), Cur(p).rpkt \cap Remote(p))
           op == IF Cur(p).op = "throw" THEN "throw" ELSE "return"
<1>1. /\ stack[p] # << >> /\ At(p, {"write"}) /\ Cur(p).at = "write" /\ handle[p].stream
      /\ Cur(p).op \in {"return", "throw", "ack"}
  BY DEF WriteReply, At
<1>2. handle[p] \in Handle /\ Len(stack[p]) > 1 /\ wres \in SUBSET Objects
  BY <1>1, Current DEF Activation
<1>3. g \in Handle
  BY <1>2, SerializeType
<1>4. SetHandle(p, h) /\ SetStack(p, Rest(p)) /\ Send(p, op, wres)
  BY DEF WriteReply
<1>5. [op |-> op, refs |-> wres] \in Packet
  BY <1>2 DEF Packet
<1>6. op = IF Cur(p).op = "throw" THEN "throw" ELSE "return"
  OBVIOUS
<1> HIDE DEF g
<1>7. h0 \in Handle
  BY <1>3 DEF Handle
<1> HIDE DEF h0
<1>8. h \in Handle
  BY <1>7, ReleaseTwice
<1> HIDE DEF h, op, wres
<1> QED
  BY <1>1, <1>2, <1>4, <1>5, <1>6, <1>8, NestReply

(* The failure of the call under stack s ends the connection.               *)
LEMMA NestFailure ==
    ASSUME IInv, Nest, NEW p \in Peer, NEW h \in Handle, ~h.stream,
           NEW s \in Seq(Activation), s # << >>, Well(p, s),
           NEW c \in [Peer -> Seq(Packet)],
           SetHandle(p, h), SetStack(p, AfterFailure(s)), chan' = c,
           c[Other(p)] = chan[Other(p)]
    PROVE  Nest'
<1> DEFINE t == AfterFailure(s)
<1>1. /\ t \in Seq(Activation) /\ Well(p, t)
      /\ t # << >> => Last(t).at = "user" /\ Last(t).op = "none"
  BY WellFailure
<1> HIDE DEF t
<1>2. HelloClean(h, t)
  BY <1>1 DEF HelloClean
<1> QED
  BY <1>1, <1>2, NestClose DEF t

LEMMA NestWriteFails ==
    ASSUME IInv, Nest, NEW p \in Peer, WriteFails(p)
    PROVE  Nest'
<1> DEFINE closed == CloseConnection(handle[p])
           h == Release(closed, Cur(p).wres \cap Remote(p))
           below == Rest(p)[Len(Rest(p))]
           k == Release(Release(h, Cur(p).rpkt \cap Remote(p)),
                        below.wres \cap Remote(p))
<1>1. stack[p] # << >> /\ Cur(p).at = "write"
  BY DEF WriteFails, At
<1>2. handle[p] \in Handle /\ stack[p] \in Seq(Activation) /\ Well(p, stack[p])
  BY <1>1, NestCurrent
<1>3. closed \in Handle /\ ~closed.stream
  BY <1>2, CloseConnectionType
<1>4. Cur(p).wres \cap Remote(p) \in SUBSET Objects
  BY LocalRemote
<1>5. chan' = chan /\ chan \in [Peer -> Seq(Packet)]
  BY DEF WriteFails, IInv, TypeOK
<1>6. IF Cur(p).op \in {"call", "hello"}
      THEN SetHandle(p, h) /\ SetStack(p, AfterFailure(stack[p]))
      ELSE SetHandle(p, k) /\ SetStack(p, AfterFailure(Rest(p)))
  BY DEF WriteFails
<1> HIDE DEF closed
<1>7. h \in Handle /\ ~h.stream
  BY <1>3, <1>4, ReleaseType
<1> HIDE DEF h, below
<1>8. k \in Handle /\ ~k.stream
  BY <1>7, ReleaseTwice
<1> HIDE DEF k
<1>9. CASE Cur(p).op \in {"call", "hello"}
  BY <1>1, <1>2, <1>5, <1>6, <1>7, <1>9, NestFailure
<1>10. CASE Cur(p).op \notin {"call", "hello"}
  <2>1. Len(stack[p]) > 1
    BY <1>1, <1>10, Current
  <2>2. Rest(p) \in Seq(Activation) /\ Rest(p) # << >> /\ Well(p, Rest(p))
    BY <1>2, <2>1, WellPop DEF Rest
  <2> QED
    BY <1>5, <1>6, <1>8, <1>10, <2>2, NestFailure
<1> QED
  BY <1>9, <1>10

LEMMA NestLoopThrows ==
    ASSUME IInv, Nest, NEW p \in Peer, At(p, {"wait", "gc"}),
           LoopThrows(p, handle[p]),
           NEW c \in [Peer -> Seq(Packet)], chan' = c, c[Other(p)] = chan[Other(p)]
    PROVE  Nest'
<1> DEFINE g == [handle[p] EXCEPT !.last_op = 1]
           closed == CloseConnection(g)
           h == Delete(closed, Cur(p).victim)
           k == Release(closed, Cur(p).wres \cap Remote(p))
           a == [Cur(p) EXCEPT !.at = "write", !.victim = {}]
           t == [stack[p] EXCEPT ![Len(stack[p])] = a]
<1>1. stack[p] # << >> /\ Cur(p).at \in {"wait", "gc"}
  BY DEF At
<1>2. /\ handle[p] \in Handle /\ stack[p] \in Seq(Activation) /\ Well(p, stack[p])
      /\ Cur(p) \in Activation /\ Cur(p) = Last(stack[p])
  BY <1>1, Current, NestCurrent
<1>3. g \in Handle
  BY <1>2 DEF Handle
<1>4. IF Cur(p).at = "gc"
      THEN SetHandle(p, h) /\ SetCur(p, a)
      ELSE SetHandle(p, k) /\ SetStack(p, AfterFailure(stack[p]))
  BY DEF LoopThrows
<1> HIDE DEF g
<1>5. closed \in Handle /\ ~closed.stream
  BY <1>3, CloseConnectionType
<1>6. Cur(p).wres \cap Remote(p) \in SUBSET Objects
  BY LocalRemote
<1> HIDE DEF closed
<1>7. h \in Handle /\ ~h.stream
  BY <1>5, DeleteType
<1>8. k \in Handle /\ ~k.stream
  BY <1>5, <1>6, ReleaseType
<1> HIDE DEF h, k
<1>9. CASE Cur(p).at = "gc"
  <2>1. a \in Activation /\ a.at = "write" /\ a.op = Cur(p).op
    BY <1>2 DEF Activation
  <2>2. SetHandle(p, h) /\ SetStack(p, t)
    BY <1>4, <1>9 DEF SetCur, SetStack
  <2>3. Len(stack[p]) \in 1 .. Len(stack[p])
    BY <1>1, <1>2, StackLast
  <2>4. Cur(p).op # "hello"
    BY <1>2, <1>9, <2>3 DEF Well, Last
  <2> HIDE DEF a
  <2>5. t \in Seq(Activation) /\ Well(p, t) /\ Last(t) = a
    BY <1>1, <1>2, <2>1, <2>4, WellReplace
  <2> HIDE DEF t
  <2>6. HelloClean(h, t)
    BY <2>1, <2>4, <2>5 DEF HelloClean
  <2> QED
    BY <1>7, <2>2, <2>5, <2>6, NestClose
<1>10. CASE Cur(p).at # "gc"
  BY <1>1, <1>2, <1>4, <1>8, <1>10, NestFailure
<1> QED
  BY <1>9, <1>10

LEMMA NestReadFails ==
    ASSUME IInv, Nest, NEW p \in Peer, ReadFails(p)
    PROVE  Nest'
<1>1. At(p, {"wait", "gc"}) /\ LoopThrows(p, handle[p]) /\ chan' = chan
  BY DEF ReadFails
<1>2. chan \in [Peer -> Seq(Packet)]
  BY DEF IInv, TypeOK
<1> QED
  BY <1>1, <1>2, NestLoopThrows

LEMMA NestReadThrows ==
    ASSUME IInv, Nest, NEW p \in Peer, NEW ops, Read(p, ops), LoopThrows(p, handle[p])
    PROVE  Nest'
<1>1. At(p, {"wait", "gc"})
  BY ReadEffect
<1>2. chan' \in [Peer -> Seq(Packet)] /\ chan'[Other(p)] = chan[Other(p)]
  BY TakenOff
<1>3. PICK c \in [Peer -> Seq(Packet)] : c = chan'
  BY <1>2
<1>4. c[Other(p)] = chan[Other(p)]
  BY <1>2, <1>3
<1> QED
  BY <1>1, <1>3, <1>4, NestLoopThrows

LEMMA NestReadRequest ==
    ASSUME IInv, Nest, NEW p \in Peer, ReadRequest(p)
    PROVE  Nest'
<1> DEFINE refs == Incoming(p).refs
           g == [handle[p] EXCEPT !.last_op = 1]
           h == Deserialize(p, g, refs)
           a == [Idle EXCEPT !.rpkt = refs]
<1>1. Read(p, {"request"}) /\ Incoming(p).op = "request"
  BY DEF ReadRequest, Read, Arrived
<1>2. handle[p] \in Handle
  BY DEF IInv, TypeOK
<1>3. g \in Handle /\ g.stream = handle[p].stream
  BY <1>2 DEF Handle
<1>4. refs \in SUBSET Objects
  BY <1>1, IncomingType
<1>5. a \in Activation /\ a.op = "none" /\ a.at = "user"
  BY <1>4 DEF Idle, Activation
<1>6. IF Known(p, handle[p], refs)
      THEN SetHandle(p, h) /\ SetStack(p, Append(stack[p], a))
      ELSE LoopThrows(p, handle[p])
  BY DEF ReadRequest
<1> HIDE DEF g, refs
<1>7. h \in Handle /\ h.stream = handle[p].stream
  BY <1>3, DeserializeType
<1> HIDE DEF h, a
<1>8. CASE Known(p, handle[p], refs)
  BY <1>1, <1>5, <1>6, <1>7, <1>8, NestPush
<1>9. CASE ~Known(p, handle[p], refs)
  BY <1>1, <1>6, <1>9, NestReadThrows
<1> QED
  BY <1>8, <1>9

LEMMA NestReadDestroy ==
    ASSUME IInv, Nest, NEW p \in Peer, ReadDestroy(p)
    PROVE  Nest'
<1> DEFINE refs == Incoming(p).refs
           h == [handle[p] EXCEPT !.last_op = 1, !.localobjmap = @ \ refs]
           a == [Idle EXCEPT !.at = "write", !.op = "ack", !.rpkt = refs]
<1>1. Read(p, {"destroy"}) /\ Incoming(p).op = "destroy"
  BY DEF ReadDestroy, Read, Arrived
<1>2. handle[p] \in Handle
  BY DEF IInv, TypeOK
<1>3. h \in Handle /\ h.stream = handle[p].stream
  BY <1>2 DEF Handle
<1>4. refs \in SUBSET Objects
  BY <1>1, IncomingType
<1>5. a \in Activation /\ a.op = "ack" /\ a.at = "write"
  BY <1>4 DEF Idle, Activation
<1>6. IF Known(p, handle[p], refs)
      THEN SetHandle(p, h) /\ SetStack(p, Append(stack[p], a))
      ELSE LoopThrows(p, handle[p])
  BY DEF ReadDestroy
<1> HIDE DEF refs, h, a
<1>7. CASE Known(p, handle[p], refs)
  BY <1>1, <1>3, <1>5, <1>6, <1>7, NestPush
<1>8. CASE ~Known(p, handle[p], refs)
  BY <1>1, <1>6, <1>8, NestReadThrows
<1> QED
  BY <1>7, <1>8

LEMMA NestReadReply ==
    ASSUME IInv, Nest, NEW p \in Peer, ReadReply(p)
    PROVE  Nest'
<1> DEFINE refs == Incoming(p).refs
           proxies == refs \cap Remote(p)
           g == [handle[p] EXCEPT !.last_op = 1]
           d == Deserialize(p, g, refs)
           wres == Cur(p).wres
           a == Resumed(p)
<1>1. Read(p, {"return", "throw"}) /\ Incoming(p).op \in {"return", "throw"} /\ Cur(p).at = "wait"
  BY DEF ReadReply, Read, Arrived
<1>2. stack[p] # << >>
  BY <1>1, ReadEffect
<1>3. handle[p] \in Handle
  BY DEF IInv, TypeOK
<1>4. g \in Handle /\ g.stream = handle[p].stream
  BY <1>3 DEF Handle
<1>5. CASE Known(p, handle[p], refs) /\ Cur(p).op = "call"
  <2>1. PICK kept : /\ SetHandle(p, Release(Release(d, proxies \ kept),
                                             wres \cap Remote(p)))
                    /\ SetCur(p, a)
    BY <1>5 DEF ReadReply
  <2> DEFINE k == Release(d, proxies \ kept)
             h == Release(k, wres \cap Remote(p))
  <2>2. proxies \ kept \in SUBSET Objects /\ wres \cap Remote(p) \in SUBSET Objects
    BY LocalRemote
  <2>3. a \in Activation /\ a.at = "user" /\ a.op = "none"
    BY <1>2, Current DEF Resumed, Activation
  <2>4. SetHandle(p, h) /\ SetCur(p, a)
    BY <2>1
  <2> HIDE DEF g, refs, proxies, wres, a
  <2>5. d \in Handle /\ d.stream = handle[p].stream
    BY <1>4, DeserializeType
  <2> HIDE DEF d
  <2>6. k \in Handle /\ (k.stream => handle[p].stream)
    BY <2>2, <2>5, ReleaseType
  <2> HIDE DEF k
  <2>7. h \in Handle /\ (h.stream => handle[p].stream)
    BY <2>2, <2>6, ReleaseType
  <2> HIDE DEF h
  <2> QED
    BY <1>1, <1>5, <2>3, <2>4, <2>7, NestResume
<1>6. CASE ~(Known(p, handle[p], refs) /\ Cur(p).op = "call")
  <2>1. LoopThrows(p, handle[p])
    BY <1>6 DEF ReadReply
  <2> QED
    BY <1>1, <2>1, NestReadThrows
<1> QED
  BY <1>5, <1>6

LEMMA NestReadAck ==
    ASSUME IInv, Nest, NEW p \in Peer, ReadAck(p)
    PROVE  Nest'
<1> DEFINE g == [handle[p] EXCEPT !.last_op = 1]
           h == Delete(g, Cur(p).victim)
           a == [Cur(p) EXCEPT !.at = "write", !.victim = {}]
<1>1. Read(p, {"return", "throw"}) /\ Incoming(p).op \in {"return", "throw"} /\ Cur(p).at = "gc"
  BY DEF ReadAck, Read, Arrived
<1>2. stack[p] # << >>
  BY <1>1, ReadEffect
<1>3. handle[p] \in Handle
  BY DEF IInv, TypeOK
<1>4. g \in Handle /\ g.stream = handle[p].stream
  BY <1>3 DEF Handle
<1>5. CASE Incoming(p).op = "return"
  <2>1. SetHandle(p, h) /\ SetCur(p, a)
    BY <1>5 DEF ReadAck
  <2>2. a \in Activation /\ a.at = "write" /\ a.op = Cur(p).op
    BY <1>2, Current DEF Activation
  <2> HIDE DEF g
  <2>3. h \in Handle /\ (h.stream => handle[p].stream)
    BY <1>4, DeleteType
  <2> HIDE DEF h, a
  <2> QED
    BY <1>1, <2>1, <2>2, <2>3, NestResume
<1>6. CASE Incoming(p).op # "return"
  <2>1. LoopThrows(p, handle[p])
    BY <1>6 DEF ReadAck
  <2> QED
    BY <1>1, <2>1, NestReadThrows
<1> QED
  BY <1>5, <1>6

-----------------------------------------------------------------------------
(* Nest is an invariant.                                                    *)

LEMMA NestInit == Init => Nest
<1> SUFFICES ASSUME Init PROVE Nest
  OBVIOUS
<1> DEFINE a == [Idle EXCEPT !.at = "wait", !.op = "call"]
           b == [Idle EXCEPT !.at = "write", !.op = "hello", !.wres = {TopObj}]
           s == <<a>>
           r == <<b>>
<1>1. a.at = "wait" /\ a.op = "call" /\ b.at = "write" /\ b.op = "hello"
  BY DEF Idle
<1>2. stack = [p \in Peer |-> IF p = Client THEN <<a>> ELSE <<b>>]
  BY DEF Init
<1> HIDE DEF a, b
<1>3. /\ Client \in Peer /\ Server \in Peer /\ Client # Server /\ Peer = {Client, Server}
      /\ Other(Client) = Server /\ Other(Server) = Client
      /\ stack[Client] = s /\ stack[Server] = r
  BY <1>2 DEF Peer, Client, Server, Other
<1>4. \A p \in Peer : handle[p].destr_cand = {} /\ chan[p] = << >>
  BY DEF Init, NewHandle
<1>5. Len(s) = 1 /\ s[1] = a /\ s # << >> /\ Len(r) = 1 /\ r[1] = b /\ r # << >>
  OBVIOUS
<1> HIDE DEF s, r
<1>6. Last(s) = a /\ Last(r) = b
  BY <1>5 DEF Last
<1>7. Well(Client, s)
  BY <1>1, <1>3, <1>5 DEF Well
<1>8. Well(Server, r)
  BY <1>1, <1>3, <1>5 DEF Well
<1>9. ~Runs(s)
  BY <1>1, <1>5 DEF Runs
<1>10. RunPair(Server, r, s)
  BY <1>1, <1>3, <1>5, <1>6 DEF RunPair, Ahead
<1>11. HelloClean(handle[Client], s) /\ HelloClean(handle[Server], r)
  BY <1>3, <1>4 DEF HelloClean
<1>12. NestOf(Client, handle[Client], s, chan[Client], r, Open)
  BY <1>3, <1>4, <1>7, <1>9, <1>11 DEF NestOf
<1>13. NestOf(Server, handle[Server], r, chan[Server], s, Open)
  BY <1>3, <1>4, <1>8, <1>10, <1>11 DEF NestOf
<1> QED
  BY <1>3, <1>12, <1>13 DEF Nest

LEMMA NestNext == IInv /\ Nest /\ [Next]_vars => Nest'
<1> SUFFICES ASSUME IInv, Nest, [Next]_vars PROVE Nest'
  OBVIOUS
<1>1. CASE UNCHANGED vars
  BY <1>1 DEF vars, Nest, Open
<1>2. CASE Next
  <2> PICK p \in Peer :
        \/ Invoke(p) \/ Answer(p) \/ Keep(p) \/ Drop(p)
        \/ GcSkip(p) \/ GcDestroy(p) \/ WriteCall(p) \/ WriteReply(p) \/ WriteFails(p)
        \/ ReadRequest(p) \/ ReadDestroy(p) \/ ReadReply(p) \/ ReadAck(p) \/ ReadFails(p)
    BY <1>2 DEF Next
  <2>1. CASE Invoke(p) \/ Answer(p) \/ Keep(p) \/ Drop(p)
    BY <2>1, NestInvoke, NestAnswer, NestKeep, NestDrop
  <2>2. CASE GcSkip(p) \/ GcDestroy(p)
    BY <2>2, NestGcSkip, NestGcDestroy
  <2>3. CASE WriteCall(p) \/ WriteReply(p) \/ WriteFails(p)
    BY <2>3, NestWriteCall, NestWriteReply, NestWriteFails
  <2>4. CASE ReadRequest(p) \/ ReadDestroy(p)
    BY <2>4, NestReadRequest, NestReadDestroy
  <2>5. CASE ReadReply(p) \/ ReadAck(p) \/ ReadFails(p)
    BY <2>5, NestReadReply, NestReadAck, NestReadFails
  <2> QED
    BY <2>1, <2>2, <2>3, <2>4, <2>5
<1> QED
  BY <1>1, <1>2

LEMMA Nesting == Spec => [](IInv /\ Nest)
<1>1. Init => IInv /\ Nest
  BY InitInvariant, NestInit
<1>2. (IInv /\ Nest) /\ [Next]_vars => (IInv /\ Nest)'
  BY NextInvariant, NestNext
<1> QED
  BY <1>1, <1>2, PTL DEF Spec

(* Every reply finds the call or the op_destroy it answers, to any depth of *)
(* nesting, and garbage_collect reads nothing but its answer.               *)
THEOREM RepliesFindCalls == Spec => []RepliesMatch
<1>1. IInv /\ Nest => RepliesMatch
  <2> SUFFICES ASSUME IInv, Nest, Open, NEW p \in Peer, chan[p] # << >>
               PROVE  LET op == Head(chan[p]).op
                      IN  \/ op \in {"request", "destroy"} /\ At(p, {"wait"})
                          \/ op \in {"return", "throw"} /\ At(p, {"wait"}) /\ Cur(p).op = "call"
                          \/ op = "return" /\ At(p, {"gc"})
    BY DEF RepliesMatch
  <2>1. Fits(Last(stack[p]), Head(chan[p]).op) /\ stack[p] # << >> /\ Cur(p) = Last(stack[p])
    BY NestCurrent
  <2>2. ~aborted[p]
    BY DEF IInv, NoAbort
  <2> QED
    BY <2>1, <2>2 DEF Fits, At
<1> QED
  BY <1>1, Nesting, PTL

-----------------------------------------------------------------------------
(* RemoteProtocol implements RemoteCall.                                    *)

(* The activations that wait are the last one or all but the last.          *)
Waits(s) == IF Last(s).at \in {"wait", "gc"} THEN Len(s) ELSE Len(s) - 1

(* The serving loop of the server waits, but made no call.                  *)
OutOf(p, s) == IF p = Client \/ Waits(s) = 0 THEN Waits(s) ELSE Waits(s) - 1

LEMMA OutstandingIs ==
    ASSUME IInv, Nest, NEW p \in Peer, handle[p].stream
    PROVE  /\ Outstanding(p) = OutOf(p, stack[p])
           /\ Len(stack[p]) \in Nat \ {0}
           /\ Waits(stack[p]) \in Nat /\ OutOf(p, stack[p]) \in Nat
<1> PICK s \in Seq(Activation) : s = stack[p]
  BY NestCurrent
<1>1. s # << >> /\ Well(p, s)
  BY NestCurrent
<1>2. Len(s) \in Nat \ {0} /\ DOMAIN s = 1 .. Len(s)
  BY <1>1, StackLast
<1> PICK n \in Nat \ {0} : n = Len(s)
  BY <1>2
<1>12. Waits(s) = n \/ Waits(s) = n - 1
  BY DEF Waits
<1> PICK m \in Int : m = Waits(s)
  BY <1>12
<1>3. m \in Nat /\ (m = n \/ m = n - 1)
  BY <1>12
<1>4. ASSUME NEW i \in 1 .. n
      PROVE  s[i].at \in {"wait", "gc"} <=> i <= m
  <2>1. CASE i < n
    <3>1. i \in 1 .. Len(s) - 1 /\ i <= m
      BY <1>3, <2>1
    <3> QED
      BY <1>1, <3>1 DEF Well
  <2>2. CASE i = n
    <3>1. s[i] = Last(s)
      BY <2>2 DEF Last
    <3>2. m = IF Last(s).at \in {"wait", "gc"} THEN n ELSE n - 1
      BY DEF Waits
    <3> HIDE DEF Last
    <3> QED
      BY <2>2, <3>1, <3>2
  <2> QED
    BY <2>1, <2>2
<1>5. ASSUME NEW i \in 1 .. n
      PROVE  /\ s[i].op = "hello" <=> p = Server /\ i = 1
             /\ s[i].op = "hello" => s[i].at \in {"write", "wait"}
  BY <1>1 DEF Well
<1> DEFINE W == {i \in DOMAIN s :
                   s[i].at \in {"wait", "gc"} /\ ~(s[i].at = "wait" /\ s[i].op = "hello")}
           lo == IF p = Client THEN 1 ELSE 2
<1>6. p = Client <=> p # Server
  BY DEF Peer, Client, Server
<1>7. ASSUME NEW i \in 1 .. n
      PROVE  i \in W <=> i \in lo .. m
  <2>1. i \in W <=> i <= m /\ ~(s[i].at = "wait" /\ s[i].op = "hello")
    BY <1>2, <1>4
  <2>2. i <= m => ((s[i].at = "wait" /\ s[i].op = "hello") <=> (p = Server /\ i = 1))
    BY <1>4, <1>5
  <2>3. i \in W <=> i <= m /\ ~(p = Server /\ i = 1)
    BY <2>1, <2>2
  <2> HIDE DEF W
  <2> QED
    BY <1>3, <1>6, <2>3
<1>8. W = lo .. m
  <2>1. W \subseteq 1 .. n /\ lo .. m \subseteq 1 .. n
    BY <1>2, <1>3
  <2> HIDE DEF W, lo
  <2> QED
    BY <1>7, <2>1
<1>9. Outstanding(p) = Cardinality(W)
  BY DEF Outstanding
<1> HIDE DEF W
<1>10. Cardinality(lo .. m) = IF lo > m THEN 0 ELSE m - lo + 1
  <2>1. lo \in Int /\ m \in Int
    OBVIOUS
  <2> HIDE DEF lo
  <2> QED
    BY <2>1, FS_Interval
<1>11. OutOf(p, s) = IF p = Client \/ m = 0 THEN m ELSE m - 1
  BY DEF OutOf
<1> QED
  BY <1>2, <1>3, <1>8, <1>9, <1>10, <1>11

(* Where the token is, in terms of RemoteCall.                              *)
LEMMA AbstractRun ==
    ASSUME IInv, Nest, Open, NEW p \in Peer, Runs(stack[p])
    PROVE  Goal = p /\ Travelling = "none"
<1>1. chan[p] = << >> /\ chan[Other(p)] = << >> /\ ~Runs(stack[Other(p)])
  BY TokenAt
<1>2. \A r \in Peer : Controls(r) <=> Runs(stack[r])
  BY DEF IInv, NoAbort, Controls, At, Cur, Runs
<1>3. Client \in Peer /\ Server \in Peer /\ Client # Server
      /\ Other(Client) = Server /\ Other(Server) = Client /\ (p = Client \/ p = Server)
  BY DEF Peer, Client, Server, Other
<1>4. chan[Client] = << >> /\ chan[Server] = << >>
  BY <1>1, <1>3
<1>5. Goal = p
  BY <1>1, <1>2, <1>3, <1>4 DEF Goal
<1> QED
  BY <1>1, <1>5 DEF Travelling

LEMMA AbstractFlight ==
    ASSUME IInv, Nest, Open, NEW p \in Peer, chan[p] # << >>
    PROVE  /\ Goal = p
           /\ Travelling = IF Asks(Head(chan[p]).op) THEN "request" ELSE "reply"
<1>1. chan[Other(p)] = << >> /\ ~Runs(stack[p]) /\ ~Runs(stack[Other(p)])
  BY TokenAt
<1>2. \A r \in Peer : Controls(r) <=> Runs(stack[r])
  BY DEF IInv, NoAbort, Controls, At, Cur, Runs
<1>3. Client \in Peer /\ Server \in Peer /\ Client # Server
      /\ Other(Client) = Server /\ Other(Server) = Client /\ (p = Client \/ p = Server)
  BY DEF Peer, Client, Server, Other
<1>4. Goal = p
  <2>1. CASE p = Client
    BY <2>1 DEF Goal
  <2>2. CASE p = Server
    BY <1>1, <1>2, <1>3, <2>2 DEF Goal
  <2> QED
    BY <1>3, <2>1, <2>2
<1> QED
  BY <1>4 DEF Travelling, Asks

LEMMA SomeToken ==
    ASSUME IInv, Open
    PROVE  \E p \in Peer : Runs(stack[p]) \/ chan[p] # << >>
<1> SUFFICES ASSUME \A p \in Peer : ~Runs(stack[p]) /\ chan[p] = << >>
             PROVE  FALSE
  OBVIOUS
<1>1. \A r \in Peer : Controls(r) <=> Runs(stack[r])
  BY DEF IInv, NoAbort, Controls, At, Cur, Runs
<1>2. Client \in Peer /\ Server \in Peer
  BY DEF Peer
<1>3. Token(Client) = 0 /\ Token(Server) = 0
  <2>1. Len(chan[Client]) = 0 /\ Len(chan[Server]) = 0
    BY <1>2
  <2>2. ~Controls(Client) /\ ~Controls(Server)
    BY <1>1, <1>2
  <2> QED
    BY <2>1, <2>2 DEF Token
<1> QED
  BY <1>3 DEF IInv, FlipFlop

(* How many calls are outstanding on each side.                             *)
LEMMA OutFlight ==
    ASSUME IInv, Nest, Open, NEW p \in Peer, chan[p] # << >>
    PROVE  /\ Outstanding(Client) = Outstanding(Server)
                + (IF (p = Client) <=> ~Asks(Head(chan[p]).op) THEN 1 ELSE 0)
           /\ ~Asks(Head(chan[p]).op) => Outstanding(p) > 0
<1> DEFINE q == Other(p)
           s == stack[p]
           r == stack[q]
           op == Head(chan[p]).op
<1>1. /\ q \in Peer /\ Client # Server
      /\ (p = Client /\ q = Server) \/ (p = Server /\ q = Client)
  BY DEF Peer, Client, Server, Other
<1>2. handle[p].stream /\ handle[q].stream
  BY <1>1 DEF Open
<1>3. /\ Outstanding(p) = OutOf(p, s) /\ Len(s) \in Nat \ {0}
      /\ Outstanding(q) = OutOf(q, r) /\ Len(r) \in Nat \ {0}
  BY <1>1, <1>2, OutstandingIs
<1>4. Fits(Last(s), op) /\ FlightPair(p, s, r, op) /\ Well(p, s) /\ s \in Seq(Activation)
  BY <1>2, NestCurrent
<1> PICK k \in Nat \ {0} : k = Len(s)
  BY <1>3
<1> PICK l \in Nat \ {0} : l = Len(r)
  BY <1>3
<1>5. Waits(s) = k /\ Waits(r) = l
  BY <1>4 DEF Fits, FlightPair, Waits
<1>6. (IF p = Client THEN l - k ELSE k - l) = IF (p = Client) <=> Asks(op) THEN 1 ELSE 0
  BY <1>4 DEF FlightPair, Ahead
<1>7. Outstanding(p) = (IF p = Client THEN k ELSE k - 1)
      /\ Outstanding(q) = (IF q = Client THEN l ELSE l - 1)
  BY <1>3, <1>5 DEF OutOf
<1>8. ~Asks(op) /\ p = Server => k # 1
  <2>1. k \in 1 .. Len(s)
    OBVIOUS
  <2>2. ~Asks(op) => Last(s).op # "hello"
    BY <1>4, <2>1 DEF Fits, Asks, Well, Last
  <2> QED
    BY <1>4, <2>1, <2>2 DEF Well, Last
<1> HIDE DEF op, s, r, q
<1> QED
  <2>1. CASE p = Client
    <3>1. q = Server /\ q # Client
      BY <1>1, <2>1
    <3>2. Outstanding(Client) = k /\ Outstanding(Server) = l - 1
      BY <1>7, <2>1, <3>1
    <3>3. l - k = IF Asks(op) THEN 1 ELSE 0
      BY <1>6, <2>1
    <3> QED
      BY <2>1, <3>2, <3>3 DEF op
  <2>2. CASE p = Server
    <3>1. q = Client /\ p # Client
      BY <1>1, <2>2
    <3>2. Outstanding(Client) = l /\ Outstanding(Server) = k - 1
      BY <1>7, <2>2, <3>1
    <3>3. k - l = IF Asks(op) THEN 0 ELSE 1
      BY <1>6, <3>1
    <3>4. ~Asks(op) => k - 1 > 0
      BY <1>8, <2>2
    <3> QED
      BY <2>2, <3>1, <3>2, <3>3, <3>4 DEF op
  <2> QED
    BY <1>1, <2>1, <2>2

LEMMA OutRun ==
    ASSUME IInv, Nest, Open, NEW p \in Peer, Runs(stack[p])
    PROVE  Outstanding(Client) = Outstanding(Server) + (IF p = Client THEN 0 ELSE 1)
<1> DEFINE q == Other(p)
           s == stack[p]
           r == stack[q]
<1>1. /\ q \in Peer /\ Client # Server
      /\ (p = Client /\ q = Server) \/ (p = Server /\ q = Client)
  BY DEF Peer, Client, Server, Other
<1>2. handle[p].stream /\ handle[q].stream
  BY <1>1 DEF Open
<1>3. /\ Outstanding(p) = OutOf(p, s) /\ Len(s) \in Nat \ {0}
      /\ Outstanding(q) = OutOf(q, r) /\ Len(r) \in Nat \ {0}
  BY <1>1, <1>2, OutstandingIs
<1>4. RunPair(p, s, r) /\ Well(p, s) /\ s \in Seq(Activation)
  BY <1>2, NestCurrent
<1> PICK k \in Nat \ {0} : k = Len(s)
  BY <1>3
<1> PICK l \in Nat \ {0} : l = Len(r)
  BY <1>3
<1>5. Waits(s) = k - 1 /\ Waits(r) = l
  BY <1>4 DEF Runs, RunPair, Waits, Last
<1>6. k \in 1 .. Len(s)
  OBVIOUS
<1>7. Last(s).op = "hello" <=> p = Server /\ k = 1
  BY <1>4, <1>6 DEF Well, Last
<1>8. (IF p = Client THEN l - k ELSE k - l) = IF p = Server /\ Last(s).op # "hello" THEN 1 ELSE 0
  BY <1>4 DEF RunPair, Ahead
<1>9. Outstanding(p) = (IF p = Client \/ k - 1 = 0 THEN k - 1 ELSE k - 1 - 1)
      /\ Outstanding(q) = (IF q = Client THEN l ELSE l - 1)
  BY <1>3, <1>5 DEF OutOf
<1> HIDE DEF s, r, q
<1> QED
  <2>1. CASE p = Client
    <3>1. q = Server /\ q # Client /\ p # Server
      BY <1>1, <2>1
    <3>2. Outstanding(Client) = k - 1 /\ Outstanding(Server) = l - 1
      BY <1>9, <2>1, <3>1
    <3>3. l - k = 0
      BY <1>8, <2>1, <3>1
    <3> QED
      BY <2>1, <3>2, <3>3
  <2>2. CASE p = Server
    <3>1. q = Client /\ p # Client
      BY <1>1, <2>2
    <3>2. Outstanding(Client) = l /\ Outstanding(Server) = IF k = 1 THEN 0 ELSE k - 2
      BY <1>9, <2>2, <3>1
    <3>3. k - l = IF k # 1 THEN 1 ELSE 0
      BY <1>7, <1>8, <2>2, <3>1
    <3> QED
      BY <3>1, <3>2, <3>3
  <2> QED
    BY <1>1, <2>1, <2>2

LEMMA Alternates == IInv /\ Nest => CallsAlternate
<1> SUFFICES ASSUME IInv, Nest, Open
             PROVE  /\ Outstanding(Client) = Outstanding(Server)
                         + (IF (Goal = Client) = (Travelling = "reply") THEN 1 ELSE 0)
                    /\ Travelling = "reply" => Outstanding(Goal) > 0 /\ Goal \in Peer
  BY DEF CallsAlternate, Call!Alternation, Call!Client, Call!Server, Call!Peer, Client, Server, Peer
<1> PICK p \in Peer : Runs(stack[p]) \/ chan[p] # << >>
  BY SomeToken
<1>1. CASE Runs(stack[p])
  <2>1. Goal = p /\ Travelling = "none"
    BY <1>1, AbstractRun
  <2>2. Outstanding(Client) = Outstanding(Server) + (IF p = Client THEN 0 ELSE 1)
    BY <1>1, OutRun
  <2> QED
    BY <2>1, <2>2
<1>2. CASE chan[p] # << >>
  <2>1. Goal = p /\ Travelling = IF Asks(Head(chan[p]).op) THEN "request" ELSE "reply"
    BY <1>2, AbstractFlight
  <2>2. /\ Outstanding(Client) = Outstanding(Server)
             + (IF (p = Client) <=> ~Asks(Head(chan[p]).op) THEN 1 ELSE 0)
        /\ ~Asks(Head(chan[p]).op) => Outstanding(p) > 0
    BY <1>2, OutFlight
  <2>3. Travelling = "reply" <=> ~Asks(Head(chan[p]).op)
    BY <2>1
  <2> QED
    BY <2>1, <2>2, <2>3
<1> QED
  BY <1>1, <1>2

(* While the connection is open, the client has one call more outstanding   *)
(* than the server exactly while its answer is due, at every depth.         *)
THEOREM CallsDoAlternate == Spec => []CallsAlternate
  BY Alternates, Nesting, PTL

-----------------------------------------------------------------------------
(* The steps, as steps of RemoteCall.                                       *)

AbstractState ==
    \A p \in Peer :
        /\ Runs(stack[p]) => Goal = p /\ Travelling = "none"
        /\ chan[p] # << >> =>
             /\ Goal = p
             /\ Travelling = IF Asks(Head(chan[p]).op) THEN "request" ELSE "reply"
             /\ ~Asks(Head(chan[p]).op) => Outstanding(p) > 0
        /\ Outstanding(p) = OutOf(p, stack[p])
        /\ OutOf(p, stack[p]) \in Nat

LEMMA Abstraction == IInv /\ Nest /\ Open => AbstractState
<1> SUFFICES ASSUME IInv, Nest, Open, NEW p \in Peer
             PROVE  /\ Runs(stack[p]) => Goal = p /\ Travelling = "none"
                    /\ chan[p] # << >> =>
                         /\ Goal = p
                         /\ Travelling = IF Asks(Head(chan[p]).op) THEN "request" ELSE "reply"
                         /\ ~Asks(Head(chan[p]).op) => Outstanding(p) > 0
                    /\ Outstanding(p) = OutOf(p, stack[p])
                    /\ OutOf(p, stack[p]) \in Nat
  BY DEF AbstractState
<1>1. handle[p].stream
  BY DEF Open
<1> QED
  BY <1>1, AbstractRun, AbstractFlight, OutFlight, OutstandingIs

(* A step of p between two states of an open connection.                    *)
Moves(p) ==
    /\ Open /\ Open' /\ AbstractState /\ AbstractState'
    /\ stack'[Other(p)] = stack[Other(p)]

(* The mapped variables before and after such a step.                       *)
LEMMA Mapped ==
    ASSUME NEW p \in Peer, Moves(p), NEW d \in Int,
           OutOf(p, stack'[p]) = OutOf(p, stack[p]) + d
    PROVE  [r \in Peer |-> IF Open THEN Outstanding(r) ELSE 0]'
             = [[r \in Peer |-> IF Open THEN Outstanding(r) ELSE 0] EXCEPT ![p] = @ + d]
<1> DEFINE q == Other(p)
<1>1. q \in Peer /\ q # p /\ Peer = {p, q}
  BY LocalRemote
<1>2. Outstanding(p)' = OutOf(p, stack'[p]) /\ Outstanding(p) = OutOf(p, stack[p])
  BY DEF Moves, AbstractState
<1>3. Outstanding(q)' = OutOf(q, stack'[q]) /\ Outstanding(q) = OutOf(q, stack[q])
  BY <1>1 DEF Moves, AbstractState
<1>4. Outstanding(p)' = Outstanding(p) + d /\ Outstanding(q)' = Outstanding(q)
  BY <1>2, <1>3 DEF Moves
<1>5. Open /\ Open'
  BY DEF Moves
<1> DEFINE f == [r \in Peer |-> IF Open THEN Outstanding(r) ELSE 0]
           g == [r \in Peer |-> IF Open' THEN Outstanding(r)' ELSE 0]
<1>6. \A r \in Peer : g[r] = [f EXCEPT ![p] = @ + d][r]
  BY <1>1, <1>4, <1>5
<1>7. g = [f EXCEPT ![p] = @ + d]
  BY <1>6
<1> QED
  BY <1>7

LEMMA MappedSame ==
    ASSUME NEW p \in Peer, Moves(p), OutOf(p, stack'[p]) = OutOf(p, stack[p])
    PROVE  [r \in Peer |-> IF Open THEN Outstanding(r) ELSE 0]'
             = [r \in Peer |-> IF Open THEN Outstanding(r) ELSE 0]
<1> DEFINE q == Other(p)
<1>1. q \in Peer /\ Peer = {p, q}
  BY LocalRemote
<1>2. Outstanding(p)' = Outstanding(p)
  BY DEF Moves, AbstractState
<1>3. Outstanding(q)' = Outstanding(q)
  BY <1>1 DEF Moves, AbstractState
<1>4. Open /\ Open'
  BY DEF Moves
<1>5. \A r \in Peer : Outstanding(r)' = Outstanding(r)
  BY <1>1, <1>2, <1>3
<1> QED
  BY <1>4, <1>5

LEMMA MapCall ==
    ASSUME NEW p \in Peer, Moves(p), Runs(stack[p]),
           chan'[Other(p)] # << >>, Asks(Head(chan'[Other(p)]).op),
           OutOf(p, stack'[p]) = OutOf(p, stack[p]) + 1
    PROVE  Call!Call(p)
<1>1. Goal = p /\ Travelling = "none" /\ Open /\ Open'
  BY DEF Moves, AbstractState
<1>2. Other(p) \in Peer
  BY LocalRemote
<1>3. Goal' = Other(p) /\ Travelling' = "request"
  BY <1>2 DEF Moves, AbstractState
<1>4. Call!Other(p) = Other(p) /\ Call!Peer = Peer
  BY DEF Call!Other, Other, Call!Client, Call!Server, Client, Server, Call!Peer, Peer
<1>5. [r \in Peer |-> IF Open THEN Outstanding(r) ELSE 0]'
        = [[r \in Peer |-> IF Open THEN Outstanding(r) ELSE 0] EXCEPT ![p] = @ + 1]
  BY Mapped
<1> QED
  BY <1>1, <1>3, <1>4, <1>5 DEF Call!Call

LEMMA MapReply ==
    ASSUME NEW p \in Peer, Moves(p), Runs(stack[p]),
           chan'[Other(p)] # << >>, ~Asks(Head(chan'[Other(p)]).op),
           OutOf(p, stack'[p]) = OutOf(p, stack[p])
    PROVE  Call!Reply(p)
<1> DEFINE q == Other(p)
<1>1. Goal = p /\ Travelling = "none" /\ Open /\ Open'
  BY DEF Moves, AbstractState
<1>2. q \in Peer
  BY LocalRemote
<1>3. Goal' = q /\ Travelling' = "reply" /\ Outstanding(q)' > 0
  BY <1>2 DEF Moves, AbstractState
<1>4. Outstanding(q)' = Outstanding(q)
  BY <1>2 DEF Moves, AbstractState
<1>5. Call!Other(p) = q /\ Call!Peer = Peer
  BY DEF Call!Other, Other, Call!Client, Call!Server, Client, Server, Call!Peer, Peer
<1>6. [r \in Peer |-> IF Open THEN Outstanding(r) ELSE 0]'
        = [r \in Peer |-> IF Open THEN Outstanding(r) ELSE 0]
  BY MappedSame
<1> QED
  BY <1>1, <1>2, <1>3, <1>4, <1>5, <1>6 DEF Call!Reply

LEMMA MapServe ==
    ASSUME NEW p \in Peer, Moves(p), Runs(stack'[p]),
           chan[p] # << >>, Asks(Head(chan[p]).op),
           OutOf(p, stack'[p]) = OutOf(p, stack[p])
    PROVE  Call!Serve(p)
<1>1. Goal = p /\ Travelling = "request" /\ Open /\ Open'
  BY DEF Moves, AbstractState
<1>2. Goal' = p /\ Travelling' = "none"
  BY DEF Moves, AbstractState
<1>3. [r \in Peer |-> IF Open THEN Outstanding(r) ELSE 0]'
        = [r \in Peer |-> IF Open THEN Outstanding(r) ELSE 0]
  BY MappedSame
<1> QED
  BY <1>1, <1>2, <1>3 DEF Call!Serve

LEMMA MapReturn ==
    ASSUME NEW p \in Peer, Moves(p), Runs(stack'[p]),
           chan[p] # << >>, ~Asks(Head(chan[p]).op),
           OutOf(p, stack'[p]) = OutOf(p, stack[p]) - 1
    PROVE  Call!Return(p)
<1>1. Goal = p /\ Travelling = "reply" /\ Open /\ Open'
  BY DEF Moves, AbstractState
<1>2. Goal' = p /\ Travelling' = "none"
  BY DEF Moves, AbstractState
<1>3. OutOf(p, stack'[p]) = OutOf(p, stack[p]) + (-1) /\ OutOf(p, stack[p]) \in Nat
  BY DEF Moves, AbstractState
<1> DEFINE f == [r \in Peer |-> IF Open THEN Outstanding(r) ELSE 0]
<1>4. [r \in Peer |-> IF Open THEN Outstanding(r) ELSE 0]' = [f EXCEPT ![p] = @ + (-1)]
  BY <1>3, Mapped
<1>5. f[p] \in Nat
  BY <1>1, <1>3 DEF Moves, AbstractState
<1>6. [r \in Peer |-> IF Open THEN Outstanding(r) ELSE 0]' = [f EXCEPT ![p] = @ - 1]
  BY <1>4, <1>5
<1>7. Call!Peer = Peer
  BY DEF Call!Client, Call!Server, Client, Server, Call!Peer, Peer
<1> QED
  BY <1>1, <1>2, <1>6, <1>7 DEF Call!Return

LEMMA MapStay ==
    ASSUME NEW p \in Peer, Moves(p), Runs(stack[p]), Runs(stack'[p]),
           OutOf(p, stack'[p]) = OutOf(p, stack[p])
    PROVE  UNCHANGED Call!vars
<1>1. Goal = p /\ Travelling = "none" /\ Open /\ Open'
  BY DEF Moves, AbstractState
<1>2. Goal' = p /\ Travelling' = "none"
  BY DEF Moves, AbstractState
<1>3. [r \in Peer |-> IF Open THEN Outstanding(r) ELSE 0]'
        = [r \in Peer |-> IF Open THEN Outstanding(r) ELSE 0]
  BY MappedSame
<1>4. Call!Peer = Peer
  BY DEF Call!Client, Call!Server, Client, Server, Call!Peer, Peer
<1> QED
  BY <1>1, <1>2, <1>3, <1>4 DEF Call!vars

-----------------------------------------------------------------------------
(* What the actions do to the streams.                                      *)

LEMMA StreamAfter ==
    ASSUME IInv, NEW p \in Peer, NEW h, SetHandle(p, h)
    PROVE  Open' <=> h.stream /\ handle[Other(p)].stream
<1>1. Other(p) \in Peer /\ Other(p) # p /\ Peer = {p, Other(p)}
  BY LocalRemote
<1>2. handle'[p] = h /\ handle'[Other(p)] = handle[Other(p)]
  BY <1>1 DEF SetHandle, IInv, TypeOK
<1> QED
  BY <1>1, <1>2 DEF Open

LEMMA LoopCloses ==
    ASSUME IInv, NEW p \in Peer, At(p, {"wait", "gc"}), LoopThrows(p, handle[p])
    PROVE  ~Open'
<1> DEFINE g == [handle[p] EXCEPT !.last_op = 1]
           closed == CloseConnection(g)
           h == Delete(closed, Cur(p).victim)
           k == Release(closed, Cur(p).wres \cap Remote(p))
<1>1. handle[p] \in Handle
  BY DEF IInv, TypeOK
<1>2. g \in Handle
  BY <1>1 DEF Handle
<1>3. SetHandle(p, h) \/ SetHandle(p, k)
  BY DEF LoopThrows
<1> HIDE DEF g
<1>4. closed \in Handle /\ ~closed.stream
  BY <1>2, CloseConnectionType
<1>5. Cur(p).wres \cap Remote(p) \in SUBSET Objects
  BY LocalRemote
<1> HIDE DEF closed
<1>6. ~h.stream /\ ~k.stream
  BY <1>4, <1>5, DeleteType, ReleaseType
<1> HIDE DEF h, k
<1> QED
  BY <1>3, <1>6, StreamAfter

LEMMA WriteCloses ==
    ASSUME IInv, NEW p \in Peer, WriteFails(p)
    PROVE  ~Open'
<1> DEFINE closed == CloseConnection(handle[p])
           h == Release(closed, Cur(p).wres \cap Remote(p))
           below == Rest(p)[Len(Rest(p))]
           k == Release(Release(h, Cur(p).rpkt \cap Remote(p)),
                        below.wres \cap Remote(p))
<1>1. handle[p] \in Handle
  BY DEF IInv, TypeOK
<1>2. closed \in Handle /\ ~closed.stream
  BY <1>1, CloseConnectionType
<1>3. Cur(p).wres \cap Remote(p) \in SUBSET Objects
  BY LocalRemote
<1>4. SetHandle(p, h) \/ SetHandle(p, k)
  BY DEF WriteFails
<1> HIDE DEF closed
<1>5. h \in Handle /\ ~h.stream
  BY <1>2, <1>3, ReleaseType
<1> HIDE DEF h, below
<1>6. k \in Handle /\ ~k.stream
  BY <1>5, ReleaseTwice
<1> HIDE DEF k
<1> QED
  BY <1>4, <1>5, <1>6, StreamAfter

(* A connection that was given up is not opened again.                      *)
LEMMA NoReopen ==
    ASSUME IInv, [Next]_vars, Open'
    PROVE  Open
<1>1. CASE UNCHANGED vars
  BY <1>1 DEF vars, Open
<1>2. CASE Next
  <2> PICK p \in Peer :
        \/ Invoke(p) \/ Answer(p) \/ Keep(p) \/ Drop(p)
        \/ GcSkip(p) \/ GcDestroy(p) \/ WriteCall(p) \/ WriteReply(p) \/ WriteFails(p)
        \/ ReadRequest(p) \/ ReadDestroy(p) \/ ReadReply(p) \/ ReadAck(p) \/ ReadFails(p)
    BY <1>2 DEF Next
  <2>1. Peer = {p, Other(p)}
    BY LocalRemote
  <2>2. ASSUME NEW h, SetHandle(p, h), h.stream => handle[p].stream
        PROVE  Open
    BY <2>1, <2>2, StreamAfter DEF Open
  <2>3. ASSUME handle[p].stream, \E h : SetHandle(p, h)
        PROVE  Open
    BY <2>2, <2>3
  <2>4. handle[p] \in Handle
    BY DEF IInv, TypeOK
  <2>5. CASE Invoke(p) \/ Answer(p) \/ Keep(p)
    <3>1. PICK S : SetHandle(p, AddRef(handle[p], S))
      BY <2>5 DEF Invoke, Answer, Keep
    <3>2. AddRef(handle[p], S).stream = handle[p].stream
      BY <2>4, AddRefType
    <3> QED
      BY <2>2, <3>1, <3>2
  <2>6. CASE Drop(p)
    <3>1. PICK o \in Remote(p) : SetHandle(p, Release(handle[p], {o}))
      BY <2>6 DEF Drop
    <3>2. Release(handle[p], {o}).stream => handle[p].stream
      BY <2>4, LocalRemote, ReleaseType
    <3> QED
      BY <2>2, <3>1, <3>2
  <2>7. CASE GcSkip(p)
    <3>1. PICK o : SetHandle(p, [handle[p] EXCEPT !.destr_cand = @ \ {o}])
      BY <2>7 DEF GcSkip
    <3>2. [handle[p] EXCEPT !.destr_cand = @ \ {o}].stream = handle[p].stream
      BY <2>4 DEF Handle
    <3> QED
      BY <2>2, <3>1, <3>2
  <2>8. CASE GcDestroy(p) \/ WriteCall(p) \/ WriteReply(p)
    <3>1. handle[p].stream /\ \E h : SetHandle(p, h)
      BY <2>8 DEF GcDestroy, WriteCall, WriteReply
    <3> QED
      BY <2>3, <3>1
  <2>9. CASE ReadRequest(p) \/ ReadDestroy(p) \/ ReadReply(p) \/ ReadAck(p)
    <3>1. handle[p].stream
      BY <2>9 DEF ReadRequest, ReadDestroy, ReadReply, ReadAck, Read
    <3>2. \E h : SetHandle(p, h)
      BY <2>9 DEF ReadRequest, ReadDestroy, ReadReply, ReadAck, LoopThrows
    <3> QED
      BY <2>3, <3>1, <3>2
  <2>10. CASE WriteFails(p)
    BY <2>10, WriteCloses
  <2>11. CASE ReadFails(p)
    BY <2>11, LoopCloses DEF ReadFails
  <2> QED
    BY <2>5, <2>6, <2>7, <2>8, <2>9, <2>10, <2>11
<1> QED
  BY <1>1, <1>2

-----------------------------------------------------------------------------
(* How the steps change the number of outstanding calls.                    *)

LEMMA WaitsReplace ==
    ASSUME IInv, Nest, NEW p \in Peer, handle[p].stream, NEW a \in Activation,
           SetCur(p, a)
    PROVE  LET s == stack[p]
               t == stack'[p]
           IN  /\ Runs(s) <=> Cur(p).at \in {"user", "write"}
               /\ Waits(s) = IF Cur(p).at \in {"user", "write"} THEN Len(s) - 1 ELSE Len(s)
               /\ Runs(t) <=> a.at \in {"user", "write"}
               /\ Waits(t) = IF a.at \in {"user", "write"} THEN Len(s) - 1 ELSE Len(s)
               /\ Len(s) \in Nat \ {0}
               /\ Cur(p).op = "hello" <=> p = Server /\ Len(s) = 1
               /\ stack'[Other(p)] = stack[Other(p)]
<1> DEFINE s == stack[p]
           t == stack'[p]
<1>1. s # << >> /\ s \in Seq(Activation) /\ Well(p, s) /\ Cur(p) = Last(s)
  BY NestCurrent
<1>2. Len(s) \in Nat \ {0} /\ Len(s) \in 1 .. Len(s) /\ Last(s) \in Activation
  BY <1>1, StackLast DEF Last
<1>3. stack \in [Peer -> Seq(Activation)] /\ Other(p) # p /\ Other(p) \in Peer
  BY LocalRemote DEF IInv, TypeOK
<1>4. t = [s EXCEPT ![Len(s)] = a] /\ stack'[Other(p)] = stack[Other(p)]
  BY <1>3 DEF SetCur
<1>5. t # << >> /\ Len(t) = Len(s) /\ Last(t) = a
  BY <1>1, <1>4, StackReplace DEF Last
<1>6. Cur(p).op = "hello" <=> p = Server /\ Len(s) = 1
  BY <1>1, <1>2 DEF Well, Last
<1>7. a.at \in {"wait", "gc"} <=> a.at \notin {"user", "write"}
  BY DEF Activation
<1>8. Last(s).at \in {"wait", "gc"} <=> Last(s).at \notin {"user", "write"}
  BY <1>2 DEF Activation
<1> HIDE DEF s, t
<1>9. Runs(s) <=> Cur(p).at \in {"user", "write"}
  BY <1>1 DEF Runs, Last
<1>10. Runs(t) <=> a.at \in {"user", "write"}
  BY <1>5 DEF Runs, Last
<1>11. Waits(s) = IF Cur(p).at \in {"user", "write"} THEN Len(s) - 1 ELSE Len(s)
  BY <1>1, <1>8 DEF Waits
<1>12. Waits(t) = IF a.at \in {"user", "write"} THEN Len(s) - 1 ELSE Len(s)
  BY <1>5, <1>7 DEF Waits
<1> QED
  BY <1>2, <1>4, <1>6, <1>9, <1>10, <1>11, <1>12 DEF s, t

(* A packet is written by an activation that then waits.                    *)
LEMMA MapSend ==
    ASSUME IInv, Nest, NEW p \in Peer, Open, Open', AbstractState, AbstractState',
           At(p, {"write"}), NEW a \in Activation, a.at \in {"wait", "gc"},
           SetCur(p, a), NEW op, NEW refs, [op |-> op, refs |-> refs] \in Packet,
           Send(p, op, refs), Cur(p).op = "hello" <=> ~Asks(op)
    PROVE  Call!Call(p) \/ Call!Reply(p)
<1> DEFINE q == Other(p)
           s == stack[p]
           t == stack'[p]
<1>1. Cur(p).at = "write" /\ handle[p].stream
  BY DEF At, Open
<1>2. /\ Runs(s) /\ Waits(s) = Len(s) - 1
      /\ Waits(t) = Len(s) /\ Len(s) \in Nat \ {0}
      /\ Cur(p).op = "hello" <=> p = Server /\ Len(s) = 1
      /\ stack'[q] = stack[q]
  BY <1>1, WaitsReplace
<1>3. Moves(p)
  BY <1>2 DEF Moves
<1>4. chan[q] = << >>
  BY <1>2, TokenAt
<1>5. chan'[q] # << >> /\ Head(chan'[q]).op = op
  BY <1>4, SentTo
<1> PICK n \in Nat \ {0} : n = Len(s)
  BY <1>2
<1>6. p = Client <=> p # Server
  BY DEF Peer, Client, Server
<1>7. OutOf(p, s) = (IF p = Client \/ n - 1 = 0 THEN n - 1 ELSE n - 1 - 1)
      /\ OutOf(p, t) = (IF p = Client \/ n = 0 THEN n ELSE n - 1)
  BY <1>2 DEF OutOf
<1>8. CASE Asks(op)
  <2>1. ~(p = Server /\ n = 1)
    BY <1>2, <1>8
  <2>2. OutOf(p, t) = OutOf(p, s) + 1
    BY <1>6, <1>7, <2>1
  <2>3. Asks(Head(chan'[q]).op)
    BY <1>5, <1>8
  <2> QED
    BY <1>2, <1>3, <1>5, <2>2, <2>3, MapCall
<1>9. CASE ~Asks(op)
  <2>1. p = Server /\ n = 1
    BY <1>2, <1>9
  <2>2. OutOf(p, t) = OutOf(p, s)
    BY <1>6, <1>7, <2>1
  <2>3. ~Asks(Head(chan'[q]).op)
    BY <1>5, <1>9
  <2> QED
    BY <1>2, <1>3, <1>5, <2>2, <2>3, MapReply
<1> QED
  BY <1>8, <1>9

(* A reply is written.                                                      *)
LEMMA MapAnswer ==
    ASSUME IInv, Nest, NEW p \in Peer, Open, Open', AbstractState, AbstractState',
           At(p, {"write"}), Len(stack[p]) > 1, SetStack(p, Rest(p)),
           NEW op \in {"return", "throw"}, NEW refs, [op |-> op, refs |-> refs] \in Packet,
           Send(p, op, refs)
    PROVE  Call!Reply(p)
<1> DEFINE q == Other(p)
           s == stack[p]
           t == stack'[p]
<1>1. s # << >> /\ s \in Seq(Activation) /\ Well(p, s) /\ Last(s).at = "write"
  BY NestCurrent DEF At, Cur, Last
<1>2. stack \in [Peer -> Seq(Activation)] /\ q # p /\ q \in Peer
  BY LocalRemote DEF IInv, TypeOK
<1>3. t = SubSeq(s, 1, Len(s) - 1) /\ stack'[q] = stack[q]
  BY <1>2 DEF SetStack, Rest
<1>4. Len(t) = Len(s) - 1 /\ Last(t).at = "wait"
  BY <1>1, <1>3, WellPop
<1>5. Waits(t) = Waits(s)
  BY <1>1, <1>4 DEF Waits
<1>6. OutOf(p, t) = OutOf(p, s)
  BY <1>5 DEF OutOf
<1>7. Runs(s)
  BY <1>1 DEF Runs, Last
<1>8. Moves(p)
  BY <1>3 DEF Moves
<1>9. chan[q] = << >>
  BY <1>7, TokenAt
<1>10. chan'[q] # << >> /\ Head(chan'[q]).op = op
  BY <1>9, SentTo
<1>11. ~Asks(op)
  BY DEF Asks
<1> QED
  BY <1>6, <1>7, <1>8, <1>10, <1>11, MapReply

(* A request is read.                                                       *)
LEMMA MapPush ==
    ASSUME IInv, Nest, NEW p \in Peer, Open, Open', AbstractState, AbstractState',
           NEW ops, Read(p, ops), Asks(Incoming(p).op),
           NEW a \in Activation, a.at \in {"user", "write"},
           SetStack(p, Append(stack[p], a))
    PROVE  Call!Serve(p)
<1> DEFINE q == Other(p)
           s == stack[p]
           t == stack'[p]
<1>1. s # << >> /\ s \in Seq(Activation) /\ Fits(Last(s), Incoming(p).op) /\ chan[p] # << >>
  BY TakenOff, ReadEffect
<1>2. stack \in [Peer -> Seq(Activation)] /\ q # p /\ q \in Peer
  BY LocalRemote DEF IInv, TypeOK
<1>3. t = Append(s, a) /\ stack'[q] = stack[q]
  BY <1>2 DEF SetStack
<1>4. t # << >> /\ Len(t) = Len(s) + 1 /\ Last(t) = a
  BY <1>1, <1>3, StackPush DEF Last
<1>5. Len(s) \in Nat
  BY <1>1
<1>6. Last(s).at = "wait"
  BY <1>1 DEF Fits, Asks
<1> HIDE DEF s, t
<1>7. Waits(s) = Len(s) /\ Waits(t) = Len(t) - 1
  BY <1>4, <1>6 DEF Waits
<1>8. Waits(t) = Waits(s)
  BY <1>4, <1>5, <1>7
<1>9. OutOf(p, t) = OutOf(p, s)
  BY <1>8 DEF OutOf
<1>10. Runs(t)
  BY <1>4 DEF Runs, Last
<1>11. Moves(p)
  BY <1>3 DEF Moves
<1> QED
  BY <1>1, <1>9, <1>10, <1>11, MapServe DEF Incoming, s, t

(* An answer is read.                                                       *)
LEMMA MapResume ==
    ASSUME IInv, Nest, NEW p \in Peer, Open, Open', AbstractState, AbstractState',
           NEW ops, Read(p, ops), ~Asks(Incoming(p).op), Cur(p).op # "hello",
           NEW a \in Activation, a.at \in {"user", "write"}, SetCur(p, a)
    PROVE  Call!Return(p)
<1> DEFINE s == stack[p]
           t == stack'[p]
<1>1. handle[p].stream /\ chan[p] # << >> /\ Cur(p).at \in {"wait", "gc"}
  BY ReadEffect
<1>2. /\ Waits(s) = Len(s) /\ Waits(t) = Len(s) - 1 /\ Len(s) \in Nat \ {0}
      /\ Cur(p).op = "hello" <=> p = Server /\ Len(s) = 1
      /\ Runs(t) /\ stack'[Other(p)] = stack[Other(p)]
  BY <1>1, WaitsReplace
<1>3. Moves(p)
  BY <1>2 DEF Moves
<1> PICK n \in Nat \ {0} : n = Len(s)
  BY <1>2
<1>4. (p = Client <=> p # Server) /\ ~(p = Server /\ n = 1)
  BY <1>2 DEF Peer, Client, Server
<1>5. OutOf(p, s) = (IF p = Client \/ n = 0 THEN n ELSE n - 1)
      /\ OutOf(p, t) = (IF p = Client \/ n - 1 = 0 THEN n - 1 ELSE n - 1 - 1)
  BY <1>2 DEF OutOf
<1>6. OutOf(p, t) = OutOf(p, s) - 1
  BY <1>4, <1>5
<1> QED
  BY <1>1, <1>2, <1>3, <1>6, MapReturn DEF Incoming

-----------------------------------------------------------------------------
(* The refinement.                                                          *)

LEMMA MapCode ==
    ASSUME IInv, Nest, NEW p \in Peer, Open, Open', AbstractState, AbstractState',
           Invoke(p) \/ Answer(p) \/ Keep(p) \/ Drop(p) \/ GcSkip(p)
    PROVE  UNCHANGED Call!vars
<1>1. handle[p].stream /\ stack[p] # << >>
  BY NestCurrent DEF Open
<1>2. CASE Invoke(p) \/ Answer(p)
  <2>1. Cur(p).at = "user" /\ Cur(p) \in Activation
    BY <1>1, <1>2, Current DEF Invoke, Answer, At
  <2>2. PICK w \in SUBSET Objects, op \in {"call", "return", "throw"} :
          SetCur(p, [Cur(p) EXCEPT !.at = "write", !.op = op, !.wres = w])
    <3>1. CASE Invoke(p)
      <4> PICK target \in Accessible(p), args \in SUBSET (Accessible(p) \cup Local(p)) :
            LET wres == {target} \cup args
            IN  SetCur(p, [Cur(p) EXCEPT !.at = "write", !.op = "call", !.wres = wres])
        BY <3>1 DEF Invoke
      <4>1. {target} \cup args \in SUBSET Objects
        BY AccessibleType, LocalRemote
      <4> QED
        BY <4>1
    <3>2. CASE Answer(p)
      <4> PICK op \in {"return", "throw"}, refs \in SUBSET (Accessible(p) \cup Local(p)) :
            SetCur(p, [Cur(p) EXCEPT !.at = "write", !.op = op, !.wres = refs])
        BY <3>2 DEF Answer
      <4>1. refs \in SUBSET Objects
        BY AccessibleType, LocalRemote
      <4> QED
        BY <4>1
    <3> QED
      BY <1>2, <3>1, <3>2
  <2> DEFINE a == [Cur(p) EXCEPT !.at = "write", !.op = op, !.wres = w]
  <2>3. a \in Activation /\ a.at = "write" /\ SetCur(p, a)
    BY <2>1, <2>2 DEF Activation
  <2> HIDE DEF a
  <2>4. /\ Runs(stack[p]) /\ Runs(stack'[p]) /\ Waits(stack'[p]) = Waits(stack[p])
        /\ stack'[Other(p)] = stack[Other(p)]
    BY <1>1, <2>1, <2>3, WaitsReplace
  <2>5. OutOf(p, stack'[p]) = OutOf(p, stack[p])
    BY <2>4 DEF OutOf
  <2>6. Moves(p)
    BY <2>4 DEF Moves
  <2> QED
    BY <2>4, <2>5, <2>6, MapStay
<1>3. CASE Keep(p) \/ Drop(p) \/ GcSkip(p)
  <2>1. Cur(p).at \in {"user", "write"} /\ stack' = stack
    BY <1>1, <1>3 DEF Keep, Drop, GcSkip, At
  <2>2. Runs(stack[p]) /\ Runs(stack'[p])
    BY <1>1, <2>1 DEF Runs, Cur
  <2>3. Moves(p)
    BY <2>1 DEF Moves
  <2> QED
    BY <2>1, <2>2, <2>3, MapStay
<1> QED
  BY <1>2, <1>3

LEMMA MapWrite ==
    ASSUME IInv, Nest, NEW p \in Peer, Open, Open', AbstractState, AbstractState',
           GcDestroy(p) \/ WriteCall(p) \/ WriteReply(p)
    PROVE  Call!Call(p) \/ Call!Reply(p)
<1>1. At(p, {"write"}) /\ stack[p] # << >> /\ Cur(p).at = "write" /\ handle[p].stream
  BY DEF GcDestroy, WriteCall, WriteReply, At
<1>2. Cur(p) \in Activation /\ handle[p] \in Handle
  BY <1>1, Current
<1>3. CASE GcDestroy(p)
  <2>1. PICK o \in handle[p].destr_cand :
          /\ Send(p, "destroy", {o})
          /\ SetCur(p, [Cur(p) EXCEPT !.at = "gc", !.victim = {o}])
    BY <1>3 DEF GcDestroy
  <2> DEFINE a == [Cur(p) EXCEPT !.at = "gc", !.victim = {o}]
  <2>2. o \in Objects
    BY <1>2 DEF Handle
  <2>3. a \in Activation /\ a.at = "gc"
    BY <1>2, <2>2 DEF Activation
  <2>4. [op |-> "destroy", refs |-> {o}] \in Packet
    BY <2>2 DEF Packet
  <2>5. Cur(p).op # "hello" /\ Asks("destroy")
    BY <1>1, <2>1, NestCurrent DEF HelloClean, Asks
  <2>6. SetCur(p, a)
    BY <2>1
  <2> HIDE DEF a
  <2> QED
    BY <1>1, <2>1, <2>3, <2>4, <2>5, <2>6, MapSend
<1>4. CASE WriteCall(p)
  <2> DEFINE op == IF Cur(p).op = "hello" THEN "return" ELSE "request"
             a == [Cur(p) EXCEPT !.at = "wait"]
  <2>1. Send(p, op, Cur(p).wres) /\ SetCur(p, a)
    BY <1>4 DEF WriteCall
  <2>2. a \in Activation /\ a.at = "wait"
    BY <1>2 DEF Activation
  <2>3. [op |-> op, refs |-> Cur(p).wres] \in Packet
    BY <1>2 DEF Packet, Activation
  <2>4. Cur(p).op = "hello" <=> ~Asks(op)
    BY DEF Asks
  <2> HIDE DEF a, op
  <2> QED
    BY <1>1, <2>1, <2>2, <2>3, <2>4, MapSend
<1>5. CASE WriteReply(p)
  <2> DEFINE op == IF Cur(p).op = "throw" THEN "throw" ELSE "return"
  <2>1. Send(p, op, Cur(p).wres) /\ SetStack(p, Rest(p)) /\ Cur(p).op \notin {"call", "hello"}
    BY <1>5 DEF WriteReply
  <2>2. Len(stack[p]) > 1
    BY <1>1, <2>1, Current
  <2>3. [op |-> op, refs |-> Cur(p).wres] \in Packet /\ op \in {"return", "throw"}
    BY <1>2 DEF Packet, Activation
  <2> HIDE DEF op
  <2> QED
    BY <1>1, <2>1, <2>2, <2>3, MapAnswer
<1> QED
  BY <1>3, <1>4, <1>5

LEMMA MapRead ==
    ASSUME IInv, Nest, NEW p \in Peer, Open, Open', AbstractState, AbstractState',
           ReadRequest(p) \/ ReadDestroy(p) \/ ReadReply(p) \/ ReadAck(p)
    PROVE  Call!Serve(p) \/ Call!Return(p)
<1>1. PICK ops : Read(p, ops)
  BY DEF ReadRequest, ReadDestroy, ReadReply, ReadAck
<1>2. At(p, {"wait", "gc"}) /\ stack[p] # << >> /\ Cur(p).at \in {"wait", "gc"}
      /\ handle[p].stream
  BY <1>1, ReadEffect
<1>3. ~LoopThrows(p, handle[p])
  BY <1>2, LoopCloses
<1>4. Incoming(p).refs \in SUBSET Objects /\ Cur(p) \in Activation
  BY <1>1, <1>2, IncomingType, Current
<1>5. CASE ReadRequest(p) \/ ReadDestroy(p)
  <2>1. Asks(Incoming(p).op)
    BY <1>5 DEF ReadRequest, ReadDestroy, Read, Arrived, Asks
  <2>2. PICK a \in Activation : a.at \in {"user", "write"} /\ SetStack(p, Append(stack[p], a))
    <3>1. CASE ReadRequest(p)
      <4> DEFINE a == [Idle EXCEPT !.rpkt = Incoming(p).refs]
      <4>1. a \in Activation /\ a.at = "user"
        BY <1>4 DEF Idle, Activation
      <4>2. SetStack(p, Append(stack[p], a))
        BY <1>3, <3>1 DEF ReadRequest
      <4> HIDE DEF a
      <4> QED
        BY <4>1, <4>2
    <3>2. CASE ReadDestroy(p)
      <4> DEFINE a == [Idle EXCEPT !.at = "write", !.op = "ack", !.rpkt = Incoming(p).refs]
      <4>1. a \in Activation /\ a.at = "write"
        BY <1>4 DEF Idle, Activation
      <4>2. SetStack(p, Append(stack[p], a))
        BY <1>3, <3>2 DEF ReadDestroy
      <4> HIDE DEF a
      <4> QED
        BY <4>1, <4>2
    <3> QED
      BY <1>5, <3>1, <3>2
  <2> QED
    BY <1>1, <2>1, <2>2, MapPush
<1>6. CASE ReadReply(p) \/ ReadAck(p)
  <2>1. ~Asks(Incoming(p).op)
    BY <1>6 DEF ReadReply, ReadAck, Read, Arrived, Asks
  <2>2. PICK a \in Activation : a.at \in {"user", "write"} /\ SetCur(p, a)
    <3>1. CASE ReadReply(p)
      <4> DEFINE a == Resumed(p)
      <4>1. a \in Activation /\ a.at = "user"
        BY <1>4 DEF Resumed, Activation
      <4>2. SetCur(p, a)
        BY <1>3, <3>1 DEF ReadReply
      <4> HIDE DEF a
      <4> QED
        BY <4>1, <4>2
    <3>2. CASE ReadAck(p)
      <4> DEFINE a == [Cur(p) EXCEPT !.at = "write", !.victim = {}]
      <4>1. a \in Activation /\ a.at = "write"
        BY <1>4 DEF Activation
      <4>2. SetCur(p, a)
        BY <1>3, <3>2 DEF ReadAck
      <4> HIDE DEF a
      <4> QED
        BY <4>1, <4>2
    <3> QED
      BY <1>6, <3>1, <3>2
  <2>3. Fits(Last(stack[p]), Incoming(p).op) /\ Well(p, stack[p]) /\ stack[p] \in Seq(Activation)
    BY <1>1, TakenOff
  <2>4. Len(stack[p]) \in 1 .. Len(stack[p]) /\ Cur(p) = Last(stack[p])
    BY <1>2, <2>3, StackLast DEF Cur, Last
  <2>5. Cur(p).op # "hello"
    BY <2>1, <2>3, <2>4 DEF Fits, Asks, Well, Last
  <2> QED
    BY <1>1, <2>1, <2>2, <2>5, MapResume
<1> QED
  BY <1>5, <1>6

LEMMA MapInit == Init /\ IInv /\ Nest => Call!Init
<1> SUFFICES ASSUME Init, IInv, Nest PROVE Call!Init
  OBVIOUS
<1> DEFINE a == [Idle EXCEPT !.at = "wait", !.op = "call"]
           b == [Idle EXCEPT !.at = "write", !.op = "hello", !.wres = {TopObj}]
<1>1. a.at = "wait" /\ a.op = "call" /\ b.at = "write" /\ b.op = "hello"
  BY DEF Idle
<1>2. stack = [p \in Peer |-> IF p = Client THEN <<a>> ELSE <<b>>]
  BY DEF Init
<1> HIDE DEF a, b
<1>3. /\ Client \in Peer /\ Server \in Peer /\ Client # Server /\ Peer = {Client, Server}
      /\ stack[Client] = <<a>> /\ stack[Server] = <<b>>
  BY <1>2 DEF Peer, Client, Server
<1>4. \A p \in Peer : handle[p].stream
  BY DEF Init, NewHandle
<1>5. Open /\ AbstractState
  BY <1>4, Abstraction DEF Open
<1> DEFINE s == <<a>>
           r == <<b>>
<1>6. Len(s) = 1 /\ s[1] = a /\ s # << >> /\ Len(r) = 1 /\ r[1] = b /\ r # << >>
  OBVIOUS
<1>7. stack[Client] = s /\ stack[Server] = r
  BY <1>3
<1> HIDE DEF s, r
<1>8. Waits(s) = 1 /\ Waits(r) = 0 /\ Runs(r)
  BY <1>1, <1>6 DEF Waits, Last, Runs
<1>9. Outstanding(Client) = 1 /\ Outstanding(Server) = 0
  BY <1>3, <1>5, <1>7, <1>8 DEF AbstractState, OutOf
<1>10. Goal = Server /\ Travelling = "none"
  BY <1>3, <1>5, <1>7, <1>8 DEF AbstractState
<1>11. Call!Peer = Peer /\ Call!Client = Client /\ Call!Server = Server
  BY DEF Call!Client, Call!Server, Client, Server, Call!Peer, Peer
<1>12. \A p \in Peer : Outstanding(p) = IF p = Client THEN 1 ELSE 0
  BY <1>3, <1>9
<1> QED
  BY <1>5, <1>10, <1>11, <1>12 DEF Call!Init

LEMMA MapNext ==
    ASSUME IInv, Nest, [Next]_vars, IInv', Nest',
           (IInv /\ Nest /\ Open => AbstractState)'
    PROVE  [Call!Next]_Call!vars
<1>1. CASE ~Open
  <2>1. ~Open'
    BY <1>1, NoReopen
  <2>2. (Open)' = Open
    BY <1>1, <2>1 DEF Open
  <2>3. /\ (IF Open THEN Goal ELSE Server)' = (IF Open THEN Goal ELSE Server)
        /\ (IF Open THEN Travelling ELSE "none")' = (IF Open THEN Travelling ELSE "none")
    BY <1>1, <2>1
  <2>4. [p \in Peer |-> IF Open THEN Outstanding(p) ELSE 0]'
          = [p \in Peer |-> IF Open THEN Outstanding(p) ELSE 0]
    BY <1>1, <2>1
  <2> QED
    BY <2>2, <2>3, <2>4 DEF Call!vars
<1>2. CASE Open /\ ~Open'
  <2>1. Call!Peer = Peer /\ Call!Server = Server
    BY DEF Call!Client, Call!Server, Client, Server, Call!Peer, Peer
  <2>2. Call!Disconnect
    BY <1>2, <2>1 DEF Call!Disconnect
  <2> QED
    BY <2>2 DEF Call!Next
<1>3. CASE Open /\ Open'
  <2>1. AbstractState /\ AbstractState'
    BY <1>3, Abstraction
  <2>2. Call!Peer = Peer
    BY DEF Call!Client, Call!Server, Client, Server, Call!Peer, Peer
  <2>3. CASE UNCHANGED vars
    <3>1. PICK p \in Peer : Runs(stack[p]) \/ chan[p] # << >>
      BY <1>3, SomeToken
    <3>2. \A r \in Peer : Outstanding(r)' = Outstanding(r)
      BY <2>3 DEF vars, Outstanding
    <3>3. Goal' = Goal /\ Travelling' = Travelling
      BY <2>1, <2>3, <3>1 DEF vars, AbstractState
    <3> QED
      BY <1>3, <2>2, <3>2, <3>3 DEF Call!vars
  <2>4. CASE Next
    <3> PICK p \in Peer :
          \/ Invoke(p) \/ Answer(p) \/ Keep(p) \/ Drop(p)
          \/ GcSkip(p) \/ GcDestroy(p) \/ WriteCall(p) \/ WriteReply(p) \/ WriteFails(p)
          \/ ReadRequest(p) \/ ReadDestroy(p) \/ ReadReply(p) \/ ReadAck(p) \/ ReadFails(p)
      BY <2>4 DEF Next
    <3>1. CASE Invoke(p) \/ Answer(p) \/ Keep(p) \/ Drop(p) \/ GcSkip(p)
      BY <1>3, <2>1, <3>1, MapCode
    <3>2. CASE GcDestroy(p) \/ WriteCall(p) \/ WriteReply(p)
      BY <1>3, <2>1, <2>2, <3>2, MapWrite DEF Call!Next
    <3>3. CASE ReadRequest(p) \/ ReadDestroy(p) \/ ReadReply(p) \/ ReadAck(p)
      BY <1>3, <2>1, <2>2, <3>3, MapRead DEF Call!Next
    <3>4. CASE WriteFails(p)
      BY <1>3, <3>4, WriteCloses
    <3>5. CASE ReadFails(p)
      BY <1>3, <3>5, LoopCloses DEF ReadFails
    <3> QED
      BY <3>1, <3>2, <3>3, <3>4, <3>5
  <2> QED
    BY <2>3, <2>4
<1> QED
  BY <1>1, <1>2, <1>3

(* The protocol implements RemoteCall: whatever nests, collects and fails,  *)
(* one token passes between the ends and every reply returns the innermost  *)
(* call of the side it reaches, until the connection is lost.               *)
THEOREM ProtocolImplementsCall == Spec => ImplementsCall
<1>1. Init /\ IInv /\ Nest => Call!Init
  BY MapInit
<1>2. (IInv /\ Nest) /\ [Next]_vars /\ (IInv /\ Nest)'
        /\ (IInv /\ Nest /\ Open => AbstractState)'
        => [Call!Next]_Call!vars
  BY MapNext
<1>3. IInv /\ Nest /\ Open => AbstractState
  BY Abstraction
<1> QED
  BY <1>1, <1>2, <1>3, Nesting, PTL DEF Spec, ImplementsCall, Call!Spec

-----------------------------------------------------------------------------
(***************************************************************************)
(* The bookkeeping of references.  Counted: the counter of a proxy is the  *)
(* number of its holders, those of the application (f) and those on the    *)
(* stack (s).  Tidy: what the activations may hold.  Alive: which proxies  *)
(* exist, and what a closed handle keeps; V are the proxies being          *)
(* destroyed, and nothing can bring them back.                             *)
(***************************************************************************)
One(S, o) == IF o \in S THEN 1 ELSE 0

Held(s, o) ==
    Cardinality({i \in DOMAIN s : o \in s[i].wres})
      + Cardinality({i \in DOMAIN s : o \in s[i].rpkt})

Counted(p, h, s, f) ==
    \A o \in Remote(p) : f[o] \in Nat /\ h.refcount[o] = f[o] + Held(s, o)

TidyAt(p, a) ==
    /\ a.at = "user" => a.wres = {}
    /\ a.op = "hello" => a.wres \cap Remote(p) = {} /\ a.rpkt = {}
    /\ a.op = "ack" => a.wres = {}
    /\ a.at # "gc" => a.victim = {}
    /\ a.victim \subseteq Remote(p)

Tidy(p, s) == \A i \in 1 .. Len(s) : TidyAt(p, s[i])

Alive(p, h, V) ==
    /\ h.destr_cand \subseteq Remote(p) /\ h.localobjmap \subseteq Local(p)
    /\ \A o \in Remote(p) : h.refcount[o] \in Nat
    /\ h.remoteobjmap = {o \in Remote(p) : h.refcount[o] > 0} \cup h.destr_cand \cup V
    /\ \A o \in V : h.refcount[o] = 0 /\ o \notin h.destr_cand
    /\ ~h.stream => h.destr_cand = {} /\ h.localobjmap = {} /\ V = {}

VictimOf(s) == IF s = << >> THEN {} ELSE Last(s).victim

(* op_destroy names an object of the side that reads it.                    *)
DestroysLocal(p, c) ==
    \A i \in 1 .. Len(c) : c[i].op = "destroy" => c[i].refs \subseteq Local(p)

BooksOf(p, h, s, c, f) ==
    /\ Counted(p, h, s, f)
    /\ Tidy(p, s)
    /\ Alive(p, h, VictimOf(s))
    /\ DestroysLocal(p, c)

Books == \A p \in Peer : BooksOf(p, handle[p], stack[p], chan[p], app[p])

-----------------------------------------------------------------------------
(* How the changes of the stack change what it holds.                       *)

LEMMA HoldersFinite ==
    ASSUME NEW s \in Seq(Activation), NEW o
    PROVE  /\ Cardinality({i \in DOMAIN s : o \in s[i].wres}) \in Nat
           /\ Cardinality({i \in DOMAIN s : o \in s[i].rpkt}) \in Nat
<1> DEFINE X == {i \in DOMAIN s : o \in s[i].wres}
           Y == {i \in DOMAIN s : o \in s[i].rpkt}
<1>1. DOMAIN s = 1 .. Len(s) /\ Len(s) \in Nat
  OBVIOUS
<1>2. IsFiniteSet(1 .. Len(s))
  BY <1>1, FS_Interval
<1>3. X \in SUBSET (1 .. Len(s)) /\ Y \in SUBSET (1 .. Len(s))
  BY <1>1
<1> HIDE DEF X, Y
<1>4. Cardinality(X) \in Nat /\ Cardinality(Y) \in Nat
  BY <1>2, <1>3, FS_Subset, FS_CardinalityType
<1> QED
  BY <1>4 DEF X, Y

LEMMA HeldNat ==
    ASSUME NEW s \in Seq(Activation), NEW o
    PROVE  Held(s, o) \in Nat
<1> DEFINE X == {i \in DOMAIN s : o \in s[i].wres}
           Y == {i \in DOMAIN s : o \in s[i].rpkt}
<1>1. Cardinality(X) \in Nat /\ Cardinality(Y) \in Nat
  BY HoldersFinite
<1>2. Held(s, o) = Cardinality(X) + Cardinality(Y)
  BY DEF Held
<1> HIDE DEF X, Y
<1> QED
  BY <1>1, <1>2

(* One element more in a set of indices, or none.                           *)
LEMMA CountTop ==
    ASSUME NEW n \in Nat, NEW X \in SUBSET (1 .. n + 1), NEW Y \in SUBSET (1 .. n),
           \A i \in 1 .. n : i \in X <=> i \in Y
    PROVE  /\ Cardinality(Y) \in Nat
           /\ Cardinality(X) = Cardinality(Y) + One(X, n + 1)
<1>1. IsFiniteSet(1 .. n)
  BY FS_Interval
<1>2. IsFiniteSet(Y) /\ Cardinality(Y) \in Nat
  BY <1>1, FS_Subset, FS_CardinalityType
<1>3. n + 1 \notin Y
  OBVIOUS
<1>6. \A i \in X : i \in 1 .. n \/ i = n + 1
  OBVIOUS
<1>4. CASE n + 1 \in X
  <2>1. X = Y \cup {n + 1}
    <3>1. \A i \in X : i \in Y \cup {n + 1}
      BY <1>6
    <3>2. \A i \in Y \cup {n + 1} : i \in X
      BY <1>4
    <3> QED
      BY <3>1, <3>2
  <2>2. Cardinality(Y \cup {n + 1}) = Cardinality(Y) + 1
    BY <1>2, <1>3, FS_AddElement
  <2> QED
    BY <1>2, <1>4, <2>1, <2>2 DEF One
<1>5. CASE n + 1 \notin X
  <2>1. X = Y
    <3>1. \A i \in X : i \in Y
      BY <1>5, <1>6
    <3>2. \A i \in Y : i \in X
      OBVIOUS
    <3> QED
      BY <3>1, <3>2
  <2> QED
    BY <1>2, <1>5, <2>1 DEF One
<1> QED
  BY <1>4, <1>5

(* t has one activation on top of those of s.                               *)
LEMMA HeldTop ==
    ASSUME NEW s \in Seq(Activation), NEW t \in Seq(Activation), Len(t) = Len(s) + 1,
           \A i \in 1 .. Len(s) : t[i] = s[i], NEW o
    PROVE  /\ Held(s, o) \in Nat
           /\ Held(t, o) = Held(s, o) + One(Last(t).wres, o) + One(Last(t).rpkt, o)
<1> PICK n \in Nat : n = Len(s)
  OBVIOUS
<1>1. DOMAIN s = 1 .. n /\ DOMAIN t = 1 .. n + 1 /\ Len(t) = n + 1
  OBVIOUS
<1> DEFINE X == {i \in DOMAIN t : o \in t[i].wres}
           Y == {i \in DOMAIN s : o \in s[i].wres}
           U == {i \in DOMAIN t : o \in t[i].rpkt}
           W == {i \in DOMAIN s : o \in s[i].rpkt}
<1>2. X \in SUBSET (1 .. n + 1) /\ Y \in SUBSET (1 .. n) /\ \A i \in 1 .. n : i \in X <=> i \in Y
  BY <1>1
<1>3. U \in SUBSET (1 .. n + 1) /\ W \in SUBSET (1 .. n) /\ \A i \in 1 .. n : i \in U <=> i \in W
  BY <1>1
<1>4. One(X, n + 1) = One(Last(t).wres, o) /\ One(U, n + 1) = One(Last(t).rpkt, o)
  BY <1>1 DEF One, Last
<1>5. Held(t, o) = Cardinality(X) + Cardinality(U) /\ Held(s, o) = Cardinality(Y) + Cardinality(W)
  BY DEF Held
<1> HIDE DEF X, Y, U, W
<1>6. Cardinality(Y) \in Nat /\ Cardinality(X) = Cardinality(Y) + One(X, n + 1)
  BY <1>2, CountTop
<1>7. Cardinality(W) \in Nat /\ Cardinality(U) = Cardinality(W) + One(U, n + 1)
  BY <1>3, CountTop
<1>8. One(X, n + 1) \in Nat /\ One(U, n + 1) \in Nat
  BY DEF One
<1> QED
  BY <1>4, <1>5, <1>6, <1>7, <1>8

LEMMA HeldPush ==
    ASSUME NEW s \in Seq(Activation), NEW a \in Activation, NEW o
    PROVE  /\ Held(s, o) \in Nat
           /\ Held(Append(s, a), o) = Held(s, o) + One(a.wres, o) + One(a.rpkt, o)
<1> DEFINE t == Append(s, a)
<1>1. /\ t \in Seq(Activation) /\ Len(t) = Len(s) + 1 /\ t[Len(t)] = a
      /\ \A i \in 1 .. Len(s) : t[i] = s[i]
  BY StackPush
<1> HIDE DEF t
<1>2. /\ Held(s, o) \in Nat
      /\ Held(t, o) = Held(s, o) + One(Last(t).wres, o) + One(Last(t).rpkt, o)
  BY <1>1, HeldTop
<1> QED
  BY <1>1, <1>2 DEF Last, t

LEMMA HeldPop ==
    ASSUME NEW s \in Seq(Activation), s # << >>, NEW o
    PROVE  LET t == SubSeq(s, 1, Len(s) - 1)
           IN  /\ t \in Seq(Activation)
               /\ Held(t, o) \in Nat
               /\ Held(s, o) = Held(t, o) + One(Last(s).wres, o) + One(Last(s).rpkt, o)
<1> DEFINE t == SubSeq(s, 1, Len(s) - 1)
<1>1. /\ t \in Seq(Activation) /\ Len(t) = Len(s) - 1 /\ Len(s) \in Nat \ {0}
      /\ \A i \in 1 .. Len(s) - 1 : t[i] = s[i]
  BY StackPop, StackLast
<1> HIDE DEF t
<1>2. Len(s) = Len(t) + 1 /\ \A i \in 1 .. Len(t) : s[i] = t[i]
  BY <1>1
<1>3. /\ Held(t, o) \in Nat
      /\ Held(s, o) = Held(t, o) + One(Last(s).wres, o) + One(Last(s).rpkt, o)
  BY <1>1, <1>2, HeldTop
<1> QED
  BY <1>1, <1>3 DEF t

(* The last activation is replaced: what it held is given up, what the new  *)
(* one holds is added.                                                      *)
LEMMA HeldReplace ==
    ASSUME NEW s \in Seq(Activation), s # << >>, NEW a \in Activation, NEW o
    PROVE  LET t == [s EXCEPT ![Len(s)] = a]
               r == SubSeq(s, 1, Len(s) - 1)
           IN  /\ Held(r, o) \in Nat
               /\ Held(s, o) = Held(r, o) + One(Last(s).wres, o) + One(Last(s).rpkt, o)
               /\ Held(t, o) = Held(r, o) + One(a.wres, o) + One(a.rpkt, o)
<1> DEFINE t == [s EXCEPT ![Len(s)] = a]
           r == SubSeq(s, 1, Len(s) - 1)
<1>1. /\ t \in Seq(Activation) /\ Len(t) = Len(s) /\ t[Len(t)] = a
      /\ \A i \in 1 .. Len(s) - 1 : t[i] = s[i]
  BY StackReplace
<1>2. /\ r \in Seq(Activation) /\ Len(r) = Len(s) - 1 /\ Len(s) \in Nat \ {0}
      /\ \A i \in 1 .. Len(s) - 1 : r[i] = s[i]
  BY StackPop, StackLast
<1>3. /\ Held(r, o) \in Nat
      /\ Held(s, o) = Held(r, o) + One(Last(s).wres, o) + One(Last(s).rpkt, o)
  BY HeldPop
<1> HIDE DEF t, r
<1>4. Len(t) = Len(r) + 1 /\ \A i \in 1 .. Len(r) : t[i] = r[i]
  BY <1>1, <1>2
<1>5. Held(t, o) = Held(r, o) + One(Last(t).wres, o) + One(Last(t).rpkt, o)
  BY <1>1, <1>2, <1>4, HeldTop
<1> QED
  BY <1>1, <1>3, <1>5 DEF Last, t, r

(* Objects of the own side are not counted.                                 *)
LEMMA OneProxy ==
    ASSUME NEW p \in Peer, NEW o \in Remote(p), NEW S
    PROVE  One(S \cap Remote(p), o) = One(S, o) /\ One(S, o) \in {0, 1}
  BY DEF One

(* An exception drops the packet of the activation it leaves.               *)
LEMMA HeldFailure ==
    ASSUME NEW p \in Peer, NEW s \in Seq(Activation), s # << >>, Well(p, s), Tidy(p, s),
           NEW o \in Remote(p)
    PROVE  /\ Held(AfterFailure(s), o) \in Nat
           /\ Held(s, o) = Held(AfterFailure(s), o) + One(Last(s).wres, o)
<1>1. Len(s) \in Nat \ {0} /\ Last(s) \in Activation /\ Len(s) \in 1 .. Len(s)
  BY StackLast DEF Last
<1>2. TidyAt(p, Last(s))
  BY <1>1 DEF Tidy, Last
<1> DEFINE r == SubSeq(s, 1, Len(s) - 1)
<1>3. CASE Last(s).op = "hello"
  <2>1. AfterFailure(s) = r
    BY <1>3 DEF AfterFailure, Last
  <2>2. One(Last(s).wres, o) = 0 /\ One(Last(s).rpkt, o) = 0
    BY <1>2, <1>3 DEF TidyAt, One
  <2>3. /\ Held(r, o) \in Nat
        /\ Held(s, o) = Held(r, o) + One(Last(s).wres, o) + One(Last(s).rpkt, o)
    BY HeldPop
  <2> HIDE DEF r
  <2> QED
    BY <2>1, <2>2, <2>3
<1>4. CASE Last(s).op # "hello"
  <2> DEFINE b == [s[Len(s)] EXCEPT !.at = "user", !.op = "none", !.wres = {}]
  <2>1. AfterFailure(s) = [s EXCEPT ![Len(s)] = b]
    BY <1>4 DEF AfterFailure, Last
  <2>2. b \in Activation /\ b.wres = {} /\ b.rpkt = Last(s).rpkt
    BY <1>1 DEF Activation, Last
  <2> HIDE DEF b
  <2>3. /\ Held(r, o) \in Nat
        /\ Held(s, o) = Held(r, o) + One(Last(s).wres, o) + One(Last(s).rpkt, o)
        /\ Held([s EXCEPT ![Len(s)] = b], o) = Held(r, o) + One(b.wres, o) + One(b.rpkt, o)
    BY <2>2, HeldReplace
  <2>4. One(b.wres, o) = 0 /\ One(b.rpkt, o) = One(Last(s).rpkt, o)
        /\ One(Last(s).rpkt, o) \in {0, 1} /\ One(Last(s).wres, o) \in {0, 1}
    BY <2>2 DEF One
  <2> HIDE DEF r
  <2> QED
    BY <2>1, <2>3, <2>4
<1> QED
  BY <1>3, <1>4

-----------------------------------------------------------------------------
(* The changes of the stack keep it tidy.                                   *)

LEMMA TidyLast ==
    ASSUME NEW p \in Peer, NEW s \in Seq(Activation), s # << >>, Tidy(p, s)
    PROVE  TidyAt(p, Last(s)) /\ VictimOf(s) = Last(s).victim
<1>1. Len(s) \in 1 .. Len(s)
  BY StackLast
<1> QED
  BY <1>1 DEF Tidy, Last, VictimOf

LEMMA TidyReplace ==
    ASSUME NEW p \in Peer, NEW s \in Seq(Activation), s # << >>, Tidy(p, s),
           NEW a \in Activation, TidyAt(p, a)
    PROVE  LET t == [s EXCEPT ![Len(s)] = a]
           IN  Tidy(p, t) /\ VictimOf(t) = a.victim
<1> DEFINE t == [s EXCEPT ![Len(s)] = a]
<1>1. /\ t \in Seq(Activation) /\ t # << >> /\ Len(t) = Len(s) /\ t[Len(t)] = a
      /\ \A i \in 1 .. Len(s) - 1 : t[i] = s[i]
  BY StackReplace
<1>2. Len(s) \in Nat \ {0}
  BY StackLast
<1> HIDE DEF t
<1>3. \A i \in 1 .. Len(t) : i \in 1 .. Len(s) - 1 \/ i = Len(t)
  BY <1>1, <1>2
<1>4. Tidy(p, t)
  BY <1>1, <1>2, <1>3 DEF Tidy
<1> QED
  BY <1>1, <1>4 DEF VictimOf, Last, t

LEMMA TidyPop ==
    ASSUME NEW p \in Peer, NEW s \in Seq(Activation), Len(s) > 1, Well(p, s), Tidy(p, s)
    PROVE  LET t == SubSeq(s, 1, Len(s) - 1)
           IN  Tidy(p, t) /\ VictimOf(t) = {}
<1> DEFINE t == SubSeq(s, 1, Len(s) - 1)
<1>1. s # << >> /\ Len(s) \in Nat
  OBVIOUS
<1>2. /\ t \in Seq(Activation) /\ t # << >> /\ Len(t) = Len(s) - 1 /\ Last(t).at = "wait"
  BY WellPop
<1>3. \A i \in 1 .. Len(s) - 1 : t[i] = s[i]
  BY <1>1, StackPop
<1> HIDE DEF t
<1>4. Tidy(p, t)
  BY <1>1, <1>2, <1>3 DEF Tidy
<1>5. TidyAt(p, Last(t)) /\ VictimOf(t) = Last(t).victim
  BY <1>2, <1>4, TidyLast
<1> QED
  BY <1>2, <1>4, <1>5 DEF TidyAt, t

LEMMA TidyPush ==
    ASSUME NEW p \in Peer, NEW s \in Seq(Activation), Tidy(p, s),
           NEW a \in Activation, TidyAt(p, a)
    PROVE  LET t == Append(s, a)
           IN  Tidy(p, t) /\ VictimOf(t) = a.victim
<1> DEFINE t == Append(s, a)
<1>1. /\ t \in Seq(Activation) /\ t # << >> /\ Len(t) = Len(s) + 1 /\ t[Len(t)] = a
      /\ \A i \in 1 .. Len(s) : t[i] = s[i]
  BY StackPush
<1>2. Len(s) \in Nat
  OBVIOUS
<1> HIDE DEF t
<1>3. \A i \in 1 .. Len(t) : i \in 1 .. Len(s) \/ i = Len(t)
  BY <1>1, <1>2
<1>4. Tidy(p, t)
  BY <1>1, <1>3 DEF Tidy
<1> QED
  BY <1>1, <1>4 DEF VictimOf, Last, t

LEMMA TidyFailure ==
    ASSUME NEW p \in Peer, NEW s \in Seq(Activation), s # << >>, Well(p, s), Tidy(p, s),
           Last(s).at # "gc"
    PROVE  Tidy(p, AfterFailure(s)) /\ VictimOf(AfterFailure(s)) = {}
<1>1. Len(s) \in Nat \ {0} /\ Last(s) \in Activation /\ Len(s) \in 1 .. Len(s)
  BY StackLast DEF Last
<1>2. TidyAt(p, Last(s))
  BY TidyLast
<1>3. CASE Last(s).op = "hello"
  <2>1. Len(s) = 1
    BY <1>1, <1>3 DEF Well, Last
  <2>2. AfterFailure(s) = SubSeq(s, 1, 0) /\ SubSeq(s, 1, 0) = << >>
    BY <1>3, <2>1, SubSeqEmpty DEF AfterFailure, Last
  <2> DEFINE e == << >>
  <2>3. Len(e) = 0 /\ e = << >>
    OBVIOUS
  <2> HIDE DEF e
  <2>4. Tidy(p, e) /\ VictimOf(e) = {}
    BY <2>3 DEF Tidy, VictimOf
  <2> QED
    BY <2>2, <2>3, <2>4
<1>4. CASE Last(s).op # "hello"
  <2> DEFINE b == [s[Len(s)] EXCEPT !.at = "user", !.op = "none", !.wres = {}]
  <2>1. AfterFailure(s) = [s EXCEPT ![Len(s)] = b]
    BY <1>4 DEF AfterFailure, Last
  <2>2. /\ b \in Activation /\ b.at = "user" /\ b.op = "none" /\ b.wres = {}
        /\ b.victim = Last(s).victim
    BY <1>1 DEF Activation, Last
  <2> HIDE DEF b
  <2>3. TidyAt(p, b) /\ b.victim = {}
    BY <1>2, <2>2 DEF TidyAt
  <2>4. Tidy(p, [s EXCEPT ![Len(s)] = b]) /\ VictimOf([s EXCEPT ![Len(s)] = b]) = b.victim
    BY <2>2, <2>3, TidyReplace
  <2> QED
    BY <2>1, <2>3, <2>4
<1> QED
  BY <1>3, <1>4

-----------------------------------------------------------------------------
(* The member functions: counters, and which proxies exist.                 *)

(* release counts down, whatever it closes or deletes.                      *)
LEMMA ReleaseCounts ==
    ASSUME NEW h \in Handle, NEW S \in SUBSET Objects
    PROVE  \A o \in Objects : Release(h, S).refcount[o] = h.refcount[o] - One(S, o)
<1> DEFINE g == [h EXCEPT !.refcount = Minus(@, S)]
           dead == {o \in S : g.refcount[o] = 0}
           marked == [g EXCEPT !.destr_cand = @ \cup (dead \ h.owner)]
<1>1. g.refcount = Minus(h.refcount, S)
  BY DEF Handle
<1>2. marked.refcount = g.refcount
  BY DEF Handle
<1>3. Delete(g, dead).refcount = g.refcount
  BY DEF Delete
<1>4. Delete(CloseConnection(marked), dead).refcount = marked.refcount
  BY DEF Delete, CloseConnection
<1>5. Release(h, S) = IF ~h.stream THEN Delete(g, dead)
                      ELSE IF dead \cap h.owner = {} THEN marked
                      ELSE Delete(CloseConnection(marked), dead)
  BY DEF Release
<1>6. \A o \in Objects : Minus(h.refcount, S)[o] = h.refcount[o] - One(S, o)
  BY DEF Minus, One
<1> HIDE DEF g, dead, marked
<1> QED
  BY <1>1, <1>2, <1>3, <1>4, <1>5, <1>6

(* A proxy that is referenced may be referenced once more.                  *)
LEMMA AliveAddRef ==
    ASSUME NEW p \in Peer, NEW h \in Handle, NEW V, Alive(p, h, V),
           NEW S \in SUBSET Remote(p), \A o \in S : h.refcount[o] > 0
    PROVE  /\ Alive(p, AddRef(h, S), V)
           /\ \A o \in Objects : AddRef(h, S).refcount[o] = h.refcount[o] + One(S, o)
<1> DEFINE g == AddRef(h, S)
<1>1. /\ g.stream = h.stream /\ g.remoteobjmap = h.remoteobjmap
      /\ g.destr_cand = h.destr_cand /\ g.localobjmap = h.localobjmap
  BY DEF AddRef, Handle
<1>2. \A o \in Objects : g.refcount[o] = h.refcount[o] + One(S, o)
  BY DEF AddRef, Handle, Plus, One
<1> HIDE DEF g
<1>3. \A o \in Remote(p) : o \in Objects /\ h.refcount[o] \in Nat
  BY LocalRemote DEF Alive
<1>4. \A o \in Remote(p) : g.refcount[o] \in Nat /\ (g.refcount[o] > 0 <=> h.refcount[o] > 0)
  BY <1>2, <1>3 DEF One
<1>5. \A o \in V : g.refcount[o] = h.refcount[o]
  <2> TAKE o \in V
  <2>1. h.refcount[o] = 0 /\ o \notin S
    BY DEF Alive
  <2>2. CASE o \in Remote(p)
    BY <1>2, <1>3, <2>1, <2>2 DEF One
  <2>3. CASE o \notin Remote(p)
    <3>1. o \in h.remoteobjmap /\ o \in Objects
      BY DEF Alive, Handle
    <3> QED
      BY <1>2, <2>1, <3>1 DEF One
  <2> QED
    BY <2>2, <2>3
<1> QED
  BY <1>1, <1>2, <1>4, <1>5 DEF Alive, g

(* The fields of a handle after the member functions.                       *)
LEMMA DeleteFields ==
    ASSUME NEW h \in Handle, NEW S
    PROVE  LET g == Delete(h, S)
           IN  /\ g.remoteobjmap = h.remoteobjmap \ S /\ g.owner = h.owner \ S
               /\ g.refcount = h.refcount /\ g.destr_cand = h.destr_cand
               /\ g.localobjmap = h.localobjmap /\ g.stream = h.stream
  BY DEF Delete, Handle

LEMMA CloseFields ==
    ASSUME NEW h \in Handle
    PROVE  LET g == CloseConnection(h)
               dead == {o \in h.destr_cand : h.refcount[o] = 0}
           IN  /\ g.remoteobjmap = h.remoteobjmap \ dead /\ g.owner = h.owner \ dead
               /\ g.refcount = h.refcount /\ g.destr_cand = {}
               /\ g.localobjmap = {} /\ g.stream = FALSE
  BY DEF CloseConnection, Delete, Handle

LEMMA ReleaseFields ==
    ASSUME NEW h \in Handle, NEW S \in SUBSET Objects
    PROVE  LET dead == {o \in S : h.refcount[o] = 1}
               g == Release(h, S)
           IN  /\ ~h.stream =>
                    /\ g.remoteobjmap = h.remoteobjmap \ dead /\ g.owner = h.owner \ dead
                    /\ g.destr_cand = h.destr_cand
                    /\ g.localobjmap = h.localobjmap /\ g.stream = h.stream
               /\ h.stream /\ dead \cap h.owner = {} =>
                    /\ g.remoteobjmap = h.remoteobjmap /\ g.owner = h.owner
                    /\ g.destr_cand = h.destr_cand \cup dead
                    /\ g.localobjmap = h.localobjmap /\ g.stream = h.stream
               /\ h.stream /\ dead \cap h.owner # {} =>
                    /\ g.remoteobjmap =
                         h.remoteobjmap \ (dead \cup {o \in h.destr_cand : g.refcount[o] = 0})
                    /\ g.owner = h.owner \ (dead \cup {o \in h.destr_cand : g.refcount[o] = 0})
                    /\ g.destr_cand = {} /\ g.localobjmap = {} /\ g.stream = FALSE
<1> DEFINE g == [h EXCEPT !.refcount = Minus(@, S)]
           dead == {o \in S : g.refcount[o] = 0}
           dead1 == {o \in S : h.refcount[o] = 1}
           marked == [g EXCEPT !.destr_cand = @ \cup (dead \ h.owner)]
<1>1. /\ g \in Handle /\ g.refcount = Minus(h.refcount, S)
      /\ g.remoteobjmap = h.remoteobjmap /\ g.owner = h.owner
      /\ g.destr_cand = h.destr_cand /\ g.localobjmap = h.localobjmap /\ g.stream = h.stream
  BY MinusType DEF Handle
<1>2. \A o \in S : g.refcount[o] = h.refcount[o] - 1 /\ h.refcount[o] \in Int
  BY <1>1 DEF Minus, Handle
<1> HIDE DEF g
<1>3. dead = dead1
  BY <1>2
<1>4. dead \in SUBSET Objects
  OBVIOUS
<1> HIDE DEF dead, dead1
<1>5. /\ marked \in Handle /\ marked.refcount = g.refcount
      /\ marked.remoteobjmap = h.remoteobjmap /\ marked.owner = h.owner
      /\ marked.destr_cand = h.destr_cand \cup (dead \ h.owner)
      /\ marked.localobjmap = h.localobjmap /\ marked.stream = h.stream
  BY <1>1, <1>4 DEF Handle
<1>6. Release(h, S) = IF ~h.stream THEN Delete(g, dead)
                      ELSE IF dead \cap h.owner = {} THEN marked
                      ELSE Delete(CloseConnection(marked), dead)
  BY DEF Release, g, dead, marked
<1> HIDE DEF marked
<1>7. CASE ~h.stream
  BY <1>1, <1>3, <1>6, <1>7, DeleteFields DEF dead1
<1>8. CASE h.stream /\ dead \cap h.owner = {}
  <2>1. dead \ h.owner = dead
    BY <1>8
  <2> QED
    BY <1>3, <1>5, <1>6, <1>8, <2>1 DEF dead1
<1>9. CASE h.stream /\ dead \cap h.owner # {}
  <2> DEFINE closed == CloseConnection(marked)
             gone == {o \in marked.destr_cand : marked.refcount[o] = 0}
  <2>1. /\ closed \in Handle
        /\ closed.remoteobjmap = marked.remoteobjmap \ gone /\ closed.owner = marked.owner \ gone
        /\ closed.refcount = marked.refcount /\ closed.destr_cand = {}
        /\ closed.localobjmap = {} /\ closed.stream = FALSE
    BY <1>5, CloseConnectionType, CloseFields
  <2>2. Release(h, S) = Delete(closed, dead)
    BY <1>6, <1>9
  <2>3. gone \cup dead = dead \cup {o \in h.destr_cand : g.refcount[o] = 0}
    BY <1>5 DEF dead
  <2> HIDE DEF closed, gone
  <2> DEFINE r == Release(h, S)
  <2>4. /\ r.remoteobjmap = closed.remoteobjmap \ dead /\ r.owner = closed.owner \ dead
        /\ r.refcount = g.refcount /\ r.destr_cand = {} /\ r.localobjmap = {} /\ r.stream = FALSE
    BY <1>5, <2>1, <2>2, DeleteFields
  <2>5. /\ r.remoteobjmap = h.remoteobjmap \ (gone \cup dead)
        /\ r.owner = h.owner \ (gone \cup dead)
    BY <1>5, <2>1, <2>4
  <2> HIDE DEF r
  <2>6. /\ r.remoteobjmap = h.remoteobjmap \ (dead \cup {o \in h.destr_cand : r.refcount[o] = 0})
        /\ r.owner = h.owner \ (dead \cup {o \in h.destr_cand : r.refcount[o] = 0})
    BY <2>3, <2>4, <2>5
  <2> QED
    BY <1>3, <1>9, <2>4, <2>6 DEF dead1, r
<1> QED
  BY <1>7, <1>8, <1>9

(* Releasing what is held keeps a proxy alive or marks it, and on a closed  *)
(* connection deletes it.                                                   *)
LEMMA AliveRelease ==
    ASSUME NEW p \in Peer, NEW h \in Handle, Alive(p, h, {}),
           NEW S \in SUBSET Remote(p), \A o \in S : h.refcount[o] > 0
    PROVE  Alive(p, Release(h, S), {})
<1> DEFINE r == Release(h, S)
           dead == {o \in S : h.refcount[o] = 1}
           live == {o \in Remote(p) : h.refcount[o] > 0}
           left == {o \in Remote(p) : r.refcount[o] > 0}
<1>1. S \in SUBSET Objects /\ Remote(p) \subseteq Objects
  BY LocalRemote
<1>2. \A o \in Remote(p) : r.refcount[o] = h.refcount[o] - One(S, o) /\ h.refcount[o] \in Nat
  BY <1>1, ReleaseCounts DEF Alive
<1>3. /\ ~h.stream => /\ r.remoteobjmap = h.remoteobjmap \ dead
                      /\ r.destr_cand = h.destr_cand
                      /\ r.localobjmap = h.localobjmap /\ r.stream = h.stream
      /\ h.stream /\ dead \cap h.owner = {} =>
           /\ r.remoteobjmap = h.remoteobjmap /\ r.destr_cand = h.destr_cand \cup dead
           /\ r.localobjmap = h.localobjmap /\ r.stream = h.stream
      /\ h.stream /\ dead \cap h.owner # {} =>
           /\ r.remoteobjmap =
                h.remoteobjmap \ (dead \cup {o \in h.destr_cand : r.refcount[o] = 0})
           /\ r.destr_cand = {} /\ r.localobjmap = {} /\ r.stream = FALSE
  BY <1>1, ReleaseFields
<1> HIDE DEF r
<1>4. \A o \in Remote(p) : r.refcount[o] \in Nat
  <2> TAKE o \in Remote(p)
  <2>1. CASE o \in S
    BY <1>2, <2>1 DEF One
  <2>2. CASE o \notin S
    BY <1>2, <2>2 DEF One
  <2> QED
    BY <2>1, <2>2
<1>5. \A o \in Remote(p) : o \in left <=> o \in live /\ o \notin dead
  <2> TAKE o \in Remote(p)
  <2>1. CASE o \in S
    BY <1>2, <2>1 DEF One
  <2>2. CASE o \notin S
    BY <1>2, <2>2 DEF One
  <2> QED
    BY <2>1, <2>2
<1>6. \A o \in Remote(p) : r.refcount[o] = 0 <=> o \notin left
  BY <1>4
<1>7. /\ h.remoteobjmap = live \cup h.destr_cand /\ h.destr_cand \subseteq Remote(p)
      /\ h.localobjmap \subseteq Local(p) /\ dead \subseteq live
      /\ ~h.stream => h.destr_cand = {} /\ h.localobjmap = {}
  BY DEF Alive
<1>8. live \subseteq Remote(p) /\ left \subseteq Remote(p) /\ dead \subseteq Remote(p)
  OBVIOUS
<1> HIDE DEF live, left, dead
<1>9. /\ r.destr_cand \subseteq Remote(p) /\ r.localobjmap \subseteq Local(p)
      /\ ~r.stream => r.destr_cand = {} /\ r.localobjmap = {}
      /\ r.remoteobjmap = left \cup r.destr_cand
  <2>1. left = live \ dead
    BY <1>5, <1>8
  <2>2. CASE ~h.stream
    BY <1>3, <1>7, <2>1, <2>2
  <2>3. CASE h.stream /\ dead \cap h.owner = {}
    BY <1>3, <1>7, <1>8, <2>1, <2>3
  <2>4. CASE h.stream /\ dead \cap h.owner # {}
    <3>1. {o \in h.destr_cand : r.refcount[o] = 0} = h.destr_cand \ left
      BY <1>6, <1>7
    <3>2. r.remoteobjmap = left
      BY <1>3, <1>7, <2>1, <2>4, <3>1
    <3> QED
      BY <1>3, <2>4, <3>2
  <2> QED
    BY <2>2, <2>3, <2>4
<1> QED
  BY <1>4, <1>9 DEF Alive, left, r

(* close_connection deletes the unreferenced candidates; with it goes the   *)
(* proxy that was being destroyed.                                          *)
IsClosed(p, h, V) ==
    /\ Alive(p, Delete(CloseConnection(h), V), {})
    /\ V = {} => Alive(p, CloseConnection(h), {})
    /\ \A o \in Objects : CloseConnection(h).refcount[o] = h.refcount[o]

LEMMA AliveClose ==
    ASSUME NEW p \in Peer, NEW h \in Handle, NEW V, Alive(p, h, V)
    PROVE  IsClosed(p, h, V)
<1> DEFINE c == CloseConnection(h)
           d == Delete(c, V)
           gone == {o \in h.destr_cand : h.refcount[o] = 0}
           live == {o \in Remote(p) : h.refcount[o] > 0}
<1>1. /\ c \in Handle
      /\ c.remoteobjmap = h.remoteobjmap \ gone /\ c.refcount = h.refcount
      /\ c.destr_cand = {} /\ c.localobjmap = {} /\ c.stream = FALSE
  BY CloseConnectionType, CloseFields
<1> HIDE DEF c
<1>2. /\ d.remoteobjmap = c.remoteobjmap \ V /\ d.refcount = h.refcount
      /\ d.destr_cand = {} /\ d.localobjmap = {} /\ d.stream = FALSE
  BY <1>1, DeleteFields
<1> HIDE DEF d
<1>3. c.remoteobjmap \ V = live
  <2>1. h.remoteobjmap = live \cup h.destr_cand \cup V /\ h.destr_cand \subseteq Remote(p)
    BY DEF Alive
  <2>2. \A o \in h.destr_cand : o \in live \/ o \in gone
    BY DEF Alive
  <2>3. live \cap gone = {} /\ live \cap V = {}
    BY DEF Alive
  <2> HIDE DEF live, gone
  <2> QED
    BY <1>1, <2>1, <2>2, <2>3
<1>4. Alive(p, d, {})
  BY <1>2, <1>3 DEF Alive
<1>5. V = {} => Alive(p, c, {})
  BY <1>1, <1>3 DEF Alive
<1> QED
  BY <1>1, <1>4, <1>5 DEF IsClosed, c, d

(* The proxy whose destruction is acknowledged is deleted.                  *)
LEMMA AliveDelete ==
    ASSUME NEW p \in Peer, NEW h \in Handle, NEW V, Alive(p, h, V)
    PROVE  Alive(p, Delete(h, V), {})
<1> DEFINE d == Delete(h, V)
<1>1. /\ d.remoteobjmap = h.remoteobjmap \ V /\ d.refcount = h.refcount
      /\ d.destr_cand = h.destr_cand /\ d.localobjmap = h.localobjmap /\ d.stream = h.stream
  BY DeleteFields
<1> HIDE DEF d
<1>2. h.remoteobjmap \ V = {o \in Remote(p) : h.refcount[o] > 0} \cup h.destr_cand
  BY DEF Alive
<1> QED
  BY <1>1, <1>2 DEF Alive, d

(* The other member functions.                                              *)
LEMMA AliveSerialize ==
    ASSUME NEW p \in Peer, NEW h \in Handle, NEW V, Alive(p, h, V), h.stream, NEW refs
    PROVE  /\ Alive(p, Serialize(p, h, refs), V)
           /\ Serialize(p, h, refs).refcount = h.refcount
  BY DEF Serialize, Handle, Alive

LEMMA AliveDeserialize ==
    ASSUME NEW p \in Peer, NEW h \in Handle, Alive(p, h, {}), NEW refs
    PROVE  /\ Alive(p, Deserialize(p, h, refs), {})
           /\ \A o \in Remote(p) :
                Deserialize(p, h, refs).refcount[o] = h.refcount[o] + One(refs, o)
<1> DEFINE proxies == refs \cap Remote(p)
           d == Deserialize(p, h, refs)
<1>1. /\ d.remoteobjmap = h.remoteobjmap \cup proxies /\ d.refcount = Plus(h.refcount, proxies)
      /\ d.destr_cand = h.destr_cand /\ d.localobjmap = h.localobjmap /\ d.stream = h.stream
  BY DEF Deserialize, AddRef, Handle
<1>2. \A o \in Remote(p) : o \in Objects /\ h.refcount[o] \in Nat
  BY LocalRemote DEF Alive
<1> HIDE DEF d
<1>3. \A o \in Remote(p) : d.refcount[o] = h.refcount[o] + One(refs, o)
  BY <1>1, <1>2 DEF Plus, One
<1>4. \A o \in Remote(p) :
        d.refcount[o] \in Nat /\ (d.refcount[o] > 0 <=> h.refcount[o] > 0 \/ o \in proxies)
  BY <1>2, <1>3 DEF One
<1>5. {o \in Remote(p) : d.refcount[o] > 0}
        = {o \in Remote(p) : h.refcount[o] > 0} \cup proxies
  BY <1>4
<1>6. d.remoteobjmap = {o \in Remote(p) : d.refcount[o] > 0} \cup d.destr_cand
  BY <1>1, <1>5 DEF Alive
<1> QED
  BY <1>1, <1>3, <1>4, <1>6 DEF Alive, d

-----------------------------------------------------------------------------
(* The kinds of steps.                                                      *)

(* What Books says of side p.                                               *)
LEMMA BooksCurrent ==
    ASSUME IInv, Nest, Books, NEW p \in Peer
    PROVE  /\ handle[p] \in Handle /\ stack[p] \in Seq(Activation) /\ Well(p, stack[p])
           /\ Counted(p, handle[p], stack[p], app[p]) /\ Tidy(p, stack[p])
           /\ Alive(p, handle[p], VictimOf(stack[p]))
           /\ Cur(p) = Last(stack[p])
           /\ stack[p] # << >> =>
                /\ Cur(p) \in Activation /\ TidyAt(p, Cur(p))
                /\ VictimOf(stack[p]) = Cur(p).victim
           /\ chan \in [Peer -> Seq(Packet)]
           /\ \A r \in Peer : DestroysLocal(r, chan[r])
           /\ app \in [Peer -> [Objects -> Int]]
           /\ app = [app EXCEPT ![p] = app[p]]
           /\ stack \in [Peer -> Seq(Activation)]
<1>1. /\ handle[p] \in Handle /\ stack[p] \in Seq(Activation) /\ Well(p, stack[p])
      /\ Cur(p) = Last(stack[p])
  BY NestCurrent
<1>2. /\ Counted(p, handle[p], stack[p], app[p]) /\ Tidy(p, stack[p])
      /\ Alive(p, handle[p], VictimOf(stack[p]))
      /\ \A r \in Peer : DestroysLocal(r, chan[r])
  BY DEF Books, BooksOf
<1>3. /\ chan \in [Peer -> Seq(Packet)] /\ app \in [Peer -> [Objects -> Int]]
      /\ stack \in [Peer -> Seq(Activation)]
  BY DEF IInv, TypeOK
<1>4. stack[p] # << >> => /\ Cur(p) \in Activation /\ TidyAt(p, Cur(p))
                          /\ VictimOf(stack[p]) = Cur(p).victim
  BY <1>1, <1>2, Current, TidyLast
<1>5. app = [app EXCEPT ![p] = app[p]]
  BY <1>3
<1> QED
  BY <1>1, <1>2, <1>3, <1>4, <1>5

(* A step of p, in terms of its new handle, stack and variants.             *)
LEMMA BooksStep ==
    ASSUME IInv, Nest, Books, NEW p \in Peer, NEW h, NEW s, NEW f,
           SetHandle(p, h), SetStack(p, s), app' = [app EXCEPT ![p] = f],
           \A r \in Peer : DestroysLocal(r, chan'[r]),
           Counted(p, h, s, f), Tidy(p, s), Alive(p, h, VictimOf(s))
    PROVE  Books'
<1> DEFINE q == Other(p)
<1>1. q \in Peer /\ q # p /\ Peer = {p, q}
  BY LocalRemote
<1>2. /\ handle'[p] = h /\ handle'[q] = handle[q]
      /\ stack'[p] = s /\ stack'[q] = stack[q]
      /\ app'[p] = f /\ app'[q] = app[q]
  BY <1>1 DEF IInv, TypeOK, SetHandle, SetStack
<1>3. BooksOf(p, handle'[p], stack'[p], chan'[p], app'[p])
  BY <1>2 DEF BooksOf
<1>4. BooksOf(q, handle'[q], stack'[q], chan'[q], app'[q])
  BY <1>1, <1>2 DEF BooksOf, Books
<1>5. \A r \in Peer : BooksOf(r, handle'[r], stack'[r], chan'[r], app'[r])
  BY <1>1, <1>3, <1>4
<1> QED
  BY <1>5 DEF Books

(* The numbers behind a counter.                                            *)
LEMMA Numbers ==
    ASSUME IInv, Nest, Books, NEW p \in Peer, NEW o \in Remote(p)
    PROVE  /\ o \in Objects /\ app[p][o] \in Nat /\ handle[p].refcount[o] \in Nat
           /\ handle[p].refcount[o] = app[p][o] + Held(stack[p], o)
           /\ Held(stack[p], o) \in Nat
           /\ stack[p] # << >> =>
                /\ One(Cur(p).wres, o) \in {0, 1} /\ One(Cur(p).rpkt, o) \in {0, 1}
                /\ One(Cur(p).wres, o) + One(Cur(p).rpkt, o) <= Held(stack[p], o)
<1>1. /\ Counted(p, handle[p], stack[p], app[p]) /\ stack[p] \in Seq(Activation)
      /\ Cur(p) = Last(stack[p])
  BY BooksCurrent
<1>2. Held(stack[p], o) \in Nat
  BY <1>1, HeldNat
<1>3. app[p][o] \in Nat /\ handle[p].refcount[o] = app[p][o] + Held(stack[p], o)
  BY <1>1 DEF Counted
<1>4. One(Cur(p).wres, o) \in {0, 1} /\ One(Cur(p).rpkt, o) \in {0, 1}
  BY DEF One
<1>5. ASSUME stack[p] # << >>
      PROVE  One(Cur(p).wres, o) + One(Cur(p).rpkt, o) <= Held(stack[p], o)
  <2> DEFINE r == SubSeq(stack[p], 1, Len(stack[p]) - 1)
  <2>1. /\ Held(r, o) \in Nat
        /\ Held(stack[p], o) = Held(r, o) + One(Last(stack[p]).wres, o)
                                 + One(Last(stack[p]).rpkt, o)
    BY <1>1, <1>5, HeldPop
  <2> HIDE DEF r
  <2> QED
    BY <1>1, <1>4, <2>1
<1> QED
  BY <1>2, <1>3, <1>4, <1>5, LocalRemote

(* The current activation is replaced; the counters change by what it and   *)
(* the application hold more, or less.                                      *)
LEMMA BooksReplace ==
    ASSUME IInv, Nest, Books, NEW p \in Peer, stack[p] # << >>,
           NEW h, NEW a \in Activation, NEW f,
           SetHandle(p, h), SetCur(p, a), app' = [app EXCEPT ![p] = f],
           \A r \in Peer : DestroysLocal(r, chan'[r]),
           TidyAt(p, a), Alive(p, h, a.victim),
           \A o \in Remote(p) :
             /\ f[o] \in Nat
             /\ h.refcount[o] + app[p][o] + One(Cur(p).wres, o) + One(Cur(p).rpkt, o)
                  = handle[p].refcount[o] + f[o] + One(a.wres, o) + One(a.rpkt, o)
    PROVE  Books'
<1> DEFINE s == [stack[p] EXCEPT ![Len(stack[p])] = a]
           r == SubSeq(stack[p], 1, Len(stack[p]) - 1)
<1>1. stack[p] \in Seq(Activation) /\ Tidy(p, stack[p]) /\ Cur(p) = Last(stack[p])
  BY BooksCurrent
<1>2. SetStack(p, s)
  BY <1>1 DEF SetCur, SetStack
<1>3. Tidy(p, s) /\ VictimOf(s) = a.victim
  BY <1>1, TidyReplace
<1>4. ASSUME NEW o \in Remote(p)
      PROVE  f[o] \in Nat /\ h.refcount[o] = f[o] + Held(s, o)
  <2>1. /\ Held(r, o) \in Nat
        /\ Held(stack[p], o) = Held(r, o) + One(Cur(p).wres, o) + One(Cur(p).rpkt, o)
        /\ Held(s, o) = Held(r, o) + One(a.wres, o) + One(a.rpkt, o)
    BY <1>1, HeldReplace
  <2>2. /\ app[p][o] \in Nat /\ handle[p].refcount[o] = app[p][o] + Held(stack[p], o)
        /\ One(Cur(p).wres, o) \in {0, 1} /\ One(Cur(p).rpkt, o) \in {0, 1}
    BY Numbers
  <2>3. One(a.wres, o) \in {0, 1} /\ One(a.rpkt, o) \in {0, 1}
    BY DEF One
  <2>4. /\ f[o] \in Nat
        /\ h.refcount[o] + app[p][o] + One(Cur(p).wres, o) + One(Cur(p).rpkt, o)
             = handle[p].refcount[o] + f[o] + One(a.wres, o) + One(a.rpkt, o)
    OBVIOUS
  <2>5. h.refcount[o] \in Int
    BY DEF Alive
  <2> HIDE DEF s, r
  <2> DEFINE x == Held(r, o)                n == Held(stack[p], o)       m == Held(s, o)
             w == One(Cur(p).wres, o)       b == One(Cur(p).rpkt, o)
             v == One(a.wres, o)            u == One(a.rpkt, o)
             c == handle[p].refcount[o]     k == app[p][o]
             d == h.refcount[o]             g == f[o]
  <2>6. n = x + w + b /\ m = x + v + u /\ c = k + n /\ d + k + w + b = c + g + v + u
    BY <2>1, <2>2, <2>4
  <2>7. /\ x \in Nat /\ k \in Nat /\ d \in Int /\ g \in Nat
        /\ w \in {0, 1} /\ b \in {0, 1} /\ v \in {0, 1} /\ u \in {0, 1}
    BY <2>1, <2>2, <2>3, <2>4, <2>5
  <2> HIDE DEF x, n, m, w, b, v, u, c, k, d, g
  <2>8. /\ w \in Int /\ b \in Int /\ v \in Int /\ u \in Int /\ x \in Int /\ k \in Int /\ g \in Int
    BY <2>7
  <2>9. n \in Int /\ m \in Int /\ c \in Int /\ d \in Int
    BY <2>6, <2>7, <2>8
  <2>10. d = g + m
    BY <2>6, <2>8, <2>9
  <2> QED
    BY <2>7, <2>10 DEF g, d, m
<1> HIDE DEF s
<1>5. Counted(p, h, s, f)
  BY <1>4 DEF Counted
<1> QED
  BY <1>2, <1>3, <1>5, BooksStep

(* Only the handle changes, and what the application holds.                 *)
LEMMA BooksHandle ==
    ASSUME IInv, Nest, Books, NEW p \in Peer, NEW h, NEW f,
           SetHandle(p, h), app' = [app EXCEPT ![p] = f], UNCHANGED <<stack, chan>>,
           Alive(p, h, VictimOf(stack[p])),
           \A o \in Remote(p) :
             f[o] \in Nat /\ h.refcount[o] + app[p][o] = handle[p].refcount[o] + f[o]
    PROVE  Books'
<1>1. Tidy(p, stack[p]) /\ \A r \in Peer : DestroysLocal(r, chan'[r])
  BY BooksCurrent
<1>2. SetStack(p, stack[p])
  BY BooksCurrent DEF SetStack
<1>3. ASSUME NEW o \in Remote(p)
      PROVE  f[o] \in Nat /\ h.refcount[o] = f[o] + Held(stack[p], o)
  <2>1. /\ app[p][o] \in Nat /\ handle[p].refcount[o] = app[p][o] + Held(stack[p], o)
        /\ Held(stack[p], o) \in Nat
    BY Numbers
  <2>2. f[o] \in Nat /\ h.refcount[o] + app[p][o] = handle[p].refcount[o] + f[o]
    OBVIOUS
  <2>3. h.refcount[o] \in Int
    BY DEF Alive
  <2> QED
    BY <2>1, <2>2, <2>3
<1>4. Counted(p, h, stack[p], f)
  BY <1>3 DEF Counted
<1> QED
  BY <1>1, <1>2, <1>4, BooksStep

(* op_destroy still names an object of its reader, after a packet is        *)
(* written and after one is read.                                           *)
LEMMA SendDestroys ==
    ASSUME IInv, Nest, Books, NEW p \in Peer, NEW op, NEW refs,
           [op |-> op, refs |-> refs] \in Packet, Send(p, op, refs),
           op = "destroy" => refs \subseteq Remote(p)
    PROVE  \A r \in Peer : DestroysLocal(r, chan'[r])
<1> DEFINE q == Other(p)
           pkt == [op |-> op, refs |-> refs]
           d == Append(chan[q], pkt)
<1>1. q \in Peer /\ q # p /\ Peer = {p, q} /\ Local(q) = Remote(p)
  BY LocalRemote DEF Remote
<1>2. chan \in [Peer -> Seq(Packet)] /\ \A r \in Peer : DestroysLocal(r, chan[r])
  BY BooksCurrent
<1>3. chan'[p] = chan[p] /\ chan'[q] = d
  BY <1>1, <1>2 DEF Send
<1>4. /\ Len(d) = Len(chan[q]) + 1 /\ Len(chan[q]) \in Nat /\ d[Len(d)] = pkt
      /\ \A i \in 1 .. Len(chan[q]) : d[i] = chan[q][i]
  BY <1>1, <1>2
<1>5. pkt.op = op /\ pkt.refs = refs
  OBVIOUS
<1> HIDE DEF pkt, d
<1>6. \A i \in 1 .. Len(d) : i \in 1 .. Len(chan[q]) \/ i = Len(d)
  BY <1>4
<1>7. DestroysLocal(q, d)
  BY <1>1, <1>2, <1>4, <1>5, <1>6 DEF DestroysLocal
<1> QED
  BY <1>1, <1>2, <1>3, <1>7

LEMMA ReadDestroys ==
    ASSUME IInv, Nest, Books, NEW p \in Peer, NEW ops, Read(p, ops)
    PROVE  /\ \A r \in Peer : DestroysLocal(r, chan'[r])
           /\ Incoming(p).op = "destroy" => Incoming(p).refs \subseteq Local(p)
           /\ Incoming(p).op \in ops
           /\ Fits(Cur(p), Incoming(p).op) /\ Cur(p) = Last(stack[p])
<1> DEFINE q == Other(p)
           d == Tail(chan[p])
<1>1. q \in Peer /\ q # p /\ Peer = {p, q}
  BY LocalRemote
<1>2. chan \in [Peer -> Seq(Packet)] /\ \A r \in Peer : DestroysLocal(r, chan[r])
  BY BooksCurrent
<1>3. handle[p].stream /\ chan[p] # << >> /\ chan' = [chan EXCEPT ![p] = Tail(@)]
  BY ReadEffect
<1>4. chan'[p] = d /\ chan'[q] = chan[q]
  BY <1>1, <1>2, <1>3
<1>5. Len(chan[p]) = 1 /\ Fits(Last(stack[p]), Head(chan[p]).op) /\ Cur(p) = Last(stack[p])
  BY <1>3, NestCurrent
<1>6. Len(d) = 0
  BY <1>2, <1>3, <1>5
<1>7. Head(chan[p]) = chan[p][1] /\ 1 \in 1 .. Len(chan[p])
  BY <1>2, <1>3, <1>5
<1> HIDE DEF d
<1>8. DestroysLocal(p, d)
  BY <1>6 DEF DestroysLocal
<1>9. Incoming(p).op = "destroy" => Incoming(p).refs \subseteq Local(p)
  BY <1>2, <1>7 DEF DestroysLocal, Incoming
<1> QED
  BY <1>1, <1>2, <1>4, <1>5, <1>8, <1>9 DEF Read, Arrived, Incoming

-----------------------------------------------------------------------------
(* Each action keeps the books.                                             *)

LEMMA AliveMark ==
    ASSUME NEW p \in Peer, NEW h \in Handle, NEW V, Alive(p, h, V), NEW n \in {0, 1, 2}
    PROVE  LET g == [h EXCEPT !.last_op = n]
           IN  g \in Handle /\ Alive(p, g, V) /\ g.refcount = h.refcount /\ g.stream = h.stream
<1> DEFINE g == [h EXCEPT !.last_op = n]
<1>1. /\ g \in Handle /\ g.refcount = h.refcount /\ g.stream = h.stream
      /\ g.remoteobjmap = h.remoteobjmap /\ g.destr_cand = h.destr_cand
      /\ g.localobjmap = h.localobjmap
  BY DEF Handle
<1> HIDE DEF g
<1>2. Alive(p, g, V)
  BY <1>1 DEF Alive
<1> QED
  BY <1>1, <1>2 DEF g

(* The variants of a packet are released.                                   *)
IsDropped(p, h, S, k) ==
    /\ k \in Handle /\ Alive(p, k, {})
    /\ \A o \in Remote(p) : k.refcount[o] = h.refcount[o] - One(S, o)

LEMMA AliveDrop ==
    ASSUME NEW p \in Peer, NEW h \in Handle, Alive(p, h, {}), NEW S,
           \A o \in Remote(p) : One(S, o) <= h.refcount[o]
    PROVE  IsDropped(p, h, S, Release(h, S \cap Remote(p)))
<1> DEFINE T == S \cap Remote(p)
           k == Release(h, T)
<1>1. T \in SUBSET Remote(p) /\ T \in SUBSET Objects /\ Remote(p) \subseteq Objects
  BY LocalRemote
<1>2. \A o \in T : h.refcount[o] > 0
  <2> TAKE o \in T
  <2>1. One(S, o) <= h.refcount[o] /\ One(S, o) = 1 /\ h.refcount[o] \in Nat
    BY DEF One, Alive
  <2> QED
    BY <2>1
<1>3. \A o \in Remote(p) : One(T, o) = One(S, o)
  BY OneProxy
<1> HIDE DEF T
<1>4. k \in Handle /\ Alive(p, k, {})
  BY <1>1, <1>2, ReleaseType, AliveRelease
<1>5. \A o \in Remote(p) : k.refcount[o] = h.refcount[o] - One(S, o)
  BY <1>1, <1>3, ReleaseCounts
<1> QED
  BY <1>4, <1>5 DEF IsDropped, T

LEMMA AliveDropTwice ==
    ASSUME NEW p \in Peer, NEW h \in Handle, Alive(p, h, {}), NEW S, NEW T,
           \A o \in Remote(p) : One(S, o) + One(T, o) <= h.refcount[o]
    PROVE  LET k == Release(Release(h, S \cap Remote(p)), T \cap Remote(p))
           IN  /\ k \in Handle /\ Alive(p, k, {})
               /\ \A o \in Remote(p) : k.refcount[o] = h.refcount[o] - One(S, o) - One(T, o)
<1> DEFINE g == Release(h, S \cap Remote(p))
           k == Release(g, T \cap Remote(p))
<1>1. \A o \in Remote(p) : h.refcount[o] \in Nat /\ One(S, o) \in {0, 1} /\ One(T, o) \in {0, 1}
  BY DEF Alive, One
<1>2. \A o \in Remote(p) : One(S, o) <= h.refcount[o]
  BY <1>1
<1>3. /\ g \in Handle /\ Alive(p, g, {})
      /\ \A o \in Remote(p) : g.refcount[o] = h.refcount[o] - One(S, o)
  BY <1>2, AliveDrop DEF IsDropped
<1> HIDE DEF g
<1>4. \A o \in Remote(p) : One(T, o) <= g.refcount[o]
  BY <1>1, <1>3
<1>5. /\ k \in Handle /\ Alive(p, k, {})
      /\ \A o \in Remote(p) : k.refcount[o] = g.refcount[o] - One(T, o)
  BY <1>3, <1>4, AliveDrop DEF IsDropped
<1> HIDE DEF k
<1>6. \A o \in Remote(p) : k.refcount[o] = h.refcount[o] - One(S, o) - One(T, o)
  BY <1>3, <1>5
<1> QED
  BY <1>5, <1>6 DEF k, g

(* What the application can use is referenced.                              *)
LEMMA AccessibleHeld ==
    ASSUME IInv, Nest, Books, NEW p \in Peer, stack[p] # << >>, NEW o \in Accessible(p)
    PROVE  o \in Remote(p) /\ handle[p].refcount[o] > 0
<1>1. o \in Remote(p)
  BY DEF Accessible
<1>2. /\ app[p][o] \in Nat /\ handle[p].refcount[o] = app[p][o] + Held(stack[p], o)
      /\ Held(stack[p], o) \in Nat
      /\ One(Cur(p).wres, o) \in {0, 1} /\ One(Cur(p).rpkt, o) \in {0, 1}
      /\ One(Cur(p).wres, o) + One(Cur(p).rpkt, o) <= Held(stack[p], o)
  BY <1>1, Numbers
<1>3. app[p][o] > 0 \/ o \in Cur(p).rpkt
  BY DEF Accessible
<1>4. app[p][o] > 0 \/ One(Cur(p).rpkt, o) = 1
  BY <1>3 DEF One
<1> QED
  BY <1>1, <1>2, <1>4

(* Application code builds a packet from what it can use.                   *)
LEMMA BooksWrite ==
    ASSUME IInv, Nest, Books, NEW p \in Peer, At(p, {"user"}),
           NEW S \in SUBSET (Accessible(p) \cup Local(p)), NEW op \in {"call", "return", "throw"},
           SetHandle(p, AddRef(handle[p], S \cap Remote(p))),
           SetCur(p, [Cur(p) EXCEPT !.at = "write", !.op = op, !.wres = S]),
           UNCHANGED <<chan, app>>
    PROVE  Books'
<1> DEFINE T == S \cap Remote(p)
           h == AddRef(handle[p], T)
           a == [Cur(p) EXCEPT !.at = "write", !.op = op, !.wres = S]
<1>1. stack[p] # << >> /\ Cur(p).at = "user"
  BY DEF At
<1>2. /\ handle[p] \in Handle /\ Cur(p) \in Activation /\ TidyAt(p, Cur(p))
      /\ Alive(p, handle[p], Cur(p).victim)
      /\ \A r \in Peer : DestroysLocal(r, chan'[r])
      /\ app = [app EXCEPT ![p] = app[p]]
  BY <1>1, BooksCurrent
<1>3. T \in SUBSET Remote(p) /\ S \in SUBSET Objects
  BY AccessibleType, LocalRemote
<1>4. \A o \in T : handle[p].refcount[o] > 0
  <2> TAKE o \in T
  <2>1. o \in Accessible(p)
    <3>1. Local(p) \cap Remote(p) = {}
      BY ObjectsAssumption DEF Local, Remote, Other, Peer, Client, Server
    <3> QED
      BY <3>1
  <2> QED
    BY <1>1, <2>1, AccessibleHeld
<1>5. a \in Activation
  BY <1>2, <1>3 DEF Activation
<1>6. a.at = "write" /\ a.op = op /\ a.wres = S /\ a.rpkt = Cur(p).rpkt /\ a.victim = Cur(p).victim
  BY <1>2 DEF Activation
<1>7. TidyAt(p, a) /\ Cur(p).wres = {}
  BY <1>1, <1>2, <1>6 DEF TidyAt
<1>8. \A o \in Remote(p) : One(T, o) = One(S, o)
  BY OneProxy
<1> HIDE DEF T
<1>9. /\ Alive(p, h, a.victim)
      /\ \A o \in Objects : h.refcount[o] = handle[p].refcount[o] + One(T, o)
  BY <1>2, <1>3, <1>4, <1>6, AliveAddRef
<1>10. SetHandle(p, h) /\ SetCur(p, a) /\ app' = [app EXCEPT ![p] = app[p]]
  BY <1>2 DEF T
<1> HIDE DEF h, a
<1>11. ASSUME NEW o \in Remote(p)
       PROVE  /\ app[p][o] \in Nat
              /\ h.refcount[o] + app[p][o] + One(Cur(p).wres, o) + One(Cur(p).rpkt, o)
                   = handle[p].refcount[o] + app[p][o] + One(a.wres, o) + One(a.rpkt, o)
  <2>1. /\ o \in Objects /\ app[p][o] \in Nat /\ handle[p].refcount[o] \in Nat
        /\ One(Cur(p).rpkt, o) \in {0, 1}
    BY <1>1, Numbers
  <2>2. One(Cur(p).wres, o) = 0 /\ One(a.rpkt, o) = One(Cur(p).rpkt, o)
        /\ One(a.wres, o) = One(S, o) /\ One(S, o) \in {0, 1}
    BY <1>6, <1>7 DEF One
  <2>3. h.refcount[o] = handle[p].refcount[o] + One(S, o)
    BY <1>8, <1>9, <2>1
  <2> QED
    BY <2>1, <2>2, <2>3
<1> QED
  BY <1>1, <1>2, <1>5, <1>7, <1>9, <1>10, <1>11, BooksReplace

LEMMA BooksInvoke ==
    ASSUME IInv, Nest, Books, NEW p \in Peer, Invoke(p)
    PROVE  Books'
<1>1. PICK target \in Accessible(p), args \in SUBSET (Accessible(p) \cup Local(p)) :
        LET wres == {target} \cup args
        IN  /\ SetHandle(p, AddRef(handle[p], wres \cap Remote(p)))
            /\ SetCur(p, [Cur(p) EXCEPT !.at = "write", !.op = "call", !.wres = wres])
  BY DEF Invoke
<1> DEFINE wres == {target} \cup args
<1>2. wres \in SUBSET (Accessible(p) \cup Local(p))
  OBVIOUS
<1>3. /\ SetHandle(p, AddRef(handle[p], wres \cap Remote(p)))
      /\ SetCur(p, [Cur(p) EXCEPT !.at = "write", !.op = "call", !.wres = wres])
      /\ UNCHANGED <<chan, app>> /\ At(p, {"user"})
  BY <1>1 DEF Invoke
<1> HIDE DEF wres
<1> QED
  BY <1>2, <1>3, BooksWrite

LEMMA BooksAnswer ==
    ASSUME IInv, Nest, Books, NEW p \in Peer, Answer(p)
    PROVE  Books'
<1>1. PICK op \in {"return", "throw"}, refs \in SUBSET (Accessible(p) \cup Local(p)) :
        /\ SetHandle(p, AddRef(handle[p], refs \cap Remote(p)))
        /\ SetCur(p, [Cur(p) EXCEPT !.at = "write", !.op = op, !.wres = refs])
  BY DEF Answer
<1>2. UNCHANGED <<chan, app>> /\ At(p, {"user"}) /\ op \in {"call", "return", "throw"}
  BY DEF Answer
<1> QED
  BY <1>1, <1>2, BooksWrite

LEMMA BooksKeep ==
    ASSUME IInv, Nest, Books, NEW p \in Peer, Keep(p)
    PROVE  Books'
<1>1. PICK o \in Accessible(p) :
        /\ app' = [app EXCEPT ![p] = Plus(@, {o})]
        /\ SetHandle(p, AddRef(handle[p], {o}))
  BY DEF Keep
<1> DEFINE h == AddRef(handle[p], {o})
           f == Plus(app[p], {o})
<1>2. stack[p] # << >>
  BY DEF Keep, At
<1>3. {o} \in SUBSET Remote(p) /\ \A x \in {o} : handle[p].refcount[x] > 0
  BY <1>2, AccessibleHeld
<1>4. /\ handle[p] \in Handle /\ Alive(p, handle[p], VictimOf(stack[p]))
      /\ app \in [Peer -> [Objects -> Int]]
  BY BooksCurrent
<1>5. /\ Alive(p, h, VictimOf(stack[p]))
      /\ \A x \in Objects : h.refcount[x] = handle[p].refcount[x] + One({o}, x)
  BY <1>3, <1>4, AliveAddRef
<1>6. \A x \in Objects : f[x] = app[p][x] + One({o}, x)
  BY DEF Plus, One
<1>7. SetHandle(p, h) /\ app' = [app EXCEPT ![p] = f] /\ UNCHANGED <<stack, chan>>
  BY <1>1, <1>4 DEF Keep
<1> HIDE DEF h, f
<1>8. ASSUME NEW x \in Remote(p)
      PROVE  f[x] \in Nat /\ h.refcount[x] + app[p][x] = handle[p].refcount[x] + f[x]
  <2>1. x \in Objects /\ app[p][x] \in Nat /\ handle[p].refcount[x] \in Nat
    BY Numbers
  <2>2. One({o}, x) \in {0, 1}
    BY DEF One
  <2>3. /\ h.refcount[x] = handle[p].refcount[x] + One({o}, x)
        /\ f[x] = app[p][x] + One({o}, x)
    BY <1>5, <1>6, <2>1
  <2> QED
    BY <2>1, <2>2, <2>3
<1> QED
  BY <1>5, <1>7, <1>8, BooksHandle

LEMMA BooksDrop ==
    ASSUME IInv, Nest, Books, NEW p \in Peer, Drop(p)
    PROVE  Books'
<1>1. PICK o \in Remote(p) :
        /\ app[p][o] > 0
        /\ app' = [app EXCEPT ![p] = Minus(@, {o})]
        /\ SetHandle(p, Release(handle[p], {o}))
  BY DEF Drop
<1> DEFINE h == Release(handle[p], {o})
           f == Minus(app[p], {o})
<1>2. /\ handle[p] \in Handle /\ Alive(p, handle[p], VictimOf(stack[p]))
      /\ app \in [Peer -> [Objects -> Int]]
  BY BooksCurrent
<1>3. VictimOf(stack[p]) = {}
  <2>1. CASE stack[p] = << >>
    BY <2>1 DEF VictimOf
  <2>2. CASE stack[p] # << >>
    <3>1. Cur(p).at = "user"
      BY <2>2 DEF Drop, At
    <3> QED
      BY <2>2, <3>1, BooksCurrent DEF TidyAt
  <2> QED
    BY <2>1, <2>2
<1>4. {o} \in SUBSET Remote(p) /\ {o} \in SUBSET Objects /\ handle[p].refcount[o] > 0
  <2>1. /\ app[p][o] \in Nat /\ Held(stack[p], o) \in Nat /\ o \in Objects
        /\ handle[p].refcount[o] = app[p][o] + Held(stack[p], o)
    BY Numbers
  <2> QED
    BY <1>1, <2>1
<1>5. Alive(p, h, VictimOf(stack[p]))
  BY <1>2, <1>3, <1>4, AliveRelease
<1>6. \A x \in Objects : h.refcount[x] = handle[p].refcount[x] - One({o}, x)
  BY <1>2, <1>4, ReleaseCounts
<1>7. \A x \in Objects : f[x] = app[p][x] - One({o}, x)
  BY DEF Minus, One
<1>8. SetHandle(p, h) /\ app' = [app EXCEPT ![p] = f] /\ UNCHANGED <<stack, chan>>
  BY <1>1, <1>2 DEF Drop
<1> HIDE DEF h, f
<1>9. ASSUME NEW x \in Remote(p)
      PROVE  f[x] \in Nat /\ h.refcount[x] + app[p][x] = handle[p].refcount[x] + f[x]
  <2>1. x \in Objects /\ app[p][x] \in Nat /\ handle[p].refcount[x] \in Nat
    BY Numbers
  <2>2. One({o}, x) \in {0, 1} /\ (One({o}, x) = 1 => app[p][x] > 0)
    BY <1>1 DEF One
  <2>3. /\ h.refcount[x] = handle[p].refcount[x] - One({o}, x)
        /\ f[x] = app[p][x] - One({o}, x)
    BY <1>6, <1>7, <2>1
  <2> QED
    BY <2>1, <2>2, <2>3
<1> QED
  BY <1>5, <1>8, <1>9, BooksHandle

LEMMA BooksGcSkip ==
    ASSUME IInv, Nest, Books, NEW p \in Peer, GcSkip(p)
    PROVE  Books'
<1>1. PICK o \in handle[p].destr_cand :
        /\ handle[p].refcount[o] # 0
        /\ SetHandle(p, [handle[p] EXCEPT !.destr_cand = @ \ {o}])
  BY DEF GcSkip
<1> DEFINE h == [handle[p] EXCEPT !.destr_cand = @ \ {o}]
           V == VictimOf(stack[p])
<1>2. /\ handle[p] \in Handle /\ Alive(p, handle[p], V) /\ app = [app EXCEPT ![p] = app[p]]
  BY BooksCurrent
<1> HIDE DEF V
<1>3. /\ h.refcount = handle[p].refcount /\ h.destr_cand = handle[p].destr_cand \ {o}
      /\ h.remoteobjmap = handle[p].remoteobjmap /\ h.localobjmap = handle[p].localobjmap
      /\ h.stream = handle[p].stream
  BY <1>2 DEF Handle
<1>4. SetHandle(p, h) /\ UNCHANGED <<stack, chan>> /\ app' = [app EXCEPT ![p] = app[p]]
  BY <1>1, <1>2 DEF GcSkip
<1> HIDE DEF h
<1>5. o \in Remote(p) /\ handle[p].refcount[o] > 0
  BY <1>1, <1>2 DEF Alive
<1>6. Alive(p, h, V)
  BY <1>2, <1>3, <1>5 DEF Alive
<1>7. \A x \in Remote(p) : /\ app[p][x] \in Nat
                           /\ h.refcount[x] + app[p][x] = handle[p].refcount[x] + app[p][x]
  BY <1>3, Numbers
<1> QED
  BY <1>4, <1>6, <1>7, BooksHandle DEF V

LEMMA BooksGcDestroy ==
    ASSUME IInv, Nest, Books, NEW p \in Peer, GcDestroy(p)
    PROVE  Books'
<1>1. PICK o \in handle[p].destr_cand :
        /\ handle[p].refcount[o] = 0
        /\ SetHandle(p, [handle[p] EXCEPT !.destr_cand = @ \ {o}, !.last_op = 2])
        /\ Send(p, "destroy", {o})
        /\ SetCur(p, [Cur(p) EXCEPT !.at = "gc", !.victim = {o}])
  BY DEF GcDestroy
<1> DEFINE h == [handle[p] EXCEPT !.destr_cand = @ \ {o}, !.last_op = 2]
           a == [Cur(p) EXCEPT !.at = "gc", !.victim = {o}]
<1>2. stack[p] # << >> /\ Cur(p).at = "write" /\ Cur(p).op # "ack" /\ handle[p].stream
  BY DEF GcDestroy, At
<1>3. /\ handle[p] \in Handle /\ Cur(p) \in Activation /\ TidyAt(p, Cur(p))
      /\ Alive(p, handle[p], Cur(p).victim) /\ app = [app EXCEPT ![p] = app[p]]
  BY <1>2, BooksCurrent
<1>4. o \in Remote(p) /\ o \in Objects /\ Cur(p).victim = {}
  BY <1>2, <1>3, LocalRemote DEF Alive, TidyAt
<1>5. /\ h.refcount = handle[p].refcount /\ h.destr_cand = handle[p].destr_cand \ {o}
      /\ h.remoteobjmap = handle[p].remoteobjmap /\ h.localobjmap = handle[p].localobjmap
      /\ h.stream = handle[p].stream
  BY <1>3 DEF Handle
<1>6. /\ a \in Activation /\ a.at = "gc" /\ a.op = Cur(p).op /\ a.wres = Cur(p).wres
      /\ a.rpkt = Cur(p).rpkt /\ a.victim = {o}
  BY <1>3, <1>4 DEF Activation
<1>7. [op |-> "destroy", refs |-> {o}] \in Packet
  BY <1>4 DEF Packet
<1>8. \A r \in Peer : DestroysLocal(r, chan'[r])
  BY <1>1, <1>4, <1>7, SendDestroys
<1>9. SetHandle(p, h) /\ SetCur(p, a) /\ app' = [app EXCEPT ![p] = app[p]]
  BY <1>1, <1>3 DEF GcDestroy
<1> HIDE DEF h, a
<1>10. TidyAt(p, a)
  BY <1>3, <1>4, <1>6 DEF TidyAt
<1>11. Alive(p, h, a.victim)
  <2>1. h.remoteobjmap = {x \in Remote(p) : h.refcount[x] > 0} \cup h.destr_cand \cup {o}
    BY <1>1, <1>3, <1>4, <1>5 DEF Alive
  <2> QED
    BY <1>1, <1>2, <1>3, <1>4, <1>5, <1>6, <2>1 DEF Alive
<1>12. \A x \in Remote(p) :
          /\ app[p][x] \in Nat
          /\ h.refcount[x] + app[p][x] + One(Cur(p).wres, x) + One(Cur(p).rpkt, x)
               = handle[p].refcount[x] + app[p][x] + One(a.wres, x) + One(a.rpkt, x)
  BY <1>5, <1>6, Numbers
<1> QED
  BY <1>2, <1>6, <1>8, <1>9, <1>10, <1>11, <1>12, BooksReplace

LEMMA BooksWriteCall ==
    ASSUME IInv, Nest, Books, NEW p \in Peer, WriteCall(p)
    PROVE  Books'
<1> DEFINE g == Serialize(p, handle[p], Cur(p).wres)
           h == [g EXCEPT !.last_op = 2]
           a == [Cur(p) EXCEPT !.at = "wait"]
           op == IF Cur(p).op = "hello" THEN "return" ELSE "request"
<1>1. /\ stack[p] # << >> /\ Cur(p).at = "write" /\ handle[p].stream
      /\ Cur(p).op \in {"call", "hello"}
  BY DEF WriteCall, At
<1>2. /\ handle[p] \in Handle /\ Cur(p) \in Activation /\ TidyAt(p, Cur(p))
      /\ Alive(p, handle[p], Cur(p).victim) /\ app = [app EXCEPT ![p] = app[p]]
  BY <1>1, BooksCurrent
<1>3. Cur(p).victim = {}
  BY <1>1, <1>2 DEF TidyAt
<1>4. g \in Handle /\ Alive(p, g, {}) /\ g.refcount = handle[p].refcount
  BY <1>1, <1>2, <1>3, SerializeType, AliveSerialize
<1>5. SetHandle(p, h) /\ SetCur(p, a) /\ Send(p, op, Cur(p).wres)
      /\ app' = [app EXCEPT ![p] = app[p]]
  BY <1>2 DEF WriteCall
<1>6. /\ a \in Activation /\ a.at = "wait" /\ a.op = Cur(p).op /\ a.wres = Cur(p).wres
      /\ a.rpkt = Cur(p).rpkt /\ a.victim = {}
  BY <1>2, <1>3 DEF Activation
<1>7. [op |-> op, refs |-> Cur(p).wres] \in Packet /\ op # "destroy"
  BY <1>2 DEF Packet, Activation
<1> HIDE DEF g
<1>8. Alive(p, h, {}) /\ h.refcount = handle[p].refcount
  BY <1>4, AliveMark
<1> HIDE DEF h, a, op
<1>9. \A r \in Peer : DestroysLocal(r, chan'[r])
  BY <1>5, <1>7, SendDestroys
<1>10. TidyAt(p, a)
  BY <1>1, <1>2, <1>6 DEF TidyAt
<1>11. \A x \in Remote(p) :
          /\ app[p][x] \in Nat
          /\ h.refcount[x] + app[p][x] + One(Cur(p).wres, x) + One(Cur(p).rpkt, x)
               = handle[p].refcount[x] + app[p][x] + One(a.wres, x) + One(a.rpkt, x)
  BY <1>6, <1>8, Numbers
<1> QED
  BY <1>1, <1>5, <1>6, <1>8, <1>9, <1>10, <1>11, BooksReplace

LEMMA BooksWriteReply ==
    ASSUME IInv, Nest, Books, NEW p \in Peer, WriteReply(p)
    PROVE  Books'
<1> DEFINE wres == Cur(p).wres
           rpkt == Cur(p).rpkt
           g == Serialize(p, handle[p], Cur(p).wres)
           h == [g EXCEPT !.last_op = 2]
           k == Release(Release(h, wres \cap Remote(p)), rpkt \cap Remote(p))
           op == IF Cur(p).op = "throw" THEN "throw" ELSE "return"
           s == Rest(p)
<1>1. /\ stack[p] # << >> /\ Cur(p).at = "write" /\ handle[p].stream
      /\ Cur(p).op \notin {"call", "hello"}
  BY DEF WriteReply, At
<1>2. /\ handle[p] \in Handle /\ Cur(p) \in Activation /\ TidyAt(p, Cur(p))
      /\ Alive(p, handle[p], Cur(p).victim) /\ app = [app EXCEPT ![p] = app[p]]
      /\ stack[p] \in Seq(Activation) /\ Well(p, stack[p]) /\ Tidy(p, stack[p])
      /\ Cur(p) = Last(stack[p])
  BY <1>1, BooksCurrent
<1>3. Cur(p).victim = {} /\ Len(stack[p]) > 1
  BY <1>1, <1>2, Current DEF TidyAt
<1>4. g \in Handle /\ Alive(p, g, {}) /\ g.refcount = handle[p].refcount
  BY <1>1, <1>2, <1>3, SerializeType, AliveSerialize
<1>5. SetHandle(p, k) /\ SetStack(p, s) /\ Send(p, op, Cur(p).wres)
      /\ app' = [app EXCEPT ![p] = app[p]]
  BY <1>2 DEF WriteReply
<1>6. [op |-> op, refs |-> Cur(p).wres] \in Packet /\ op # "destroy"
  BY <1>2 DEF Packet, Activation
<1> HIDE DEF g
<1>7. h \in Handle /\ Alive(p, h, {}) /\ h.refcount = handle[p].refcount
  BY <1>4, AliveMark
<1> HIDE DEF h, op
<1>8. \A r \in Peer : DestroysLocal(r, chan'[r])
  BY <1>5, <1>6, SendDestroys
<1>9. \A o \in Remote(p) : One(wres, o) + One(rpkt, o) <= h.refcount[o]
  <2> TAKE o \in Remote(p)
  <2>1. /\ app[p][o] \in Nat /\ handle[p].refcount[o] = app[p][o] + Held(stack[p], o)
        /\ Held(stack[p], o) \in Nat
        /\ One(wres, o) \in {0, 1} /\ One(rpkt, o) \in {0, 1}
        /\ One(wres, o) + One(rpkt, o) <= Held(stack[p], o)
    BY <1>1, Numbers
  <2> QED
    BY <1>7, <2>1
<1> HIDE DEF wres, rpkt
<1>10. /\ k \in Handle /\ Alive(p, k, {})
       /\ \A o \in Remote(p) : k.refcount[o] = h.refcount[o] - One(wres, o) - One(rpkt, o)
  <2>1. h \in Handle /\ Alive(p, h, {})
    BY <1>7
  <2>2. \A S, T : (\A o \in Remote(p) : One(S, o) + One(T, o) <= h.refcount[o]) =>
           LET x == Release(Release(h, S \cap Remote(p)), T \cap Remote(p))
           IN  /\ x \in Handle /\ Alive(p, x, {})
               /\ \A o \in Remote(p) : x.refcount[o] = h.refcount[o] - One(S, o) - One(T, o)
    BY <2>1, AliveDropTwice
  <2>3. LET x == Release(Release(h, wres \cap Remote(p)), rpkt \cap Remote(p))
           IN  /\ x \in Handle /\ Alive(p, x, {})
               /\ \A o \in Remote(p) : x.refcount[o] = h.refcount[o] - One(wres, o) - One(rpkt, o)
    BY <1>9, <2>2
  <2> QED
    BY <2>3
<1> HIDE DEF k
<1>11. Tidy(p, s) /\ VictimOf(s) = {} /\ s \in Seq(Activation)
  BY <1>2, <1>3, TidyPop, WellPop DEF Rest
<1>12. ASSUME NEW o \in Remote(p)
       PROVE  app[p][o] \in Nat /\ k.refcount[o] = app[p][o] + Held(s, o)
  <2>1. /\ app[p][o] \in Nat /\ handle[p].refcount[o] = app[p][o] + Held(stack[p], o)
        /\ One(wres, o) \in {0, 1} /\ One(rpkt, o) \in {0, 1}
    BY <1>1, Numbers DEF wres, rpkt
  <2>2. /\ Held(s, o) \in Nat
        /\ Held(stack[p], o) = Held(s, o) + One(wres, o) + One(rpkt, o)
    BY <1>1, <1>2, HeldPop DEF Rest, wres, rpkt
  <2>3. k.refcount[o] = handle[p].refcount[o] - One(wres, o) - One(rpkt, o)
    BY <1>7, <1>10
  <2> DEFINE u == app[p][o]  v == Held(s, o)  w == One(wres, o)  r == One(rpkt, o)
  <2>4. k.refcount[o] = u + (v + w + r) - w - r /\ u \in Nat /\ v \in Nat /\ w \in Int /\ r \in Int
    BY <2>1, <2>2, <2>3
  <2> HIDE DEF u, v, w, r
  <2>5. k.refcount[o] = u + v
    BY <2>4
  <2> QED
    BY <2>1, <2>5 DEF u, v
<1>14. SetHandle(p, k) /\ SetStack(p, s)
  BY <1>5
<1> HIDE DEF s
<1>13. Counted(p, k, s, app[p])
  BY <1>12 DEF Counted
<1> QED
  BY <1>5, <1>8, <1>10, <1>11, <1>13, <1>14, BooksStep

(* An exception leaves the innermost call of s, a stack that holds what     *)
(* handle g counts.                                                         *)
LEMMA BooksFailure ==
    ASSUME IInv, Nest, Books, NEW p \in Peer, NEW s \in Seq(Activation), s # << >>,
           Well(p, s), Tidy(p, s), Last(s).at # "gc",
           NEW g \in Handle, Alive(p, g, {}), Counted(p, g, s, app[p]),
           SetHandle(p, Release(g, Last(s).wres \cap Remote(p))),
           SetStack(p, AfterFailure(s)), app' = app,
           \A r \in Peer : DestroysLocal(r, chan'[r])
    PROVE  Books'
<1> DEFINE a == Last(s)
           t == AfterFailure(s)
           h == Release(g, a.wres \cap Remote(p))
<1>1. ASSUME NEW o \in Remote(p)
      PROVE  /\ Held(t, o) \in Nat /\ Held(s, o) = Held(t, o) + One(a.wres, o)
             /\ app[p][o] \in Nat /\ g.refcount[o] = app[p][o] + Held(s, o)
             /\ One(a.wres, o) \in {0, 1}
  BY HeldFailure DEF Counted, One
<1>2. Tidy(p, t) /\ VictimOf(t) = {}
  BY TidyFailure
<1>3. app' = [app EXCEPT ![p] = app[p]]
  BY BooksCurrent
<1> HIDE DEF t, a
<1>4. \A o \in Remote(p) : One(a.wres, o) <= g.refcount[o]
  BY <1>1
<1>5. /\ Alive(p, h, {})
      /\ \A o \in Remote(p) : h.refcount[o] = g.refcount[o] - One(a.wres, o)
  <2>1. IsDropped(p, g, a.wres, h)
    BY <1>4, AliveDrop
  <2> QED
    BY <2>1 DEF IsDropped
<1>6. SetHandle(p, h) /\ SetStack(p, t)
  BY DEF t, a
<1> HIDE DEF h
<1>7. ASSUME NEW o \in Remote(p)
      PROVE  app[p][o] \in Nat /\ h.refcount[o] = app[p][o] + Held(t, o)
  BY <1>1, <1>5
<1>8. Counted(p, h, t, app[p])
  BY <1>7 DEF Counted
<1> QED
  BY <1>2, <1>3, <1>5, <1>6, <1>8, BooksStep

LEMMA BooksWriteFails ==
    ASSUME IInv, Nest, Books, NEW p \in Peer, WriteFails(p)
    PROVE  Books'
<1> DEFINE g == CloseConnection(handle[p])
           wres == Cur(p).wres
           rpkt == Cur(p).rpkt
           h == Release(g, wres \cap Remote(p))
           s == Rest(p)
           k == Release(h, rpkt \cap Remote(p))
<1>1. stack[p] # << >> /\ Cur(p).at = "write"
  BY DEF WriteFails, At
<1>2. /\ handle[p] \in Handle /\ Cur(p) \in Activation /\ TidyAt(p, Cur(p))
      /\ Alive(p, handle[p], Cur(p).victim) /\ Counted(p, handle[p], stack[p], app[p])
      /\ stack[p] \in Seq(Activation) /\ Well(p, stack[p]) /\ Tidy(p, stack[p])
      /\ Cur(p) = Last(stack[p]) /\ \A r \in Peer : DestroysLocal(r, chan[r])
  BY <1>1, BooksCurrent
<1>3. Cur(p).victim = {}
  BY <1>1, <1>2 DEF TidyAt
<1>4. /\ g \in Handle /\ Alive(p, g, {})
      /\ \A o \in Objects : g.refcount[o] = handle[p].refcount[o]
  BY <1>2, <1>3, CloseConnectionType, AliveClose DEF IsClosed
<1>5. chan' = chan /\ app' = app
  BY DEF WriteFails
<1>6. \A r \in Peer : DestroysLocal(r, chan'[r])
  BY <1>2, <1>5
<1>7. IF Cur(p).op \in {"call", "hello"}
      THEN SetHandle(p, h) /\ SetStack(p, AfterFailure(stack[p]))
      ELSE SetHandle(p, Release(k, Last(s).wres \cap Remote(p))) /\ SetStack(p, AfterFailure(s))
  BY DEF WriteFails, Last
<1> HIDE DEF g
<1>8. ASSUME NEW o \in Remote(p)
      PROVE  /\ app[p][o] \in Nat /\ g.refcount[o] = app[p][o] + Held(stack[p], o)
             /\ One(wres, o) \in {0, 1} /\ One(rpkt, o) \in {0, 1}
             /\ Held(stack[p], o) \in Nat
             /\ One(wres, o) + One(rpkt, o) <= Held(stack[p], o)
  BY <1>1, <1>4, Numbers
<1>9. CASE Cur(p).op \in {"call", "hello"}
  <2>1. Counted(p, g, stack[p], app[p])
    BY <1>8 DEF Counted
  <2>2. SetHandle(p, Release(g, Last(stack[p]).wres \cap Remote(p)))
        /\ SetStack(p, AfterFailure(stack[p])) /\ Last(stack[p]).at # "gc"
    BY <1>1, <1>2, <1>7, <1>9
  <2> QED
    BY <1>1, <1>2, <1>4, <1>5, <1>6, <2>1, <2>2, BooksFailure
<1>10. CASE Cur(p).op \notin {"call", "hello"}
  <2>1. Len(stack[p]) > 1
    BY <1>1, <1>10, Current
  <2>2. /\ s \in Seq(Activation) /\ s # << >> /\ Well(p, s) /\ Tidy(p, s)
        /\ Last(s).at = "wait"
    BY <1>2, <2>1, WellPop, TidyPop DEF Rest
  <2>3. ASSUME NEW o \in Remote(p)
        PROVE  /\ Held(s, o) \in Nat
               /\ Held(stack[p], o) = Held(s, o) + One(wres, o) + One(rpkt, o)
    BY <1>1, <1>2, HeldPop DEF Rest
  <2>4. SetHandle(p, Release(k, Last(s).wres \cap Remote(p))) /\ SetStack(p, AfterFailure(s))
    BY <1>7, <1>10
  <2> HIDE DEF wres, rpkt, s
  <2>5. \A o \in Remote(p) : One(wres, o) + One(rpkt, o) <= g.refcount[o]
    BY <1>8
  <2>6. \A S, T : (\A o \in Remote(p) : One(S, o) + One(T, o) <= g.refcount[o]) =>
          LET x == Release(Release(g, S \cap Remote(p)), T \cap Remote(p))
          IN  /\ x \in Handle /\ Alive(p, x, {})
              /\ \A o \in Remote(p) : x.refcount[o] = g.refcount[o] - One(S, o) - One(T, o)
    BY <1>4, AliveDropTwice
  <2>7. LET x == Release(Release(g, wres \cap Remote(p)), rpkt \cap Remote(p))
        IN  /\ x \in Handle /\ Alive(p, x, {})
            /\ \A o \in Remote(p) :
                 x.refcount[o] = g.refcount[o] - One(wres, o) - One(rpkt, o)
    BY <2>5, <2>6
  <2>8. /\ k \in Handle /\ Alive(p, k, {})
        /\ \A o \in Remote(p) : k.refcount[o] = g.refcount[o] - One(wres, o) - One(rpkt, o)
    BY <2>7
  <2> HIDE DEF k
  <2>9. ASSUME NEW o \in Remote(p)
        PROVE  app[p][o] \in Nat /\ k.refcount[o] = app[p][o] + Held(s, o)
    <3> DEFINE u == app[p][o]  v == Held(s, o)  w == One(wres, o)  r == One(rpkt, o)
    <3>1. k.refcount[o] = u + (v + w + r) - w - r /\ u \in Nat /\ v \in Nat /\ w \in Int /\ r \in Int
      BY <1>8, <2>3, <2>8
    <3> HIDE DEF u, v, w, r
    <3>2. k.refcount[o] = u + v
      BY <3>1
    <3> QED
      BY <1>8, <3>2 DEF u, v
  <2>10. Counted(p, k, s, app[p])
    BY <2>9 DEF Counted
  <2> QED
    BY <1>5, <1>6, <2>2, <2>4, <2>8, <2>10, BooksFailure
<1> QED
  BY <1>9, <1>10

LEMMA BooksLoopThrows ==
    ASSUME IInv, Nest, Books, NEW p \in Peer, At(p, {"wait", "gc"}),
           LoopThrows(p, handle[p]), app' = app,
           \A r \in Peer : DestroysLocal(r, chan'[r])
    PROVE  Books'
<1> DEFINE g == [handle[p] EXCEPT !.last_op = 1]
           c == CloseConnection(g)
           h == Delete(c, Cur(p).victim)
           a == [Cur(p) EXCEPT !.at = "write", !.victim = {}]
<1>1. stack[p] # << >> /\ Cur(p).at \in {"wait", "gc"}
  BY DEF At
<1>2. /\ handle[p] \in Handle /\ Cur(p) \in Activation /\ TidyAt(p, Cur(p))
      /\ Alive(p, handle[p], Cur(p).victim) /\ Counted(p, handle[p], stack[p], app[p])
      /\ stack[p] \in Seq(Activation) /\ Well(p, stack[p]) /\ Tidy(p, stack[p])
      /\ Cur(p) = Last(stack[p]) /\ app = [app EXCEPT ![p] = app[p]]
  BY <1>1, BooksCurrent
<1>3. /\ g \in Handle /\ Alive(p, g, Cur(p).victim) /\ g.refcount = handle[p].refcount
  BY <1>2, AliveMark
<1>4. IF Cur(p).at = "gc"
      THEN SetHandle(p, h) /\ SetCur(p, a)
      ELSE /\ SetHandle(p, Release(c, Last(stack[p]).wres \cap Remote(p)))
           /\ SetStack(p, AfterFailure(stack[p]))
  BY <1>2 DEF LoopThrows
<1> HIDE DEF g
<1>5. /\ c \in Handle /\ Alive(p, h, {}) /\ (Cur(p).victim = {} => Alive(p, c, {}))
      /\ \A o \in Objects : c.refcount[o] = handle[p].refcount[o]
  <2>1. IsClosed(p, g, Cur(p).victim)
    BY <1>3, AliveClose
  <2> QED
    BY <1>3, <2>1, CloseConnectionType DEF IsClosed
<1> HIDE DEF c
<1>6. h.refcount = c.refcount
  BY <1>5, DeleteFields
<1> HIDE DEF h
<1>7. CASE Cur(p).at = "gc"
  <2>1. /\ a \in Activation /\ a.at = "write" /\ a.op = Cur(p).op /\ a.wres = Cur(p).wres
        /\ a.rpkt = Cur(p).rpkt /\ a.victim = {}
    BY <1>2 DEF Activation
  <2>2. SetHandle(p, h) /\ SetCur(p, a) /\ app' = [app EXCEPT ![p] = app[p]]
    BY <1>2, <1>4, <1>7
  <2> HIDE DEF a
  <2>3. TidyAt(p, a)
    BY <1>2, <2>1 DEF TidyAt
  <2>4. ASSUME NEW o \in Remote(p)
        PROVE  /\ app[p][o] \in Nat
               /\ h.refcount[o] + app[p][o] + One(Cur(p).wres, o) + One(Cur(p).rpkt, o)
                    = handle[p].refcount[o] + app[p][o] + One(a.wres, o) + One(a.rpkt, o)
    BY <1>5, <1>6, <2>1, Numbers
  <2> QED
    BY <1>1, <1>5, <2>1, <2>2, <2>3, <2>4, BooksReplace
<1>8. CASE Cur(p).at # "gc"
  <2>1. Alive(p, c, {}) /\ Last(stack[p]).at # "gc"
    BY <1>2, <1>5, <1>8 DEF TidyAt
  <2>2. ASSUME NEW o \in Remote(p)
        PROVE  app[p][o] \in Nat /\ c.refcount[o] = app[p][o] + Held(stack[p], o)
    BY <1>5, Numbers
  <2>3. Counted(p, c, stack[p], app[p])
    BY <2>2 DEF Counted
  <2>4. /\ SetHandle(p, Release(c, Last(stack[p]).wres \cap Remote(p)))
        /\ SetStack(p, AfterFailure(stack[p]))
    BY <1>4, <1>8
  <2> QED
    BY <1>1, <1>2, <1>5, <2>1, <2>3, <2>4, BooksFailure
<1> QED
  BY <1>7, <1>8

LEMMA BooksReadFails ==
    ASSUME IInv, Nest, Books, NEW p \in Peer, ReadFails(p)
    PROVE  Books'
<1>1. At(p, {"wait", "gc"}) /\ LoopThrows(p, handle[p]) /\ app' = app /\ chan' = chan
  BY DEF ReadFails
<1>2. \A r \in Peer : DestroysLocal(r, chan'[r])
  BY <1>1, BooksCurrent
<1> QED
  BY <1>1, <1>2, BooksLoopThrows

LEMMA BooksReadThrows ==
    ASSUME IInv, Nest, Books, NEW p \in Peer, NEW ops, Read(p, ops),
           LoopThrows(p, handle[p]), app' = app
    PROVE  Books'
<1>1. At(p, {"wait", "gc"})
  BY DEF Read
<1>2. \A r \in Peer : DestroysLocal(r, chan'[r])
  BY ReadDestroys
<1> QED
  BY <1>1, <1>2, BooksLoopThrows

LEMMA BooksReadRequest ==
    ASSUME IInv, Nest, Books, NEW p \in Peer, ReadRequest(p)
    PROVE  Books'
<1> DEFINE refs == Incoming(p).refs
           g == [handle[p] EXCEPT !.last_op = 1]
           h == Deserialize(p, g, refs)
           a == [Idle EXCEPT !.rpkt = refs]
           s == Append(stack[p], a)
<1>1. Read(p, {"request"}) /\ app' = app
  BY DEF ReadRequest
<1>2. /\ \A r \in Peer : DestroysLocal(r, chan'[r])
      /\ Incoming(p).op = "request" /\ Fits(Cur(p), Incoming(p).op) /\ stack[p] # << >>
  BY <1>1, ReadDestroys, ReadEffect
<1>3. /\ handle[p] \in Handle /\ TidyAt(p, Cur(p))
      /\ Alive(p, handle[p], Cur(p).victim)
      /\ stack[p] \in Seq(Activation) /\ Tidy(p, stack[p])
      /\ app = [app EXCEPT ![p] = app[p]]
  BY <1>2, BooksCurrent
<1>4. Cur(p).victim = {}
  BY <1>2, <1>3 DEF TidyAt, Fits
<1>5. g \in Handle /\ Alive(p, g, {}) /\ g.refcount = handle[p].refcount
  BY <1>3, <1>4, AliveMark
<1>6. refs \in SUBSET Objects
  BY <1>1, IncomingType
<1>7. /\ a \in Activation /\ a.at = "user" /\ a.op = "none" /\ a.wres = {} /\ a.rpkt = refs
      /\ a.victim = {}
  BY <1>6 DEF Idle, Activation
<1>8. IF Known(p, handle[p], refs)
      THEN SetHandle(p, h) /\ SetStack(p, s)
      ELSE LoopThrows(p, handle[p])
  BY DEF ReadRequest
<1> HIDE DEF g, refs
<1>9. /\ Alive(p, h, {})
      /\ \A o \in Remote(p) : h.refcount[o] = g.refcount[o] + One(refs, o)
  BY <1>5, AliveDeserialize
<1> HIDE DEF h, a
<1>10. TidyAt(p, a)
  BY <1>7 DEF TidyAt
<1>11. Tidy(p, s) /\ VictimOf(s) = {}
  BY <1>3, <1>7, <1>10, TidyPush
<1>12. ASSUME NEW o \in Remote(p)
       PROVE  app[p][o] \in Nat /\ h.refcount[o] = app[p][o] + Held(s, o)
  <2>1. /\ app[p][o] \in Nat /\ handle[p].refcount[o] = app[p][o] + Held(stack[p], o)
        /\ Held(stack[p], o) \in Nat
    BY Numbers
  <2>2. Held(s, o) = Held(stack[p], o) + One(a.wres, o) + One(a.rpkt, o)
    BY <1>3, <1>7, HeldPush
  <2>3. One(a.wres, o) = 0 /\ One(a.rpkt, o) = One(refs, o) /\ One(refs, o) \in {0, 1}
    BY <1>7 DEF One
  <2> HIDE DEF s
  <2> QED
    BY <1>5, <1>9, <2>1, <2>2, <2>3
<1> HIDE DEF s
<1>13. CASE Known(p, handle[p], refs)
  <2>1. Counted(p, h, s, app[p])
    BY <1>12 DEF Counted
  <2>2. SetHandle(p, h) /\ SetStack(p, s) /\ app' = [app EXCEPT ![p] = app[p]]
    BY <1>1, <1>3, <1>8, <1>13
  <2> QED
    BY <1>2, <1>9, <1>11, <2>1, <2>2, BooksStep
<1>14. CASE ~Known(p, handle[p], refs)
  BY <1>1, <1>8, <1>14, BooksReadThrows
<1> QED
  BY <1>13, <1>14

LEMMA BooksReadDestroy ==
    ASSUME IInv, Nest, Books, NEW p \in Peer, ReadDestroy(p)
    PROVE  Books'
<1> DEFINE refs == Incoming(p).refs
           h == [handle[p] EXCEPT !.last_op = 1, !.localobjmap = @ \ refs]
           a == [Idle EXCEPT !.at = "write", !.op = "ack", !.rpkt = refs]
           s == Append(stack[p], a)
<1>1. Read(p, {"destroy"}) /\ app' = app
  BY DEF ReadDestroy
<1>2. /\ \A r \in Peer : DestroysLocal(r, chan'[r])
      /\ Incoming(p).op = "destroy" /\ Fits(Cur(p), Incoming(p).op) /\ stack[p] # << >>
      /\ refs \subseteq Local(p)
  BY <1>1, ReadDestroys, ReadEffect
<1>3. /\ handle[p] \in Handle /\ TidyAt(p, Cur(p))
      /\ Alive(p, handle[p], Cur(p).victim)
      /\ stack[p] \in Seq(Activation) /\ Tidy(p, stack[p])
      /\ app = [app EXCEPT ![p] = app[p]]
  BY <1>2, BooksCurrent
<1>4. Cur(p).victim = {}
  BY <1>2, <1>3 DEF TidyAt, Fits
<1>5. /\ h.refcount = handle[p].refcount /\ h.remoteobjmap = handle[p].remoteobjmap
      /\ h.destr_cand = handle[p].destr_cand /\ h.localobjmap = handle[p].localobjmap \ refs
      /\ h.stream = handle[p].stream
  BY <1>3 DEF Handle
<1>6. refs \in SUBSET Objects
  BY <1>1, IncomingType
<1>7. /\ a \in Activation /\ a.at = "write" /\ a.op = "ack" /\ a.wres = {} /\ a.rpkt = refs
      /\ a.victim = {}
  BY <1>6 DEF Idle, Activation
<1>8. IF Known(p, handle[p], refs)
      THEN SetHandle(p, h) /\ SetStack(p, s)
      ELSE LoopThrows(p, handle[p])
  BY DEF ReadDestroy
<1> HIDE DEF refs, h, a
<1>9. Alive(p, h, {})
  BY <1>3, <1>4, <1>5 DEF Alive
<1>10. TidyAt(p, a)
  BY <1>7 DEF TidyAt
<1>11. Tidy(p, s) /\ VictimOf(s) = {}
  BY <1>3, <1>7, <1>10, TidyPush
<1>12. ASSUME NEW o \in Remote(p)
       PROVE  app[p][o] \in Nat /\ h.refcount[o] = app[p][o] + Held(s, o)
  <2>1. /\ app[p][o] \in Nat /\ handle[p].refcount[o] = app[p][o] + Held(stack[p], o)
        /\ Held(stack[p], o) \in Nat
    BY Numbers
  <2>2. Held(s, o) = Held(stack[p], o) + One(a.wres, o) + One(a.rpkt, o)
    BY <1>3, <1>7, HeldPush
  <2>3. o \notin refs
    BY <1>2, ObjectsAssumption DEF Local, Remote, Other, Peer, Client, Server
  <2>4. One(a.wres, o) = 0 /\ One(a.rpkt, o) = 0
    BY <1>7, <2>3 DEF One
  <2> HIDE DEF s
  <2> QED
    BY <1>5, <2>1, <2>2, <2>4
<1> HIDE DEF s
<1>13. CASE Known(p, handle[p], refs)
  <2>1. Counted(p, h, s, app[p])
    BY <1>12 DEF Counted
  <2>2. SetHandle(p, h) /\ SetStack(p, s) /\ app' = [app EXCEPT ![p] = app[p]]
    BY <1>1, <1>3, <1>8, <1>13
  <2> QED
    BY <1>2, <1>9, <1>11, <2>1, <2>2, BooksStep
<1>14. CASE ~Known(p, handle[p], refs)
  BY <1>1, <1>8, <1>14, BooksReadThrows
<1> QED
  BY <1>13, <1>14

LEMMA BooksReadReply ==
    ASSUME IInv, Nest, Books, NEW p \in Peer, ReadReply(p)
    PROVE  Books'
<1> DEFINE refs == Incoming(p).refs
           proxies == refs \cap Remote(p)
           g == [handle[p] EXCEPT !.last_op = 1]
           d == Deserialize(p, g, refs)
           wres == Cur(p).wres
           a == Resumed(p)
<1>1. Read(p, {"return", "throw"})
  BY DEF ReadReply
<1>2. /\ \A r \in Peer : DestroysLocal(r, chan'[r])
      /\ Incoming(p).op \in {"return", "throw"} /\ stack[p] # << >> /\ Cur(p).at = "wait"
  BY <1>1, ReadDestroys, ReadEffect DEF ReadReply
<1>3. /\ handle[p] \in Handle /\ Cur(p) \in Activation /\ TidyAt(p, Cur(p))
      /\ Alive(p, handle[p], Cur(p).victim) /\ app \in [Peer -> [Objects -> Int]]
  BY <1>2, BooksCurrent
<1>4. Cur(p).victim = {}
  BY <1>2, <1>3 DEF TidyAt
<1>5. g \in Handle /\ Alive(p, g, {}) /\ g.refcount = handle[p].refcount
  BY <1>3, <1>4, AliveMark
<1>6. CASE Known(p, handle[p], refs) /\ Cur(p).op = "call"
  <2>1. PICK kept \in SUBSET proxies :
               /\ app' = [app EXCEPT ![p] = Plus(@, kept)]
               /\ SetHandle(p, Release(Release(d, proxies \ kept), wres \cap Remote(p)))
               /\ SetCur(p, a)
    BY <1>6 DEF ReadReply
  <2> DEFINE back == refs \ kept
             h == Release(Release(d, back \cap Remote(p)), wres \cap Remote(p))
             f == Plus(app[p], kept)
  <2>2. /\ a \in Activation /\ a.at = "user" /\ a.op = "none" /\ a.wres = {}
        /\ a.rpkt = Cur(p).rpkt /\ a.victim = {}
    BY <1>3, <1>4 DEF Resumed, Activation
  <2>3. proxies \ kept = back \cap Remote(p)
    OBVIOUS
  <2>4. SetHandle(p, h) /\ SetCur(p, a) /\ app' = [app EXCEPT ![p] = f]
    BY <1>3, <2>1, <2>3
  <2>5. \A o \in Remote(p) : One(refs, o) = One(back, o) + One(kept, o)
                             /\ One(back, o) \in {0, 1} /\ One(kept, o) \in {0, 1}
    BY DEF One
  <2>6. \A o \in Objects : f[o] = app[p][o] + One(kept, o)
    BY DEF Plus, One
  <2> HIDE DEF g, refs, proxies, wres, a, back, f
  <2>7. /\ d \in Handle /\ Alive(p, d, {})
        /\ \A o \in Remote(p) : d.refcount[o] = g.refcount[o] + One(refs, o)
    BY <1>5, DeserializeType, AliveDeserialize
  <2> HIDE DEF d
  <2>8. ASSUME NEW o \in Remote(p)
        PROVE  /\ o \in Objects /\ app[p][o] \in Nat /\ handle[p].refcount[o] \in Nat
               /\ One(wres, o) \in {0, 1} /\ One(wres, o) <= handle[p].refcount[o]
               /\ One(Cur(p).rpkt, o) \in {0, 1}
               /\ d.refcount[o] = handle[p].refcount[o] + One(back, o) + One(kept, o)
    <3>1. /\ o \in Objects /\ app[p][o] \in Nat /\ handle[p].refcount[o] \in Nat
          /\ handle[p].refcount[o] = app[p][o] + Held(stack[p], o)
          /\ Held(stack[p], o) \in Nat
          /\ One(wres, o) \in {0, 1} /\ One(Cur(p).rpkt, o) \in {0, 1}
          /\ One(wres, o) + One(Cur(p).rpkt, o) <= Held(stack[p], o)
      BY <1>2, Numbers DEF wres
    <3>2. d.refcount[o] = handle[p].refcount[o] + (One(back, o) + One(kept, o))
      BY <1>5, <2>5, <2>7
    <3>3. One(back, o) \in {0, 1} /\ One(kept, o) \in {0, 1}
      BY <2>5
    <3>4. d.refcount[o] = handle[p].refcount[o] + One(back, o) + One(kept, o)
      BY <3>1, <3>2, <3>3
    <3>5. One(wres, o) <= handle[p].refcount[o]
      BY <3>1
    <3> QED
      BY <3>1, <3>4, <3>5
  <2>9. \A o \in Remote(p) : One(back, o) + One(wres, o) <= d.refcount[o]
    <3> TAKE o \in Remote(p)
    <3>1. /\ handle[p].refcount[o] \in Nat /\ One(wres, o) \in {0, 1}
          /\ One(wres, o) <= handle[p].refcount[o]
          /\ d.refcount[o] = handle[p].refcount[o] + One(back, o) + One(kept, o)
      BY <2>8
    <3>2. One(back, o) \in {0, 1} /\ One(kept, o) \in {0, 1}
      BY <2>5
    <3> QED
      BY <3>1, <3>2
  <2>10. \A S, T : (\A o \in Remote(p) : One(S, o) + One(T, o) <= d.refcount[o]) =>
           LET x == Release(Release(d, S \cap Remote(p)), T \cap Remote(p))
           IN  /\ x \in Handle /\ Alive(p, x, {})
               /\ \A o \in Remote(p) : x.refcount[o] = d.refcount[o] - One(S, o) - One(T, o)
    BY <2>7, AliveDropTwice
  <2>11. LET x == Release(Release(d, back \cap Remote(p)), wres \cap Remote(p))
         IN  /\ x \in Handle /\ Alive(p, x, {})
             /\ \A o \in Remote(p) :
                  x.refcount[o] = d.refcount[o] - One(back, o) - One(wres, o)
    BY <2>9, <2>10
  <2>12. /\ Alive(p, h, {})
         /\ \A o \in Remote(p) : h.refcount[o] = d.refcount[o] - One(back, o) - One(wres, o)
    BY <2>11
  <2> HIDE DEF h
  <2>13. TidyAt(p, a)
    BY <2>2 DEF TidyAt
  <2>14. ASSUME NEW o \in Remote(p)
         PROVE  /\ f[o] \in Nat
                /\ h.refcount[o] + app[p][o] + One(Cur(p).wres, o) + One(Cur(p).rpkt, o)
                     = handle[p].refcount[o] + f[o] + One(a.wres, o) + One(a.rpkt, o)
    <3> DEFINE r == handle[p].refcount[o]  b == One(back, o)   k == One(kept, o)
               w == One(wres, o)           u == app[p][o]      t == One(Cur(p).rpkt, o)
               hr == h.refcount[o]
    <3>1. /\ r \in Nat /\ u \in Nat /\ b \in {0, 1} /\ k \in {0, 1} /\ w \in {0, 1} /\ t \in {0, 1}
          /\ hr = (r + b + k) - b - w /\ f[o] = u + k
      BY <2>5, <2>6, <2>8, <2>12
    <3>2. One(Cur(p).wres, o) = w /\ One(a.wres, o) = 0 /\ One(a.rpkt, o) = t
      BY <2>2 DEF One, wres
    <3> HIDE DEF r, b, k, w, u, t, hr
    <3>3. /\ r \in Int /\ u \in Nat /\ b \in Int /\ k \in Nat /\ w \in Int /\ t \in Int
      BY <3>1
    <3>4. u + k \in Nat /\ hr + u + w + t = r + (u + k) + 0 + t
      BY <3>1, <3>3
    <3> QED
      BY <3>1, <3>2, <3>4 DEF r, u, t, hr
  <2> QED
    BY <1>2, <2>2, <2>4, <2>12, <2>13, <2>14, BooksReplace
<1>7. CASE ~(Known(p, handle[p], refs) /\ Cur(p).op = "call")
  <2>1. LoopThrows(p, handle[p]) /\ app' = app
    BY <1>7 DEF ReadReply
  <2> QED
    BY <1>1, <2>1, BooksReadThrows
<1> QED
  BY <1>6, <1>7

LEMMA BooksReadAck ==
    ASSUME IInv, Nest, Books, NEW p \in Peer, ReadAck(p)
    PROVE  Books'
<1> DEFINE g == [handle[p] EXCEPT !.last_op = 1]
           h == Delete(g, Cur(p).victim)
           a == [Cur(p) EXCEPT !.at = "write", !.victim = {}]
<1>1. Read(p, {"return", "throw"}) /\ Cur(p).at = "gc" /\ app' = app
  BY DEF ReadAck
<1>2. \A r \in Peer : DestroysLocal(r, chan'[r])
  BY <1>1, ReadDestroys
<1>3. /\ stack[p] # << >> /\ handle[p] \in Handle /\ Cur(p) \in Activation /\ TidyAt(p, Cur(p))
      /\ Alive(p, handle[p], Cur(p).victim) /\ app = [app EXCEPT ![p] = app[p]]
  BY <1>1, ReadEffect, BooksCurrent
<1>4. g \in Handle /\ Alive(p, g, Cur(p).victim) /\ g.refcount = handle[p].refcount
  BY <1>3, AliveMark
<1>5. CASE Incoming(p).op = "return"
  <2>1. SetHandle(p, h) /\ SetCur(p, a) /\ app' = [app EXCEPT ![p] = app[p]]
    BY <1>1, <1>3, <1>5 DEF ReadAck
  <2>2. /\ a \in Activation /\ a.at = "write" /\ a.op = Cur(p).op /\ a.wres = Cur(p).wres
        /\ a.rpkt = Cur(p).rpkt /\ a.victim = {}
    BY <1>3 DEF Activation
  <2> HIDE DEF g, a
  <2>3. Alive(p, h, {}) /\ h.refcount = handle[p].refcount
    BY <1>4, AliveDelete, DeleteFields
  <2> HIDE DEF h
  <2>4. TidyAt(p, a)
    BY <1>3, <2>2 DEF TidyAt
  <2>5. ASSUME NEW o \in Remote(p)
        PROVE  /\ app[p][o] \in Nat
               /\ h.refcount[o] + app[p][o] + One(Cur(p).wres, o) + One(Cur(p).rpkt, o)
                    = handle[p].refcount[o] + app[p][o] + One(a.wres, o) + One(a.rpkt, o)
    BY <2>2, <2>3, Numbers
  <2> QED
    BY <1>2, <1>3, <2>1, <2>2, <2>3, <2>4, <2>5, BooksReplace
<1>6. CASE Incoming(p).op # "return"
  <2>1. LoopThrows(p, handle[p])
    BY <1>6 DEF ReadAck
  <2> QED
    BY <1>1, <2>1, BooksReadThrows
<1> QED
  BY <1>5, <1>6

-----------------------------------------------------------------------------
(* Books is an invariant.                                                   *)

LEMMA BooksInit == Init => Books
<1> SUFFICES ASSUME Init PROVE Books
  OBVIOUS
<1> DEFINE a == [Idle EXCEPT !.at = "wait", !.op = "call"]
           b == [Idle EXCEPT !.at = "write", !.op = "hello", !.wres = {TopObj}]
           s == <<a>>
           r == <<b>>
<1>1. /\ a.at = "wait" /\ a.op = "call" /\ a.wres = {} /\ a.rpkt = {} /\ a.victim = {}
      /\ b.at = "write" /\ b.op = "hello" /\ b.wres = {TopObj} /\ b.rpkt = {} /\ b.victim = {}
  BY DEF Idle
<1>2. stack = [p \in Peer |-> IF p = Client THEN <<a>> ELSE <<b>>]
  BY DEF Init
<1>3. a \in Activation /\ b \in Activation
  BY ObjectsAssumption DEF Activation, Idle, Objects
<1> HIDE DEF a, b
<1>4. /\ Client \in Peer /\ Server \in Peer /\ Client # Server /\ Peer = {Client, Server}
      /\ stack[Client] = s /\ stack[Server] = r
      /\ Remote(Server) = ClientObjs /\ TopObj \notin ClientObjs
  BY <1>2, ObjectsAssumption DEF Peer, Client, Server, Remote, Other, Local
<1>5. /\ Len(s) = 1 /\ s[1] = a /\ s # << >> /\ Len(r) = 1 /\ r[1] = b /\ r # << >>
      /\ s = Append(<< >>, a) /\ r = Append(<< >>, b) /\ << >> \in Seq(Activation)
  BY <1>3
<1>6. \A o : Held(<< >>, o) = 0
  <2> TAKE o
  <2>1. {i \in DOMAIN << >> : o \in << >>[i].wres} = {}
        /\ {i \in DOMAIN << >> : o \in << >>[i].rpkt} = {}
    OBVIOUS
  <2> QED
    BY <2>1, FS_EmptySet DEF Held
<1> DEFINE e == << >>
<1>7. /\ e \in Seq(Activation) /\ s = Append(e, a) /\ r = Append(e, b)
      /\ \A o : Held(e, o) = 0
  BY <1>5, <1>6
<1> HIDE DEF s, r, e
<1>8. \A o : Held(s, o) = 0 + One(a.wres, o) + One(a.rpkt, o)
             /\ Held(r, o) = 0 + One(b.wres, o) + One(b.rpkt, o)
  BY <1>3, <1>7, HeldPush
<1>9. \A o \in Remote(Client) : Held(s, o) = 0
  BY <1>1, <1>8 DEF One
<1>10. \A o \in Remote(Server) : Held(r, o) = 0
  BY <1>1, <1>4, <1>8 DEF One
<1>11. \A p \in Peer : /\ handle[p] = NewHandle /\ chan[p] = << >>
                       /\ \A o \in Remote(p) : app[p][o] = 0
  BY LocalRemote DEF Init
<1>12. \A p \in Peer : Alive(p, handle[p], {})
  BY <1>11, LocalRemote DEF Alive, NewHandle
<1>13. \A p \in Peer : DestroysLocal(p, chan[p])
  BY <1>11 DEF DestroysLocal
<1>14. \A p \in Peer : \A o \in Remote(p) : handle[p].refcount[o] = 0
  BY <1>11, LocalRemote DEF NewHandle
<1>15. Counted(Client, handle[Client], s, app[Client])
  BY <1>4, <1>9, <1>11, <1>14 DEF Counted
<1>16. Counted(Server, handle[Server], r, app[Server])
  <2>1. Server \in Peer
    BY <1>4
  <2> QED
    BY <1>10, <1>11, <1>14, <2>1 DEF Counted
<1>17. TidyAt(Client, a) /\ TidyAt(Server, b)
  BY <1>1, <1>4 DEF TidyAt
<1>18. Tidy(Client, s) /\ Tidy(Server, r)
  BY <1>5, <1>17 DEF Tidy
<1>19. VictimOf(s) = {} /\ VictimOf(r) = {}
  BY <1>1, <1>5 DEF VictimOf, Last
<1>20. /\ BooksOf(Client, handle[Client], stack[Client], chan[Client], app[Client])
       /\ BooksOf(Server, handle[Server], stack[Server], chan[Server], app[Server])
  BY <1>4, <1>12, <1>13, <1>15, <1>16, <1>18, <1>19 DEF BooksOf
<1> QED
  BY <1>4, <1>20 DEF Books

LEMMA BooksNext == IInv /\ Nest /\ Books /\ [Next]_vars => Books'
<1> SUFFICES ASSUME IInv, Nest, Books, [Next]_vars PROVE Books'
  OBVIOUS
<1>1. CASE UNCHANGED vars
  BY <1>1 DEF vars, Books
<1>2. CASE Next
  <2> PICK p \in Peer :
        \/ Invoke(p) \/ Answer(p) \/ Keep(p) \/ Drop(p)
        \/ GcSkip(p) \/ GcDestroy(p) \/ WriteCall(p) \/ WriteReply(p) \/ WriteFails(p)
        \/ ReadRequest(p) \/ ReadDestroy(p) \/ ReadReply(p) \/ ReadAck(p) \/ ReadFails(p)
    BY <1>2 DEF Next
  <2>1. CASE Invoke(p) \/ Answer(p) \/ Keep(p) \/ Drop(p)
    BY <2>1, BooksInvoke, BooksAnswer, BooksKeep, BooksDrop
  <2>2. CASE GcSkip(p) \/ GcDestroy(p)
    BY <2>2, BooksGcSkip, BooksGcDestroy
  <2>3. CASE WriteCall(p) \/ WriteReply(p) \/ WriteFails(p)
    BY <2>3, BooksWriteCall, BooksWriteReply, BooksWriteFails
  <2>4. CASE ReadRequest(p) \/ ReadDestroy(p)
    BY <2>4, BooksReadRequest, BooksReadDestroy
  <2>5. CASE ReadReply(p) \/ ReadAck(p) \/ ReadFails(p)
    BY <2>5, BooksReadReply, BooksReadAck, BooksReadFails
  <2> QED
    BY <2>1, <2>2, <2>3, <2>4, <2>5
<1> QED
  BY <1>1, <1>2

LEMMA Bookkeeping == Spec => [](IInv /\ Nest /\ Books)
<1>1. Init => IInv /\ Nest /\ Books
  BY InitInvariant, NestInit, BooksInit
<1>2. (IInv /\ Nest /\ Books) /\ [Next]_vars => (IInv /\ Nest /\ Books)'
  BY NextInvariant, NestNext, BooksNext
<1> QED
  BY <1>1, <1>2, PTL DEF Spec

(* Only the last activation destroys a proxy.                               *)
LEMMA VictimsAre ==
    ASSUME IInv, Nest, Books, NEW p \in Peer
    PROVE  Victims(p) = VictimOf(stack[p])
<1> PICK s : s = stack[p]
  OBVIOUS
<1>1. s \in Seq(Activation) /\ Well(p, s) /\ Tidy(p, s)
  BY BooksCurrent
<1>2. DOMAIN s = 1 .. Len(s) /\ Len(s) \in Nat
  BY <1>1
<1>3. Victims(p) = UNION {s[i].victim : i \in DOMAIN s}
  BY DEF Victims
<1>4. CASE s = << >>
  BY <1>3, <1>4 DEF VictimOf
<1>5. CASE s # << >>
  <2>1. Len(s) \in 1 .. Len(s)
    BY <1>1, <1>2, <1>5
  <2>2. \A i \in 1 .. Len(s) - 1 : s[i].victim = {}
    BY <1>1, <1>2 DEF Well, Tidy, TidyAt
  <2>3. \A i \in 1 .. Len(s) : i \in 1 .. Len(s) - 1 \/ i = Len(s)
    BY <1>2
  <2>4. \A x : x \in Victims(p) <=> x \in s[Len(s)].victim
    BY <1>2, <1>3, <2>1, <2>2, <2>3
  <2> QED
    BY <1>5, <2>4 DEF VictimOf, Last
<1> QED
  BY <1>4, <1>5

(* The counter of a proxy is the number of variants that hold it, in the    *)
(* application and in the packets on the stack, through nested calls,       *)
(* collections and exceptions.                                              *)
THEOREM ReferencesAreCounted == Spec => []RefcountExact
<1>1. IInv /\ Nest /\ Books => RefcountExact
  <2> SUFFICES ASSUME IInv, Nest, Books, NEW p \in Peer, NEW o \in Remote(p)
               PROVE  handle[p].refcount[o] = app[p][o]
                        + Cardinality({i \in DOMAIN stack[p] : o \in stack[p][i].wres})
                        + Cardinality({i \in DOMAIN stack[p] : o \in stack[p][i].rpkt})
    BY DEF RefcountExact
  <2> DEFINE X == {i \in DOMAIN stack[p] : o \in stack[p][i].wres}
             Y == {i \in DOMAIN stack[p] : o \in stack[p][i].rpkt}
  <2>1. /\ app[p][o] \in Nat /\ handle[p].refcount[o] = app[p][o] + Held(stack[p], o)
        /\ stack[p] \in Seq(Activation)
    BY Numbers, BooksCurrent
  <2>2. Held(stack[p], o) = Cardinality(X) + Cardinality(Y)
    BY DEF Held
  <2>3. Cardinality(X) \in Nat /\ Cardinality(Y) \in Nat
    BY <2>1, HoldersFinite
  <2> HIDE DEF X, Y
  <2>4. handle[p].refcount[o] = app[p][o] + Cardinality(X) + Cardinality(Y)
    BY <2>1, <2>2, <2>3
  <2> QED
    BY <2>4 DEF X, Y
<1> QED
  BY <1>1, Bookkeeping, PTL

(* A proxy exists exactly while something refers to it, while it waits as a *)
(* candidate, or while it is being destroyed.                               *)
THEOREM ProxiesLiveExactly == Spec => []ProxyLifetime
<1>1. IInv /\ Nest /\ Books => ProxyLifetime
  <2> SUFFICES ASSUME IInv, Nest, Books, NEW p \in Peer
               PROVE  handle[p].remoteobjmap =
                        {o \in Remote(p) : handle[p].refcount[o] > 0}
                          \cup handle[p].destr_cand \cup Victims(p)
    BY DEF ProxyLifetime
  <2>1. Alive(p, handle[p], VictimOf(stack[p])) /\ Victims(p) = VictimOf(stack[p])
    BY BooksCurrent, VictimsAre
  <2> QED
    BY <2>1 DEF Alive
<1> QED
  BY <1>1, Bookkeeping, PTL

(* A closed end keeps no candidate, no exported object and no proxy that is *)
(* being destroyed, whatever it was doing when it closed.                   *)
THEOREM ClosingCleans == Spec => []ClosedIsClean
<1>1. IInv /\ Nest /\ Books => ClosedIsClean
  <2> SUFFICES ASSUME IInv, Nest, Books, NEW p \in Peer, ~handle[p].stream
               PROVE  /\ handle[p].destr_cand = {} /\ handle[p].localobjmap = {}
                      /\ Victims(p) = {}
    BY DEF ClosedIsClean
  <2>1. Alive(p, handle[p], VictimOf(stack[p])) /\ Victims(p) = VictimOf(stack[p])
    BY BooksCurrent, VictimsAre
  <2> QED
    BY <2>1 DEF Alive
<1> QED
  BY <1>1, Bookkeeping, PTL

-----------------------------------------------------------------------------
(* The proxy op_destroy is written for.                                     *)

(* The step of a side that destroys one: only a read.                       *)
LEMMA DestroyingReads ==
    ASSUME IInv, Nest, Books, NEW p \in Peer, stack[p] # << >>, Cur(p).at = "gc",
           \/ Invoke(p) \/ Answer(p) \/ Keep(p) \/ Drop(p)
           \/ GcSkip(p) \/ GcDestroy(p) \/ WriteCall(p) \/ WriteReply(p) \/ WriteFails(p)
           \/ ReadRequest(p) \/ ReadDestroy(p) \/ ReadReply(p) \/ ReadAck(p) \/ ReadFails(p)
    PROVE  \/ SetHandle(p, Delete([handle[p] EXCEPT !.last_op = 1], Cur(p).victim))
           \/ LoopThrows(p, handle[p])
<1>1. ~At(p, {"user"}) /\ ~At(p, {"write"})
  BY DEF At
<1>2. ~(Invoke(p) \/ Answer(p) \/ Keep(p) \/ Drop(p))
  BY <1>1 DEF Invoke, Answer, Keep, Drop
<1>3. ~(GcSkip(p) \/ GcDestroy(p) \/ WriteCall(p) \/ WriteReply(p) \/ WriteFails(p))
  BY <1>1 DEF GcSkip, GcDestroy, WriteCall, WriteReply, WriteFails
<1>4. ~ReadReply(p)
  BY DEF ReadReply
<1>5. ~ReadRequest(p)
  <2>1. ASSUME Read(p, {"request"}) PROVE FALSE
    BY <2>1, ReadDestroys DEF Fits
  <2> QED
    BY <2>1 DEF ReadRequest
<1>6. ~ReadDestroy(p)
  <2>1. ASSUME Read(p, {"destroy"}) PROVE FALSE
    BY <2>1, ReadDestroys DEF Fits
  <2> QED
    BY <2>1 DEF ReadDestroy
<1>7. ReadAck(p) \/ ReadFails(p)
  BY <1>2, <1>3, <1>4, <1>5, <1>6
<1> QED
  BY <1>7 DEF ReadAck, ReadFails

(* A side changes no handle but its own.                                    *)
LEMMA OwnHandle ==
    ASSUME NEW q \in Peer,
           \/ Invoke(q) \/ Answer(q) \/ Keep(q) \/ Drop(q)
           \/ GcSkip(q) \/ GcDestroy(q) \/ WriteCall(q) \/ WriteReply(q) \/ WriteFails(q)
           \/ ReadRequest(q) \/ ReadDestroy(q) \/ ReadReply(q) \/ ReadAck(q) \/ ReadFails(q)
    PROVE  \E h : SetHandle(q, h)
<1>1. CASE Invoke(q) \/ Answer(q) \/ Keep(q) \/ Drop(q)
  BY <1>1 DEF Invoke, Answer, Keep, Drop
<1>2. CASE GcSkip(q) \/ GcDestroy(q) \/ WriteCall(q) \/ WriteReply(q) \/ WriteFails(q)
  BY <1>2 DEF GcSkip, GcDestroy, WriteCall, WriteReply, WriteFails
<1>3. CASE ReadRequest(q) \/ ReadDestroy(q) \/ ReadReply(q)
  BY <1>3 DEF ReadRequest, ReadDestroy, ReadReply, LoopThrows
<1>4. CASE ReadAck(q) \/ ReadFails(q)
  BY <1>4 DEF ReadAck, ReadFails, LoopThrows
<1> QED
  BY <1>1, <1>2, <1>3, <1>4

LEMMA DestroyStep ==
    ASSUME IInv, Nest, Books, Next, NEW p \in Peer, NEW o \in Victims(p)
    PROVE  handle'[p].refcount[o] = 0 /\ o \notin handle'[p].destr_cand
<1>1. /\ handle[p] \in Handle /\ stack[p] \in Seq(Activation) /\ o \in VictimOf(stack[p])
      /\ Alive(p, handle[p], VictimOf(stack[p]))
  BY BooksCurrent, VictimsAre
<1>2. stack[p] # << >>
  BY <1>1 DEF VictimOf
<1>3. Cur(p).victim = VictimOf(stack[p]) /\ TidyAt(p, Cur(p)) /\ Cur(p) \in Activation
  BY <1>2, BooksCurrent
<1>4. Cur(p).at = "gc"
  BY <1>1, <1>3 DEF TidyAt
<1>5. handle[p].refcount[o] = 0 /\ o \notin handle[p].destr_cand
  BY <1>1 DEF Alive
<1> PICK q \in Peer :
      \/ Invoke(q) \/ Answer(q) \/ Keep(q) \/ Drop(q)
      \/ GcSkip(q) \/ GcDestroy(q) \/ WriteCall(q) \/ WriteReply(q) \/ WriteFails(q)
      \/ ReadRequest(q) \/ ReadDestroy(q) \/ ReadReply(q) \/ ReadAck(q) \/ ReadFails(q)
  BY DEF Next
<1>6. \A h : SetHandle(q, h) => handle' = [handle EXCEPT ![q] = h]
  BY DEF SetHandle
<1>7. handle \in [Peer -> Handle]
  BY DEF IInv, TypeOK
<1>8. CASE q # p
  <2>1. PICK h : SetHandle(q, h)
    BY OwnHandle
  <2>2. handle'[p] = handle[p]
    BY <1>6, <1>7, <1>8, <2>1
  <2> QED
    BY <1>5, <2>2
<1>9. CASE q = p
  <2> DEFINE g == [handle[p] EXCEPT !.last_op = 1]
             c == CloseConnection(g)
             V == Cur(p).victim
  <2>1. SetHandle(p, Delete(g, V)) \/ SetHandle(p, Delete(c, V))
    <3>1. SetHandle(p, Delete(g, V)) \/ LoopThrows(p, handle[p])
      BY <1>2, <1>4, <1>9, DestroyingReads
    <3> QED
      BY <1>4, <3>1 DEF LoopThrows
  <2>2. /\ g \in Handle /\ g.refcount = handle[p].refcount
        /\ g.destr_cand = handle[p].destr_cand
    BY <1>1 DEF Handle
  <2> HIDE DEF g, V
  <2>3. c \in Handle /\ c.refcount = g.refcount /\ c.destr_cand = {}
    BY <2>2, CloseConnectionType, CloseFields
  <2> HIDE DEF c
  <2>4. /\ Delete(g, V).refcount = g.refcount /\ Delete(g, V).destr_cand = g.destr_cand
        /\ Delete(c, V).refcount = c.refcount /\ Delete(c, V).destr_cand = c.destr_cand
    BY <2>2, <2>3, DeleteFields
  <2>5. handle'[p] = Delete(g, V) \/ handle'[p] = Delete(c, V)
    BY <1>6, <1>7, <1>9, <2>1
  <2> QED
    BY <1>5, <2>2, <2>3, <2>4, <2>5
<1> QED
  BY <1>8, <1>9

(* Once op_destroy is written for an object, no step of either side brings  *)
(* its proxy back before it is deleted.                                     *)
THEOREM DestroyStaysFinal == Spec => DestroyIsFinal
<1>1. IInv /\ Nest /\ Books /\ [Next]_vars =>
        [\A p \in Peer : \A o \in Victims(p) :
            handle'[p].refcount[o] = 0 /\ o \notin handle'[p].destr_cand]_vars
  <2> SUFFICES ASSUME IInv, Nest, Books, Next, NEW p \in Peer, NEW o \in Victims(p)
               PROVE  handle'[p].refcount[o] = 0 /\ o \notin handle'[p].destr_cand
    BY DEF vars
  <2> QED
    BY DestroyStep
<1> QED
  BY <1>1, Bookkeeping, PTL DEF Spec, DestroyIsFinal

-----------------------------------------------------------------------------
(***************************************************************************)
(* The exported objects.  A side with handle h, stack s and packets c on   *)
(* their way to it, and its partner with handle k and packets d: what one  *)
(* can name the other has, what one keeps exported the other can name, and *)
(* a proxy that is being destroyed is the one op_destroy erases.           *)
(***************************************************************************)
Names(c) == UNION {c[i].refs : i \in DOMAIN c}

Collects(s) == s # << >> /\ Last(s).at = "gc"

ExportsOf(p, h, s, c, k, d) ==
    /\ h.remoteobjmap \ VictimOf(s) \subseteq k.localobjmap
    /\ Names(c) \cap Remote(p) \subseteq k.localobjmap
    /\ Names(c) \cap Local(p) \subseteq h.localobjmap
    /\ h.localobjmap \subseteq k.remoteobjmap \cup Names(d)
    /\ d = << >> => VictimOf(s) \cap k.localobjmap = {}
    /\ d # << >> /\ Head(d).op = "destroy" => Names(d) = VictimOf(s)
    /\ Collects(s) /\ c # << >> => Names(c) = {}

Exports ==
    Open => \A p \in Peer :
              ExportsOf(p, handle[p], stack[p], chan[p],
                        handle[Other(p)], chan[Other(p)])

LEMMA NamesNone == Names(<< >>) = {}
  BY DEF Names

LEMMA NamesOne ==
    ASSUME NEW c \in Seq(Packet), c # << >>, Len(c) = 1
    PROVE  Names(c) = Head(c).refs
<1>1. DOMAIN c = 1 .. Len(c)
  OBVIOUS
<1>2. Head(c) = c[1]
  OBVIOUS
<1>3. DOMAIN c = {1}
  BY <1>1
<1> QED
  BY <1>2, <1>3 DEF Names

(* The objects of the two sides.                                            *)
LEMMA OfSides ==
    ASSUME NEW p \in Peer
    PROVE  /\ Remote(p) = Local(Other(p)) /\ Remote(Other(p)) = Local(p)
           /\ Local(p) \cap Remote(p) = {}
  BY ObjectsAssumption DEF Local, Remote, Other, Peer, Client, Server

(* What Books and Exports say of an open connection.                        *)
LEMMA ExportsCurrent ==
    ASSUME IInv, Nest, Books, Exports, Open, NEW p \in Peer
    PROVE  /\ ExportsOf(p, handle[p], stack[p], chan[p],
                        handle[Other(p)], chan[Other(p)])
           /\ ExportsOf(Other(p), handle[Other(p)], stack[Other(p)], chan[Other(p)],
                        handle[p], chan[p])
           /\ handle[p].localobjmap \subseteq Local(p)
           /\ handle[Other(p)].localobjmap \subseteq Local(Other(p))
           /\ ~Collects(stack[p]) => VictimOf(stack[p]) = {}
           /\ ~Collects(stack[Other(p)]) => VictimOf(stack[Other(p)]) = {}
           /\ handle[p].stream /\ handle[Other(p)].stream
<1>1. /\ Other(p) \in Peer /\ Other(Other(p)) = p
  BY LocalRemote
<1>2. \A r \in Peer : handle[r].localobjmap \subseteq Local(r) /\ handle[r].stream
  BY BooksCurrent DEF Alive, Open
<1>3. \A r \in Peer : ~Collects(stack[r]) => VictimOf(stack[r]) = {}
  <2> TAKE r \in Peer
  <2>1. stack[r] # << >> => /\ TidyAt(r, Cur(r)) /\ VictimOf(stack[r]) = Cur(r).victim
                            /\ Cur(r) = Last(stack[r])
    BY BooksCurrent
  <2> QED
    BY <2>1 DEF Collects, VictimOf, TidyAt
<1>4. \A r \in Peer : ExportsOf(r, handle[r], stack[r], chan[r],
                                handle[Other(r)], chan[Other(r)])
  BY DEF Exports
<1> QED
  BY <1>1, <1>2, <1>3, <1>4

-----------------------------------------------------------------------------
(* The kinds of steps.                                                      *)

LEMMA ExportsStep ==
    ASSUME IInv, NEW p \in Peer, NEW h, NEW s, SetHandle(p, h), SetStack(p, s),
           NEW c, NEW d, chan'[p] = c, chan'[Other(p)] = d,
           h.stream /\ handle[Other(p)].stream =>
             /\ ExportsOf(p, h, s, c, handle[Other(p)], d)
             /\ ExportsOf(Other(p), handle[Other(p)], stack[Other(p)], d, h, c)
    PROVE  Exports'
<1> DEFINE q == Other(p)
<1>1. q \in Peer /\ q # p /\ Other(q) = p /\ Peer = {p, q}
  BY LocalRemote
<1>2. /\ handle'[p] = h /\ handle'[q] = handle[q]
      /\ stack'[p] = s /\ stack'[q] = stack[q]
  BY <1>1 DEF IInv, TypeOK, SetHandle, SetStack
<1>3. Open' => h.stream /\ handle[q].stream
  BY StreamAfter
<1>4. ASSUME Open', NEW r \in Peer
      PROVE  ExportsOf(r, handle'[r], stack'[r], chan'[r], handle'[Other(r)], chan'[Other(r)])
  BY <1>1, <1>2, <1>3, <1>4
<1> QED
  BY <1>4 DEF Exports

(* The connection is closed.                                                *)
LEMMA ExportsClosed ==
    ASSUME ~Open'
    PROVE  Exports'
  BY DEF Exports

(* Neither the maps nor the packets change.                                 *)
LEMMA ExportsKeep ==
    ASSUME IInv, Nest, Books, Exports, NEW p \in Peer, NEW h, NEW s,
           SetHandle(p, h), SetStack(p, s), chan' = chan,
           h.stream => /\ handle[p].stream /\ h.remoteobjmap = handle[p].remoteobjmap
                       /\ h.localobjmap = handle[p].localobjmap,
           VictimOf(s) = VictimOf(stack[p]), Collects(s) <=> Collects(stack[p])
    PROVE  Exports'
<1> DEFINE q == Other(p)
<1>1. ASSUME h.stream, handle[q].stream
      PROVE  /\ ExportsOf(p, h, s, chan[p], handle[q], chan[q])
             /\ ExportsOf(q, handle[q], stack[q], chan[q], h, chan[p])
  <2>1. Open
    BY <1>1, NestCurrent
  <2>2. /\ ExportsOf(p, handle[p], stack[p], chan[p], handle[q], chan[q])
        /\ ExportsOf(q, handle[q], stack[q], chan[q], handle[p], chan[p])
    BY <2>1, ExportsCurrent
  <2> QED
    BY <1>1, <2>2 DEF ExportsOf
<1> QED
  BY <1>1, ExportsStep

(* The handle of p changes, its maps do not.                                *)
LEMMA ExportsHandle ==
    ASSUME IInv, Nest, Books, Exports, NEW p \in Peer, NEW h,
           SetHandle(p, h), UNCHANGED <<stack, chan>>,
           h.stream => /\ handle[p].stream /\ h.remoteobjmap = handle[p].remoteobjmap
                       /\ h.localobjmap = handle[p].localobjmap
    PROVE  Exports'
<1>1. SetStack(p, stack[p])
  BY DEF SetStack, IInv, TypeOK
<1> QED
  BY <1>1, ExportsKeep

(* release, as long as it leaves the connection open.                       *)
LEMMA ReleaseOpen ==
    ASSUME NEW h \in Handle, NEW S \in SUBSET Objects, Release(h, S).stream
    PROVE  /\ h.stream /\ Release(h, S).remoteobjmap = h.remoteobjmap
           /\ Release(h, S).localobjmap = h.localobjmap
<1> DEFINE g == Release(h, S)
           dead == {o \in S : h.refcount[o] = 1}
<1>1. /\ h.stream /\ dead \cap h.owner = {} =>
           g.remoteobjmap = h.remoteobjmap /\ g.localobjmap = h.localobjmap
      /\ h.stream /\ dead \cap h.owner # {} => g.stream = FALSE
  BY ReleaseFields
<1>2. h.stream
  BY ReleaseType
<1> HIDE DEF g, dead
<1>3. g.stream
  BY DEF g
<1> QED
  BY <1>1, <1>2, <1>3 DEF g

(* p writes a packet, and keeps or ends its activation.                     *)
LEMMA ExportsSent ==
    ASSUME IInv, Nest, Books, Exports, NEW p \in Peer, At(p, {"write"}), handle[p].stream,
           NEW h, NEW s, NEW op, NEW refs, [op |-> op, refs |-> refs] \in Packet,
           SetHandle(p, h), SetStack(p, s), Send(p, op, refs),
           h.stream =>
             /\ h.remoteobjmap = handle[p].remoteobjmap
             /\ h.localobjmap = handle[p].localobjmap \cup (refs \cap Local(p)),
           refs \cap Remote(p) \subseteq handle[p].remoteobjmap,
           op = "destroy" => refs = VictimOf(s),
           op # "destroy" => VictimOf(s) = {},
           Open /\ Collects(stack[Other(p)]) => refs = {}
    PROVE  Exports'
<1> DEFINE q == Other(p)
           k == handle[q]
           d == chan'[q]
           U == VictimOf(stack[p])
           W == VictimOf(stack[q])
<1>1. q \in Peer /\ q # p /\ Other(q) = p
  BY LocalRemote
<1>2. Runs(stack[p]) /\ stack[p] # << >> /\ ~Collects(stack[p])
  BY BooksCurrent DEF At, Runs, Collects, Last
<1>3. /\ chan' \in [Peer -> Seq(Packet)] /\ chan'[p] = chan[p]
      /\ chan[q] = << >> => /\ d # << >> /\ Len(d) = 1
                            /\ Head(d) = [op |-> op, refs |-> refs]
  <2> PICK pkt \in Packet : pkt = [op |-> op, refs |-> refs]
    OBVIOUS
  <2>1. chan \in [Peer -> Seq(Packet)] /\ chan' = [chan EXCEPT ![q] = Append(@, pkt)]
    BY DEF Send, IInv, TypeOK
  <2>2. chan'[q] = Append(chan[q], pkt) /\ chan'[p] = chan[p]
    BY <1>1, <2>1
  <2>3. chan[q] = << >> => chan'[q] = <<pkt>>
    BY <2>2
  <2>4. Head(<<pkt>>) = pkt
    OBVIOUS
  <2>5. chan' \in [Peer -> Seq(Packet)]
        /\ (chan[q] = << >> => d # << >> /\ Len(d) = 1)
    BY SentTo
  <2> QED
    BY <2>2, <2>3, <2>4, <2>5
<1>4. ASSUME h.stream, k.stream
      PROVE  /\ ExportsOf(p, h, s, chan'[p], k, d)
             /\ ExportsOf(q, k, stack[q], d, h, chan'[p])
  <2>1. Open
    BY <1>4, NestCurrent
  <2>2. /\ ExportsOf(p, handle[p], stack[p], chan[p], k, chan[q])
        /\ ExportsOf(q, k, stack[q], chan[q], handle[p], chan[p])
        /\ U = {} /\ (~Collects(stack[q]) => W = {})
    BY <1>2, <2>1, ExportsCurrent
  <2>3. chan[p] = << >> /\ chan[q] = << >>
    BY <1>2, <2>1, TokenAt
  <2>4. d # << >> /\ Head(d).op = op /\ Names(d) = refs /\ chan'[p] = << >>
    <3>1. d \in Seq(Packet) /\ Len(d) = 1 /\ d # << >>
          /\ Head(d) = [op |-> op, refs |-> refs] /\ chan'[p] = << >>
      BY <1>1, <1>3, <2>3
    <3>2. Names(d) = Head(d).refs
      BY <3>1, NamesOne
    <3> QED
      BY <3>1, <3>2
  <2>5. /\ Remote(p) = Local(q) /\ Remote(q) = Local(p)
    BY OfSides
  <2>6. Collects(stack[q]) => refs = {}
    BY <2>1
  <2> HIDE DEF d, k, q, U, W
  <2>7. /\ handle[p].remoteobjmap \subseteq k.localobjmap
        /\ handle[p].localobjmap \subseteq k.remoteobjmap
        /\ k.remoteobjmap \ W \subseteq handle[p].localobjmap
        /\ k.localobjmap \subseteq handle[p].remoteobjmap
        /\ W \cap handle[p].localobjmap = {}
    BY <2>2, <2>3, NamesNone DEF ExportsOf, U, W
  <2>8. ExportsOf(p, h, s, chan'[p], k, d)
    BY <1>4, <2>4, <2>7, NamesNone DEF ExportsOf
  <2>9. W \cap h.localobjmap = {}
    BY <1>4, <2>2, <2>6, <2>7
  <2>10. ExportsOf(q, k, stack[q], d, h, chan'[p])
    BY <1>4, <2>4, <2>5, <2>6, <2>7, <2>9, NamesNone DEF ExportsOf, W
  <2> QED
    BY <2>8, <2>10
<1> QED
  BY <1>4, ExportsStep

(* What p has taken off its channel.                                        *)
LEMMA ExportsRead ==
    ASSUME IInv, Nest, Books, Exports, Open, NEW p \in Peer, NEW ops, Read(p, ops)
    PROVE  LET q == Other(p)
               h == handle[p]
               k == handle[q]
               refs == Incoming(p).refs
               W == VictimOf(stack[q])
           IN  /\ chan'[p] = << >> /\ chan'[q] = << >> /\ Incoming(p).op \in ops
               /\ Fits(Last(stack[p]), Incoming(p).op) /\ stack[p] # << >>
               /\ Remote(p) = Local(q) /\ Remote(q) = Local(p)
               /\ h.localobjmap \subseteq Local(p) /\ k.localobjmap \subseteq Local(q)
               /\ Local(p) \cap Local(q) = {}
               /\ ~Collects(stack[p]) => VictimOf(stack[p]) = {}
               /\ h.remoteobjmap \ VictimOf(stack[p]) \subseteq k.localobjmap
               /\ refs \cap Remote(p) \subseteq k.localobjmap
               /\ Known(p, h, refs)
               /\ h.localobjmap \subseteq k.remoteobjmap
               /\ VictimOf(stack[p]) \cap k.localobjmap = {}
               /\ k.remoteobjmap \ W \subseteq h.localobjmap
               /\ k.localobjmap \subseteq h.remoteobjmap \cup refs
               /\ Incoming(p).op = "destroy" => refs = W
               /\ Incoming(p).op # "destroy" => W = {}
               /\ Collects(stack[p]) => refs = {}
<1> DEFINE q == Other(p)
           h == handle[p]
           k == handle[q]
           refs == Incoming(p).refs
           W == VictimOf(stack[q])
<1>1. /\ ExportsOf(p, h, stack[p], chan[p], k, chan[q])
      /\ ExportsOf(q, k, stack[q], chan[q], h, chan[p])
      /\ h.localobjmap \subseteq Local(p) /\ k.localobjmap \subseteq Local(q)
      /\ ~Collects(stack[p]) => VictimOf(stack[p]) = {}
      /\ ~Collects(stack[q]) => W = {}
      /\ h.stream
  BY ExportsCurrent
<1>2. /\ chan'[p] = << >> /\ chan'[q] = chan[q] /\ chan'[q] = << >>
      /\ Incoming(p).op \in ops /\ stack[p] # << >>
      /\ Fits(Last(stack[p]), Incoming(p).op)
      /\ FlightPair(p, stack[p], stack[q], Incoming(p).op)
  BY TakenOff
<1>3. chan[p] # << >> /\ Len(chan[p]) = 1 /\ chan[p] \in Seq(Packet)
  BY ReadEffect, NestCurrent DEF IInv, TypeOK
<1>4. Names(chan[p]) = refs /\ Head(chan[p]).op = Incoming(p).op
  BY <1>3, NamesOne DEF Incoming
<1>5. /\ Remote(p) = Local(q) /\ Remote(q) = Local(p) /\ Local(p) \cap Local(q) = {}
  BY OfSides
<1>6. Incoming(p).op # "destroy" => W = {}
  BY <1>1, <1>2 DEF FlightPair, Collects
<1> HIDE DEF q, h, k, refs, W
<1>7. /\ h.remoteobjmap \ VictimOf(stack[p]) \subseteq k.localobjmap
      /\ refs \cap Remote(p) \subseteq k.localobjmap
      /\ refs \cap Local(p) \subseteq h.localobjmap
      /\ h.localobjmap \subseteq k.remoteobjmap
      /\ VictimOf(stack[p]) \cap k.localobjmap = {}
      /\ k.remoteobjmap \ W \subseteq h.localobjmap
      /\ k.localobjmap \subseteq h.remoteobjmap \cup refs
      /\ Incoming(p).op = "destroy" => refs = W
      /\ Collects(stack[p]) => refs = {}
  BY <1>1, <1>2, <1>3, <1>4, NamesNone DEF ExportsOf, W
<1>8. Known(p, h, refs)
  BY <1>7 DEF Known
<1> QED
  BY <1>1, <1>2, <1>5, <1>6, <1>7, <1>8 DEF q, h, k, refs, W

(* The last activation is replaced.                                         *)
TopReplaced(p, a) ==
    /\ \E s : SetStack(p, s) /\ VictimOf(s) = a.victim /\ (Collects(s) <=> a.at = "gc")
    /\ VictimOf(stack[p]) = Cur(p).victim /\ (Collects(stack[p]) <=> Cur(p).at = "gc")
    /\ Cur(p).at # "gc" => Cur(p).victim = {}

LEMMA ReplacedTop ==
    ASSUME IInv, Nest, Books, NEW p \in Peer, stack[p] # << >>, NEW a \in Activation,
           SetCur(p, a)
    PROVE  TopReplaced(p, a)
<1> DEFINE s == [stack[p] EXCEPT ![Len(stack[p])] = a]
<1>1. /\ stack[p] \in Seq(Activation) /\ Cur(p) = Last(stack[p]) /\ TidyAt(p, Cur(p))
      /\ VictimOf(stack[p]) = Cur(p).victim
  BY BooksCurrent
<1>2. s # << >> /\ s[Len(s)] = a
  BY <1>1, StackReplace
<1>3. SetStack(p, s)
  BY DEF SetCur, SetStack
<1> HIDE DEF s
<1>4. VictimOf(s) = a.victim /\ (Collects(s) <=> a.at = "gc")
  BY <1>2 DEF VictimOf, Collects, Last
<1> QED
  BY <1>1, <1>3, <1>4 DEF TopReplaced, Collects, TidyAt

-----------------------------------------------------------------------------
(* Each action keeps the exports.                                           *)

LEMMA ExportsCopies ==
    ASSUME IInv, Nest, Books, Exports, NEW p \in Peer, Invoke(p) \/ Answer(p) \/ Keep(p)
    PROVE  Exports'
<1>1. handle[p] \in Handle
  BY BooksCurrent
<1>2. ASSUME NEW S
      PROVE  LET h == AddRef(handle[p], S)
             IN  /\ h.stream = handle[p].stream /\ h.remoteobjmap = handle[p].remoteobjmap
                 /\ h.localobjmap = handle[p].localobjmap
  BY <1>1 DEF AddRef, Handle
<1>3. CASE Keep(p)
  <2>1. PICK o : SetHandle(p, AddRef(handle[p], {o}))
    BY <1>3 DEF Keep
  <2> PICK h : h = AddRef(handle[p], {o})
    OBVIOUS
  <2>2. h.stream = handle[p].stream /\ h.remoteobjmap = handle[p].remoteobjmap
        /\ h.localobjmap = handle[p].localobjmap /\ SetHandle(p, h)
    BY <1>2, <2>1
  <2>3. UNCHANGED <<stack, chan>>
    BY <1>3 DEF Keep
  <2> QED
    BY <2>2, <2>3, ExportsHandle
<1>4. CASE Invoke(p) \/ Answer(p)
  <2>1. stack[p] # << >> /\ Cur(p).at = "user" /\ chan' = chan
    BY <1>4 DEF Invoke, Answer, At
  <2>2. Cur(p) \in Activation
    BY <2>1, BooksCurrent
  <2>3. PICK S \in SUBSET Objects, op \in {"call", "return", "throw"} :
          /\ SetHandle(p, AddRef(handle[p], S \cap Remote(p)))
          /\ SetCur(p, [Cur(p) EXCEPT !.at = "write", !.op = op, !.wres = S])
    <3>1. Accessible(p) \cup Local(p) \in SUBSET Objects
      BY LocalRemote DEF Accessible
    <3>2. CASE Invoke(p)
      <4>1. PICK target \in Accessible(p), args \in SUBSET (Accessible(p) \cup Local(p)) :
              /\ SetHandle(p, AddRef(handle[p], ({target} \cup args) \cap Remote(p)))
              /\ SetCur(p, [Cur(p) EXCEPT !.at = "write", !.op = "call",
                                          !.wres = {target} \cup args])
        BY <3>2 DEF Invoke
      <4>2. {target} \cup args \in SUBSET Objects
        BY <3>1
      <4> QED
        BY <4>1, <4>2
    <3>3. CASE Answer(p)
      <4>1. PICK op \in {"return", "throw"}, refs \in SUBSET (Accessible(p) \cup Local(p)) :
              /\ SetHandle(p, AddRef(handle[p], refs \cap Remote(p)))
              /\ SetCur(p, [Cur(p) EXCEPT !.at = "write", !.op = op, !.wres = refs])
        BY <3>3 DEF Answer
      <4> QED
        BY <3>1, <4>1
    <3> QED
      BY <1>4, <3>2, <3>3
  <2> PICK h : h = AddRef(handle[p], S \cap Remote(p))
    OBVIOUS
  <2>4. h.stream = handle[p].stream /\ h.remoteobjmap = handle[p].remoteobjmap
        /\ h.localobjmap = handle[p].localobjmap /\ SetHandle(p, h)
    BY <1>2, <2>3
  <2> PICK a : a = [Cur(p) EXCEPT !.at = "write", !.op = op, !.wres = S]
    OBVIOUS
  <2>5. a \in Activation /\ a.at = "write" /\ a.victim = Cur(p).victim /\ SetCur(p, a)
    BY <2>2, <2>3 DEF Activation
  <2>6. PICK s : SetStack(p, s) /\ VictimOf(s) = VictimOf(stack[p])
                 /\ (Collects(s) <=> Collects(stack[p]))
    <3>1. TopReplaced(p, a)
      BY <2>1, <2>5, ReplacedTop, Zenon
    <3> QED
      BY <2>1, <2>5, <3>1 DEF TopReplaced
  <2> QED
    BY <2>1, <2>4, <2>6, ExportsKeep
<1> QED
  BY <1>3, <1>4

LEMMA ExportsDrop ==
    ASSUME IInv, Nest, Books, Exports, NEW p \in Peer, Drop(p) \/ GcSkip(p)
    PROVE  Exports'
<1>1. handle[p] \in Handle
  BY BooksCurrent
<1>2. UNCHANGED <<stack, chan>>
  BY DEF Drop, GcSkip
<1>3. CASE Drop(p)
  <2>1. PICK o \in Remote(p) : SetHandle(p, Release(handle[p], {o}))
    BY <1>3 DEF Drop
  <2> PICK h : h = Release(handle[p], {o})
    OBVIOUS
  <2>2. h.stream => /\ handle[p].stream /\ h.remoteobjmap = handle[p].remoteobjmap
                    /\ h.localobjmap = handle[p].localobjmap
    BY <1>1, ReleaseOpen, LocalRemote
  <2>3. SetHandle(p, h)
    BY <2>1
  <2> QED
    BY <1>2, <2>2, <2>3, ExportsHandle
<1>4. CASE GcSkip(p)
  <2>1. PICK o : SetHandle(p, [handle[p] EXCEPT !.destr_cand = @ \ {o}])
    BY <1>4 DEF GcSkip
  <2> PICK h : h = [handle[p] EXCEPT !.destr_cand = @ \ {o}]
    OBVIOUS
  <2>2. h.stream = handle[p].stream /\ h.remoteobjmap = handle[p].remoteobjmap
        /\ h.localobjmap = handle[p].localobjmap
    BY <1>1 DEF Handle
  <2>3. SetHandle(p, h)
    BY <2>1
  <2> QED
    BY <1>2, <2>2, <2>3, ExportsHandle
<1> QED
  BY <1>3, <1>4

LEMMA ExportsGcDestroy ==
    ASSUME IInv, Nest, Books, Exports, NEW p \in Peer, GcDestroy(p)
    PROVE  Exports'
<1>1. /\ stack[p] # << >> /\ Cur(p).at = "write" /\ handle[p].stream /\ Cur(p).op # "ack"
      /\ At(p, {"write"})
  BY DEF GcDestroy, At
<1>2. PICK o \in handle[p].destr_cand :
        /\ SetHandle(p, [handle[p] EXCEPT !.destr_cand = @ \ {o}, !.last_op = 2])
        /\ Send(p, "destroy", {o})
        /\ SetCur(p, [Cur(p) EXCEPT !.at = "gc", !.victim = {o}])
  BY DEF GcDestroy
<1>3. /\ handle[p] \in Handle /\ Alive(p, handle[p], VictimOf(stack[p]))
      /\ Cur(p) \in Activation /\ Cur(p) = Last(stack[p])
  BY <1>1, BooksCurrent
<1>4. o \in Remote(p) /\ o \in Objects /\ o \in handle[p].remoteobjmap
      /\ {o} \cap Local(p) = {}
  BY <1>3, LocalRemote, OfSides DEF Alive
<1> PICK h : h = [handle[p] EXCEPT !.destr_cand = @ \ {o}, !.last_op = 2]
  OBVIOUS
<1> PICK a : a = [Cur(p) EXCEPT !.at = "gc", !.victim = {o}]
  OBVIOUS
<1>5. h.remoteobjmap = handle[p].remoteobjmap /\ h.localobjmap = handle[p].localobjmap
  BY <1>3 DEF Handle
<1>6. a \in Activation /\ a.victim = {o} /\ SetCur(p, a) /\ SetHandle(p, h)
  BY <1>2, <1>3, <1>4 DEF Activation
<1>7. PICK s : SetStack(p, s) /\ VictimOf(s) = {o}
  <2>1. TopReplaced(p, a)
    BY <1>1, <1>6, ReplacedTop, Zenon
  <2> QED
    BY <1>6, <2>1 DEF TopReplaced
<1>8. [op |-> "destroy", refs |-> {o}] \in Packet
  BY <1>4 DEF Packet
<1>9. Open => ~Collects(stack[Other(p)])
  <2>1. Runs(stack[p])
    BY <1>1, <1>3 DEF Runs, Last
  <2> QED
    BY <1>1, <1>3, <2>1, NestCurrent DEF RunPair, Collects
<1> PICK refs : refs = {o}
  OBVIOUS
<1>10. /\ Send(p, "destroy", refs) /\ [op |-> "destroy", refs |-> refs] \in Packet
       /\ refs = VictimOf(s) /\ refs \cap Remote(p) \subseteq handle[p].remoteobjmap
       /\ h.localobjmap = handle[p].localobjmap \cup (refs \cap Local(p))
  BY <1>2, <1>4, <1>5, <1>7, <1>8
<1> PICK op : op = "destroy"
  OBVIOUS
<1>11. /\ op = "destroy" => refs = VictimOf(s)
       /\ op # "destroy" => VictimOf(s) = {}
       /\ Send(p, op, refs) /\ [op |-> op, refs |-> refs] \in Packet
  BY <1>10
<1> QED
  BY <1>1, <1>5, <1>6, <1>7, <1>9, <1>10, <1>11, ExportsSent

(* What a packet under construction names is registered.                    *)
LEMMA WresKnown ==
    ASSUME IInv, Nest, Books, NEW p \in Peer, stack[p] # << >>
    PROVE  Cur(p).wres \cap Remote(p) \subseteq handle[p].remoteobjmap
<1> SUFFICES ASSUME NEW o \in Cur(p).wres \cap Remote(p)
             PROVE  o \in handle[p].remoteobjmap
  OBVIOUS
<1>1. /\ app[p][o] \in Nat /\ handle[p].refcount[o] = app[p][o] + Held(stack[p], o)
      /\ Held(stack[p], o) \in Nat
      /\ One(Cur(p).wres, o) \in {0, 1} /\ One(Cur(p).rpkt, o) \in {0, 1}
      /\ One(Cur(p).wres, o) + One(Cur(p).rpkt, o) <= Held(stack[p], o)
  BY Numbers
<1>2. One(Cur(p).wres, o) = 1
  BY DEF One
<1>3. handle[p].refcount[o] > 0
  BY <1>1, <1>2
<1> QED
  BY <1>3, BooksCurrent DEF Alive

LEMMA ExportsWriteCall ==
    ASSUME IInv, Nest, Books, Exports, NEW p \in Peer, WriteCall(p)
    PROVE  Exports'
<1> DEFINE op == IF Cur(p).op = "hello" THEN "return" ELSE "request"
           refs == Cur(p).wres
           h == [Serialize(p, handle[p], refs) EXCEPT !.last_op = 2]
           a == [Cur(p) EXCEPT !.at = "wait"]
<1>1. /\ stack[p] # << >> /\ Cur(p).at = "write" /\ handle[p].stream /\ At(p, {"write"})
      /\ Cur(p).op \in {"call", "hello"}
  BY DEF WriteCall, At
<1>2. handle[p] \in Handle /\ Cur(p) \in Activation /\ Cur(p) = Last(stack[p])
      /\ TidyAt(p, Cur(p))
  BY <1>1, BooksCurrent
<1>3. SetHandle(p, h) /\ SetCur(p, a) /\ Send(p, op, refs)
  BY DEF WriteCall
<1>4. /\ h.remoteobjmap = handle[p].remoteobjmap
      /\ h.localobjmap = handle[p].localobjmap \cup (refs \cap Local(p))
  BY <1>2 DEF Serialize, Handle
<1>5. a \in Activation /\ a.victim = {}
  BY <1>1, <1>2 DEF Activation, TidyAt
<1>6. [op |-> op, refs |-> refs] \in Packet /\ op # "destroy"
  BY <1>2 DEF Packet, Activation
<1>7. Open => ~Collects(stack[Other(p)])
  <2>1. Runs(stack[p])
    BY <1>1, <1>2 DEF Runs, Last
  <2> QED
    BY <1>1, <1>2, <2>1, NestCurrent DEF RunPair, Collects
<1>8. refs \cap Remote(p) \subseteq handle[p].remoteobjmap
  BY <1>1, WresKnown
<1> HIDE DEF h, a, op, refs
<1>9. PICK s : SetStack(p, s) /\ VictimOf(s) = {}
  <2>1. \E s : SetStack(p, s) /\ VictimOf(s) = a.victim
    <3>1. TopReplaced(p, a)
      BY <1>1, <1>3, <1>5, ReplacedTop, Zenon
    <3> QED
      BY <3>1 DEF TopReplaced
  <2> QED
    BY <1>5, <2>1
<1> QED
  BY <1>1, <1>3, <1>4, <1>6, <1>7, <1>8, <1>9, ExportsSent

LEMMA ExportsWriteReply ==
    ASSUME IInv, Nest, Books, Exports, NEW p \in Peer, WriteReply(p)
    PROVE  Exports'
<1> DEFINE op == IF Cur(p).op = "throw" THEN "throw" ELSE "return"
           refs == Cur(p).wres
           S == Cur(p).wres \cap Remote(p)
           T == Cur(p).rpkt \cap Remote(p)
           g == [Serialize(p, handle[p], refs) EXCEPT !.last_op = 2]
           k == Release(g, S)
           h == Release(k, T)
           s == Rest(p)
<1>1. /\ stack[p] # << >> /\ Cur(p).at = "write" /\ handle[p].stream /\ At(p, {"write"})
      /\ Cur(p).op \notin {"call", "hello"}
  BY DEF WriteReply, At
<1>2. /\ handle[p] \in Handle /\ Cur(p) \in Activation /\ Cur(p) = Last(stack[p])
      /\ TidyAt(p, Cur(p)) /\ stack[p] \in Seq(Activation) /\ Well(p, stack[p])
      /\ Tidy(p, stack[p])
  BY <1>1, BooksCurrent
<1>3. SetHandle(p, h) /\ SetStack(p, s) /\ Send(p, op, refs)
  BY DEF WriteReply
<1>4. /\ g.remoteobjmap = handle[p].remoteobjmap
      /\ g.localobjmap = handle[p].localobjmap \cup (refs \cap Local(p))
  BY <1>2 DEF Serialize, Handle
<1>5. g \in Handle
  <2>1. Serialize(p, handle[p], refs) \in Handle
    BY <1>2, SerializeType
  <2> QED
    BY <2>1 DEF Handle
<1>6. S \in SUBSET Objects /\ T \in SUBSET Objects
  BY LocalRemote
<1>7. VictimOf(s) = {}
  <2>1. Len(stack[p]) > 1
    BY <1>1, <1>2, Current
  <2> QED
    BY <1>1, <1>2, <2>1, TidyPop DEF Rest
<1>8. [op |-> op, refs |-> refs] \in Packet /\ op # "destroy"
  BY <1>2 DEF Packet, Activation
<1>9. Open /\ Collects(stack[Other(p)]) => refs = {}
  <2>1. Runs(stack[p])
    BY <1>1, <1>2 DEF Runs, Last
  <2>2. Open /\ Collects(stack[Other(p)]) => Last(stack[p]).op = "ack"
    BY <2>1, NestCurrent DEF RunPair, Collects
  <2> QED
    BY <1>2, <2>2 DEF TidyAt
<1>10. refs \cap Remote(p) \subseteq handle[p].remoteobjmap
  BY <1>1, WresKnown
<1> HIDE DEF g, op, refs, S, T, s
<1>11. k \in Handle
  BY <1>5, <1>6, ReleaseType
<1>12. k.stream => k.remoteobjmap = g.remoteobjmap /\ k.localobjmap = g.localobjmap
  BY <1>5, <1>6, ReleaseOpen
<1> HIDE DEF k
<1>13. h.stream => /\ k.stream /\ h.remoteobjmap = k.remoteobjmap
                   /\ h.localobjmap = k.localobjmap
  BY <1>6, <1>11, ReleaseOpen
<1> HIDE DEF h
<1>14. h.stream => /\ h.remoteobjmap = handle[p].remoteobjmap
                   /\ h.localobjmap = handle[p].localobjmap \cup (refs \cap Local(p))
  BY <1>4, <1>12, <1>13
<1> QED
  BY <1>1, <1>3, <1>7, <1>8, <1>9, <1>10, <1>14, ExportsSent

(* A side that cannot make sense of a packet gives the connection up.       *)
LEMMA ExportsThrow ==
    ASSUME IInv, NEW p \in Peer, At(p, {"wait", "gc"}), LoopThrows(p, handle[p])
    PROVE  Exports'
  BY LoopCloses, ExportsClosed

(* A packet that names objects is read.                                     *)
LEMMA ExportsTaken ==
    ASSUME IInv, Nest, Books, Exports, Open, NEW p \in Peer, NEW ops, Read(p, ops),
           Incoming(p).op # "destroy", ~Collects(stack[p]),
           NEW h, NEW s, SetHandle(p, h), SetStack(p, s),
           h.stream => /\ h.remoteobjmap = handle[p].remoteobjmap
                                             \cup (Incoming(p).refs \cap Remote(p))
                       /\ h.localobjmap = handle[p].localobjmap,
           VictimOf(s) = {}
    PROVE  Exports'
<1> DEFINE q == Other(p)
           k == handle[q]
           refs == Incoming(p).refs
           W == VictimOf(stack[q])
<1>1. /\ chan'[p] = << >> /\ chan'[q] = << >>
      /\ Remote(p) = Local(q) /\ k.localobjmap \subseteq Local(q)
      /\ handle[p].remoteobjmap \subseteq k.localobjmap
      /\ refs \cap Remote(p) \subseteq k.localobjmap
      /\ handle[p].localobjmap \subseteq k.remoteobjmap
      /\ k.remoteobjmap \ W \subseteq handle[p].localobjmap
      /\ k.localobjmap \subseteq handle[p].remoteobjmap \cup refs
      /\ W = {}
  BY ExportsRead
<1> HIDE DEF k, refs, W
<1>2. ASSUME h.stream
      PROVE  /\ ExportsOf(p, h, s, << >>, k, << >>)
             /\ ExportsOf(q, k, stack[q], << >>, h, << >>)
  <2>1. /\ h.remoteobjmap = handle[p].remoteobjmap \cup (refs \cap Remote(p))
        /\ h.localobjmap = handle[p].localobjmap
    BY <1>2 DEF refs
  <2>2. ExportsOf(p, h, s, << >>, k, << >>)
    BY <1>1, <2>1, NamesNone DEF ExportsOf
  <2>3. ExportsOf(q, k, stack[q], << >>, h, << >>)
    BY <1>1, <2>1, NamesNone DEF ExportsOf, W
  <2> QED
    BY <2>2, <2>3
<1> QED
  BY <1>1, <1>2, ExportsStep DEF k

LEMMA ExportsReadRequest ==
    ASSUME IInv, Nest, Books, Exports, Open, NEW p \in Peer, ReadRequest(p)
    PROVE  Exports'
<1> DEFINE refs == Incoming(p).refs
           g == [handle[p] EXCEPT !.last_op = 1]
           h == Deserialize(p, g, refs)
           a == [Idle EXCEPT !.rpkt = refs]
           s == Append(stack[p], a)
<1>1. Read(p, {"request"})
  BY DEF ReadRequest
<1>2. /\ Incoming(p).op = "request" /\ Fits(Last(stack[p]), "request")
      /\ Known(p, handle[p], refs)
  BY <1>1, ExportsRead
<1>3. SetHandle(p, h) /\ SetStack(p, s)
  BY <1>2 DEF ReadRequest
<1>4. ~Collects(stack[p])
  BY <1>2 DEF Fits, Collects
<1>5. handle[p] \in Handle /\ stack[p] \in Seq(Activation) /\ Tidy(p, stack[p])
  BY BooksCurrent
<1>6. h.remoteobjmap = handle[p].remoteobjmap \cup (refs \cap Remote(p))
      /\ h.localobjmap = handle[p].localobjmap
  BY <1>5 DEF Deserialize, AddRef, Handle
<1>7. refs \in SUBSET Objects
  BY <1>1, IncomingType
<1>8. a \in Activation /\ a.victim = {} /\ a.wres = {} /\ a.at = "user" /\ a.op = "none"
  BY <1>7 DEF Idle, Activation
<1> HIDE DEF a, h
<1>9. TidyAt(p, a)
  BY <1>8 DEF TidyAt
<1>10. VictimOf(s) = {}
  BY <1>5, <1>8, <1>9, TidyPush
<1> HIDE DEF s, refs
<1> QED
  BY <1>1, <1>2, <1>3, <1>4, <1>6, <1>10, ExportsTaken DEF refs

LEMMA ExportsReadDestroy ==
    ASSUME IInv, Nest, Books, Exports, Open, NEW p \in Peer, ReadDestroy(p)
    PROVE  Exports'
<1> DEFINE q == Other(p)
           k == handle[q]
           W == VictimOf(stack[q])
           V == VictimOf(stack[p])
           refs == Incoming(p).refs
           h == [handle[p] EXCEPT !.last_op = 1, !.localobjmap = @ \ refs]
           a == [Idle EXCEPT !.at = "write", !.op = "ack", !.rpkt = refs]
           s == Append(stack[p], a)
<1>1. Read(p, {"destroy"})
  BY DEF ReadDestroy
<1>2. /\ chan'[p] = << >> /\ chan'[q] = << >> /\ Incoming(p).op = "destroy"
      /\ Fits(Last(stack[p]), "destroy") /\ Known(p, handle[p], refs)
      /\ Remote(p) = Local(q) /\ Remote(q) = Local(p)
      /\ k.localobjmap \subseteq Local(q) /\ Local(p) \cap Local(q) = {}
      /\ ~Collects(stack[p]) => V = {}
      /\ handle[p].remoteobjmap \ V \subseteq k.localobjmap
      /\ handle[p].localobjmap \subseteq k.remoteobjmap
      /\ k.remoteobjmap \ W \subseteq handle[p].localobjmap
      /\ k.localobjmap \subseteq handle[p].remoteobjmap \cup refs
      /\ refs = W
  BY <1>1, ExportsRead
<1>3. SetHandle(p, h) /\ SetStack(p, s)
  BY <1>2 DEF ReadDestroy
<1>4. V = {}
  BY <1>2 DEF Fits, Collects
<1>5. handle[p] \in Handle /\ stack[p] \in Seq(Activation) /\ Tidy(p, stack[p])
  BY BooksCurrent
<1>6. h.remoteobjmap = handle[p].remoteobjmap /\ h.localobjmap = handle[p].localobjmap \ refs
  BY <1>5 DEF Handle
<1>7. refs \in SUBSET Objects /\ refs \subseteq Local(p)
  BY <1>1, <1>2, IncomingType, ReadDestroys
<1>8. /\ a \in Activation /\ a.victim = {} /\ a.wres = {} /\ a.at = "write" /\ a.op = "ack"
  BY <1>7 DEF Idle, Activation
<1> HIDE DEF a, h
<1>9. TidyAt(p, a)
  BY <1>8 DEF TidyAt
<1>10. VictimOf(s) = {}
  BY <1>5, <1>8, <1>9, TidyPush
<1> HIDE DEF s, refs, k, W, V
<1>11. ExportsOf(p, h, s, << >>, k, << >>)
  BY <1>2, <1>4, <1>6, <1>10, NamesNone DEF ExportsOf
<1>12. ExportsOf(q, k, stack[q], << >>, h, << >>)
  BY <1>2, <1>6, <1>7, NamesNone DEF ExportsOf, W
<1> QED
  BY <1>2, <1>3, <1>11, <1>12, ExportsStep DEF k

LEMMA ExportsReadReply ==
    ASSUME IInv, Nest, Books, Exports, Open, NEW p \in Peer, ReadReply(p)
    PROVE  Exports'
<1> DEFINE refs == Incoming(p).refs
           proxies == refs \cap Remote(p)
           g == [handle[p] EXCEPT !.last_op = 1]
           d == Deserialize(p, g, refs)
           a == Resumed(p)
<1>1. Read(p, {"return", "throw"}) /\ Cur(p).at = "wait"
  BY DEF ReadReply
<1>2. /\ Incoming(p).op \in {"return", "throw"} /\ Known(p, handle[p], refs)
      /\ stack[p] # << >>
  BY <1>1, ExportsRead
<1>3. CASE Cur(p).op = "call"
  <2>1. PICK kept \in SUBSET proxies :
          /\ SetHandle(p, Release(Release(d, proxies \ kept), Cur(p).wres \cap Remote(p)))
          /\ SetCur(p, a)
    BY <1>2, <1>3 DEF ReadReply
  <2> DEFINE S == proxies \ kept
             T == Cur(p).wres \cap Remote(p)
             k == Release(d, S)
             h == Release(k, T)
  <2>2. handle[p] \in Handle /\ Cur(p) \in Activation /\ Cur(p) = Last(stack[p])
        /\ TidyAt(p, Cur(p))
    BY <1>2, BooksCurrent
  <2>3. g \in Handle
    BY <2>2 DEF Handle
  <2>4. refs \in SUBSET Objects
    BY <1>1, IncomingType
  <2>5. d \in Handle
    BY <2>3, DeserializeType
  <2>6. d.remoteobjmap = handle[p].remoteobjmap \cup (refs \cap Remote(p))
        /\ d.localobjmap = handle[p].localobjmap
    BY <2>2 DEF Deserialize, AddRef, Handle
  <2>7. a \in Activation /\ a.victim = {}
    BY <1>1, <2>2 DEF Resumed, Activation, TidyAt
  <2>8. PICK s : SetStack(p, s) /\ VictimOf(s) = {}
    <3>1. TopReplaced(p, a)
      BY <1>2, <2>1, <2>7, ReplacedTop, Zenon
    <3> QED
      BY <2>7, <3>1 DEF TopReplaced
  <2>9. ~Collects(stack[p])
    BY <1>1, <2>2 DEF Collects
  <2>10. S \in SUBSET Objects /\ T \in SUBSET Objects
    BY <2>4, LocalRemote
  <2>11. SetHandle(p, h)
    BY <2>1
  <2> HIDE DEF d, S, T, a, g, refs, proxies
  <2>12. k \in Handle /\ (k.stream => /\ k.remoteobjmap = d.remoteobjmap
                                      /\ k.localobjmap = d.localobjmap)
    BY <2>5, <2>10, ReleaseType, ReleaseOpen
  <2> HIDE DEF k
  <2>13. h.stream => /\ k.stream /\ h.remoteobjmap = k.remoteobjmap
                     /\ h.localobjmap = k.localobjmap
    BY <2>10, <2>12, ReleaseOpen
  <2> HIDE DEF h
  <2>14. h.stream => /\ h.remoteobjmap = handle[p].remoteobjmap \cup (refs \cap Remote(p))
                     /\ h.localobjmap = handle[p].localobjmap
    BY <2>6, <2>12, <2>13
  <2> QED
    BY <1>1, <1>2, <2>8, <2>9, <2>11, <2>14, ExportsTaken DEF refs
<1>4. CASE Cur(p).op # "call"
  <2>1. LoopThrows(p, handle[p]) /\ At(p, {"wait", "gc"})
    BY <1>1, <1>4, ReadEffect DEF ReadReply
  <2> QED
    BY <2>1, ExportsThrow
<1> QED
  BY <1>3, <1>4

LEMMA ExportsReadAck ==
    ASSUME IInv, Nest, Books, Exports, Open, NEW p \in Peer, ReadAck(p)
    PROVE  Exports'
<1> DEFINE q == Other(p)
           k == handle[q]
           W == VictimOf(stack[q])
           V == Cur(p).victim
           g == [handle[p] EXCEPT !.last_op = 1]
           h == Delete(g, V)
           a == [Cur(p) EXCEPT !.at = "write", !.victim = {}]
<1>1. Read(p, {"return", "throw"}) /\ Cur(p).at = "gc"
  BY DEF ReadAck
<1>2. /\ stack[p] # << >> /\ At(p, {"wait", "gc"})
  BY <1>1, ReadEffect
<1>3. handle[p] \in Handle /\ Cur(p) \in Activation /\ Cur(p) = Last(stack[p])
      /\ VictimOf(stack[p]) = V
  BY <1>2, BooksCurrent
<1>4. Collects(stack[p])
  BY <1>1, <1>2, <1>3 DEF Collects
<1>5. /\ chan'[p] = << >> /\ chan'[q] = << >> /\ Incoming(p).op # "destroy"
      /\ handle[p].remoteobjmap \ V \subseteq k.localobjmap
      /\ handle[p].localobjmap \subseteq k.remoteobjmap
      /\ V \cap k.localobjmap = {}
      /\ k.remoteobjmap \ W \subseteq handle[p].localobjmap
      /\ k.localobjmap \subseteq handle[p].remoteobjmap
      /\ W = {}
  BY <1>1, <1>3, <1>4, ExportsRead
<1>6. CASE Incoming(p).op = "return"
  <2>1. SetHandle(p, h) /\ SetCur(p, a)
    BY <1>6 DEF ReadAck
  <2>2. h.remoteobjmap = handle[p].remoteobjmap \ V /\ h.localobjmap = handle[p].localobjmap
    BY <1>3 DEF Delete, Handle
  <2>3. a \in Activation /\ a.victim = {}
    BY <1>3 DEF Activation
  <2> HIDE DEF h, a
  <2>4. PICK s : SetStack(p, s) /\ VictimOf(s) = {}
    <3>1. TopReplaced(p, a)
      BY <1>2, <2>1, <2>3, ReplacedTop, Zenon
    <3> QED
      BY <2>3, <3>1 DEF TopReplaced
  <2> HIDE DEF V, W, k
  <2>5. ExportsOf(p, h, s, << >>, k, << >>)
    BY <1>5, <2>2, <2>4, NamesNone DEF ExportsOf
  <2>6. ExportsOf(q, k, stack[q], << >>, h, << >>)
    BY <1>5, <2>2, NamesNone DEF ExportsOf, W
  <2> QED
    BY <1>5, <2>1, <2>4, <2>5, <2>6, ExportsStep DEF k
<1>7. CASE Incoming(p).op # "return"
  <2>1. LoopThrows(p, handle[p])
    BY <1>7 DEF ReadAck
  <2> QED
    BY <1>2, <2>1, ExportsThrow
<1> QED
  BY <1>6, <1>7

-----------------------------------------------------------------------------
(* Exports is an invariant.                                                 *)

LEMMA ExportsInit == Init => Exports
<1> SUFFICES ASSUME Init, NEW p \in Peer
             PROVE  ExportsOf(p, handle[p], stack[p], chan[p],
                              handle[Other(p)], chan[Other(p)])
  BY DEF Exports
<1>1. \A r \in Peer : handle[r] = NewHandle /\ chan[r] = << >>
  BY DEF Init
<1>2. Other(p) \in Peer
  BY LocalRemote
<1>3. NewHandle.remoteobjmap = {} /\ NewHandle.localobjmap = {}
  BY DEF NewHandle
<1> QED
  BY <1>1, <1>2, <1>3, NamesNone DEF ExportsOf

LEMMA ExportsNext == IInv /\ Nest /\ Books /\ Exports /\ [Next]_vars => Exports'
<1> SUFFICES ASSUME IInv, Nest, Books, Exports, [Next]_vars PROVE Exports'
  OBVIOUS
<1>1. CASE UNCHANGED vars
  BY <1>1 DEF vars, Exports, Open
<1>2. CASE ~Open
  <2>1. ~Open'
    BY <1>2, NoReopen
  <2> QED
    BY <2>1, ExportsClosed
<1>3. CASE Next /\ Open
  <2> PICK p \in Peer :
        \/ Invoke(p) \/ Answer(p) \/ Keep(p) \/ Drop(p)
        \/ GcSkip(p) \/ GcDestroy(p) \/ WriteCall(p) \/ WriteReply(p) \/ WriteFails(p)
        \/ ReadRequest(p) \/ ReadDestroy(p) \/ ReadReply(p) \/ ReadAck(p) \/ ReadFails(p)
    BY <1>3 DEF Next
  <2>1. CASE Invoke(p) \/ Answer(p) \/ Keep(p)
    BY <2>1, ExportsCopies
  <2>2. CASE Drop(p) \/ GcSkip(p)
    BY <2>2, ExportsDrop
  <2>3. CASE GcDestroy(p)
    BY <2>3, ExportsGcDestroy
  <2>4. CASE WriteCall(p) \/ WriteReply(p)
    BY <2>4, ExportsWriteCall, ExportsWriteReply
  <2>5. CASE WriteFails(p)
    BY <2>5, WriteCloses, ExportsClosed
  <2>6. CASE ReadRequest(p) \/ ReadDestroy(p)
    BY <1>3, <2>6, ExportsReadRequest, ExportsReadDestroy
  <2>7. CASE ReadReply(p) \/ ReadAck(p)
    BY <1>3, <2>7, ExportsReadReply, ExportsReadAck
  <2>8. CASE ReadFails(p)
    BY <2>8, ExportsThrow DEF ReadFails
  <2> QED
    BY <2>1, <2>2, <2>3, <2>4, <2>5, <2>6, <2>7, <2>8
<1> QED
  BY <1>1, <1>2, <1>3

LEMMA Exporting == Spec => [](IInv /\ Nest /\ Books /\ Exports)
<1>1. Init => IInv /\ Nest /\ Books /\ Exports
  BY InitInvariant, NestInit, BooksInit, ExportsInit
<1>2. (IInv /\ Nest /\ Books /\ Exports) /\ [Next]_vars
        => (IInv /\ Nest /\ Books /\ Exports)'
  BY NextInvariant, NestNext, BooksNext, ExportsNext
<1> QED
  BY <1>1, <1>2, PTL DEF Spec

(* What one side can name the other still has exported, so that no packet   *)
(* of an open connection is answered with ASERemoteUnknownLocalObject.      *)
THEOREM NamedIsExported == Spec => []ExportedWhileReferenced
<1>1. IInv /\ Nest /\ Books /\ Exports => ExportedWhileReferenced
  <2> SUFFICES ASSUME IInv, Nest, Books, Exports, Open, NEW p \in Peer
               PROVE  /\ handle[p].remoteobjmap \ Victims(p)
                           \subseteq handle[Other(p)].localobjmap
                      /\ InFlight(p) \cap Local(p) \subseteq handle[p].localobjmap
    BY DEF ExportedWhileReferenced
  <2>1. ExportsOf(p, handle[p], stack[p], chan[p], handle[Other(p)], chan[Other(p)])
    BY ExportsCurrent
  <2>2. InFlight(p) = Names(chan[p])
    BY DEF InFlight, Names
  <2> QED
    BY <2>1, <2>2, VictimsAre DEF ExportsOf
<1> QED
  BY <1>1, Exporting, PTL

(* No object stays exported that the other side cannot name any more: the   *)
(* collector reaches every one of them.                                     *)
THEOREM ExportedIsNamed == Spec => []NoLeakedExport
<1>1. IInv /\ Nest /\ Books /\ Exports => NoLeakedExport
  <2> SUFFICES ASSUME IInv, Nest, Books, Exports, Open, NEW p \in Peer
               PROVE  handle[p].localobjmap \subseteq
                        handle[Other(p)].remoteobjmap \cup InFlight(Other(p))
    BY DEF NoLeakedExport
  <2>1. ExportsOf(p, handle[p], stack[p], chan[p], handle[Other(p)], chan[Other(p)])
    BY ExportsCurrent
  <2>2. InFlight(Other(p)) = Names(chan[Other(p)])
    BY DEF InFlight, Names
  <2> QED
    BY <2>1, <2>2 DEF ExportsOf
<1> QED
  BY <1>1, Exporting, PTL

-----------------------------------------------------------------------------
(***************************************************************************)
(* The owner of the connection.  Fresh: the client has not yet read the    *)
(* first packet of the server, which brings the owner; until then the two  *)
(* sides can only be Connecting.  Afterwards the client's handle stays     *)
(* OwnedHandle: open with a referenced owner, or closed.                   *)
(***************************************************************************)
OwnedHandle(h) ==
    /\ h.owner \subseteq {TopObj} \ h.destr_cand
    /\ h.stream => h.owner = {TopObj} /\ h.refcount[TopObj] > 0

Fresh == handle[Client].stream /\ handle[Client].remoteobjmap = {}

Hello(s, at) ==
    Len(s) = 1 /\ Last(s).op = "hello" /\ Last(s).wres = {TopObj} /\ Last(s).at = at

Connecting ==
    /\ stack[Client] # << >> /\ Last(stack[Client]).at = "wait"
    /\ handle[Client].owner = {} /\ handle[Server].remoteobjmap = {}
    /\ chan[Server] = << >>
    /\ chan[Client] # << >> => Head(chan[Client]) = [op |-> "return", refs |-> {TopObj}]
    /\ \/ stack[Server] = << >>
       \/ Hello(stack[Server], IF chan[Client] = << >> THEN "write" ELSE "wait")

Owned ==
    /\ handle[Server].owner = {}
    /\ IF Fresh THEN Connecting ELSE OwnedHandle(handle[Client])

-----------------------------------------------------------------------------
(* A change of a handle that loses no owner but by closing.                 *)
Owns(h, g) == g.owner \subseteq h.owner /\ (OwnedHandle(h) => OwnedHandle(g))

LEMMA OwnsSame ==
    ASSUME NEW h \in Handle, NEW g \in Handle, g.owner = h.owner, g.stream = h.stream,
           g.destr_cand \subseteq h.destr_cand,
           g.refcount[TopObj] >= h.refcount[TopObj]
    PROVE  Owns(h, g)
<1>1. h.refcount[TopObj] \in Int /\ g.refcount[TopObj] \in Int
  BY ObjectsAssumption DEF Handle, Objects
<1>2. h.refcount[TopObj] > 0 => g.refcount[TopObj] > 0
  BY <1>1
<1> QED
  BY <1>2 DEF Owns, OwnedHandle

LEMMA OwnsAddRef ==
    ASSUME NEW h \in Handle, NEW S
    PROVE  AddRef(h, S) \in Handle /\ Owns(h, AddRef(h, S))
<1> DEFINE g == AddRef(h, S)
<1>1. g \in Handle
  BY AddRefType
<1>2. /\ g.owner = h.owner /\ g.stream = h.stream /\ g.destr_cand = h.destr_cand
      /\ g.refcount = Plus(h.refcount, S)
  BY DEF AddRef, Handle
<1>3. TopObj \in Objects /\ h.refcount[TopObj] \in Int
  BY ObjectsAssumption DEF Handle, Objects
<1>4. g.refcount[TopObj] >= h.refcount[TopObj]
  BY <1>2, <1>3 DEF Plus
<1> HIDE DEF g
<1>5. Owns(h, g)
  BY <1>1, <1>2, <1>4, OwnsSame
<1> QED
  BY <1>1, <1>5 DEF g

LEMMA OwnsRelease ==
    ASSUME NEW h \in Handle, NEW S \in SUBSET Objects
    PROVE  Release(h, S) \in Handle /\ Owns(h, Release(h, S))
<1> DEFINE g == Release(h, S)
           dead == {o \in S : h.refcount[o] = 1}
<1>1. g \in Handle /\ TopObj \in Objects /\ h.refcount[TopObj] \in Int
  BY ReleaseType, ObjectsAssumption DEF Handle, Objects
<1>2. /\ ~h.stream => /\ g.owner = h.owner \ dead /\ g.destr_cand = h.destr_cand
                      /\ g.stream = h.stream
      /\ h.stream /\ dead \cap h.owner = {} =>
           /\ g.owner = h.owner /\ g.destr_cand = h.destr_cand \cup dead
           /\ g.stream = h.stream
      /\ h.stream /\ dead \cap h.owner # {} =>
           /\ g.owner = h.owner \ (dead \cup {o \in h.destr_cand : g.refcount[o] = 0})
           /\ g.destr_cand = {} /\ g.stream = FALSE
  BY ReleaseFields
<1>3. \A o \in Objects : g.refcount[o] = h.refcount[o] - One(S, o)
  BY ReleaseCounts
<1>4. g.refcount[TopObj] = h.refcount[TopObj] - One(S, TopObj)
  BY <1>1, <1>3
<1>5. TopObj \in dead <=> TopObj \in S /\ h.refcount[TopObj] = 1
  OBVIOUS
<1> HIDE DEF g, dead
<1>6. ASSUME ~h.stream PROVE Owns(h, g)
  BY <1>2, <1>6 DEF Owns, OwnedHandle
<1>7. ASSUME h.stream, dead \cap h.owner = {} PROVE Owns(h, g)
  <2>1. OwnedHandle(h) => h.owner = {TopObj} /\ h.refcount[TopObj] > 0
    BY <1>7 DEF OwnedHandle
  <2>2. OwnedHandle(h) => TopObj \notin dead
    BY <1>7, <2>1
  <2>3. OwnedHandle(h) => g.refcount[TopObj] > 0
    BY <1>1, <1>4, <1>5, <2>1, <2>2 DEF One
  <2> QED
    BY <1>2, <1>7, <2>1, <2>2, <2>3 DEF Owns, OwnedHandle
<1>8. ASSUME h.stream, dead \cap h.owner # {} PROVE Owns(h, g)
  BY <1>2, <1>8 DEF Owns, OwnedHandle
<1>9. g \in Handle /\ Owns(h, g)
  BY <1>1, <1>6, <1>7, <1>8
<1> QED
  BY <1>9 DEF g

LEMMA OwnsClose ==
    ASSUME NEW h \in Handle
    PROVE  CloseConnection(h) \in Handle /\ Owns(h, CloseConnection(h))
           /\ ~CloseConnection(h).stream
<1> DEFINE g == CloseConnection(h)
<1>1. g \in Handle /\ g.owner \subseteq h.owner /\ g.destr_cand = {} /\ g.stream = FALSE
  BY CloseConnectionType, CloseFields
<1> HIDE DEF g
<1>2. g \in Handle /\ Owns(h, g) /\ ~g.stream
  BY <1>1 DEF Owns, OwnedHandle
<1> QED
  BY <1>2 DEF g

LEMMA OwnsDelete ==
    ASSUME NEW h \in Handle, NEW V, ~h.stream \/ TopObj \notin V \/ ~OwnedHandle(h)
    PROVE  Delete(h, V) \in Handle /\ Owns(h, Delete(h, V))
<1> DEFINE g == Delete(h, V)
<1>1. /\ g \in Handle /\ g.owner = h.owner \ V /\ g.destr_cand = h.destr_cand
      /\ g.stream = h.stream /\ g.refcount = h.refcount
  BY DeleteType, DeleteFields
<1> HIDE DEF g
<1>2. g \in Handle /\ Owns(h, g)
  BY <1>1 DEF Owns, OwnedHandle
<1> QED
  BY <1>2 DEF g

LEMMA OwnsMark ==
    ASSUME NEW h \in Handle, NEW n \in {0, 1, 2}
    PROVE  LET g == [h EXCEPT !.last_op = n]
           IN  g \in Handle /\ Owns(h, g) /\ g.remoteobjmap = h.remoteobjmap
               /\ g.refcount = h.refcount /\ g.stream = h.stream
               /\ g.owner = h.owner /\ g.destr_cand = h.destr_cand
  BY DEF Handle, Owns, OwnedHandle

(* serialize_object and deserialize_object; only the first proxy of a       *)
(* client becomes an owner.                                                 *)
LEMMA OwnsSerialize ==
    ASSUME NEW p \in Peer, NEW h \in Handle, NEW refs
    PROVE  Serialize(p, h, refs) \in Handle /\ Owns(h, Serialize(p, h, refs))
<1>1. Serialize(p, h, refs) \in Handle
  BY SerializeType
<1> QED
  BY <1>1 DEF Serialize, Handle, Owns, OwnedHandle

LEMMA OwnsDeserialize ==
    ASSUME NEW p \in Peer, NEW h \in Handle, NEW refs, p = Client => h.remoteobjmap # {}
    PROVE  Deserialize(p, h, refs) \in Handle /\ Owns(h, Deserialize(p, h, refs))
<1> DEFINE proxies == refs \cap Remote(p)
           k == AddRef(h, proxies)
           g == [k EXCEPT !.remoteobjmap = @ \cup proxies, !.owner = @ \cup {}]
<1>1. Deserialize(p, h, refs) = g
  BY DEF Deserialize
<1>2. k \in Handle /\ Owns(h, k)
  BY OwnsAddRef
<1>3. Deserialize(p, h, refs) \in Handle
  BY DeserializeType
<1> HIDE DEF k
<1>4. g.owner = k.owner /\ g.stream = k.stream /\ g.destr_cand = k.destr_cand
      /\ g.refcount = k.refcount
  BY <1>2 DEF Handle
<1> HIDE DEF g
<1>5. Owns(h, g)
  BY <1>2, <1>4 DEF Owns, OwnedHandle
<1> QED
  BY <1>1, <1>3, <1>5

-----------------------------------------------------------------------------
(* Each action, as a change of the handle of its side.                      *)
Owning(p) == \E g \in Handle : SetHandle(p, g) /\ Owns(handle[p], g)

LEMMA OwnsTrans ==
    ASSUME NEW h, NEW g, NEW k, Owns(h, g), Owns(g, k)
    PROVE  Owns(h, k)
  BY DEF Owns

LEMMA OwnsReleases ==
    ASSUME NEW h, NEW g \in Handle, Owns(h, g), NEW p \in Peer, NEW S, NEW T
    PROVE  LET k == Release(Release(g, S \cap Remote(p)), T \cap Remote(p))
           IN  k \in Handle /\ Owns(h, k)
<1> DEFINE A == S \cap Remote(p)
           B == T \cap Remote(p)
           f == Release(g, A)
           k == Release(f, B)
<1>1. A \in SUBSET Objects /\ B \in SUBSET Objects
  BY LocalRemote
<1> HIDE DEF A, B
<1>2. f \in Handle /\ Owns(g, f)
  BY <1>1, OwnsRelease
<1> HIDE DEF f
<1>3. k \in Handle /\ Owns(f, k)
  BY <1>1, <1>2, OwnsRelease
<1> HIDE DEF k
<1>4. k \in Handle /\ Owns(h, k)
  BY <1>2, <1>3, OwnsTrans
<1> QED
  BY <1>4 DEF k, f, A, B

LEMMA OwnsLoopThrows ==
    ASSUME IInv, NEW p \in Peer, LoopThrows(p, handle[p])
    PROVE  \E g \in Handle : SetHandle(p, g) /\ Owns(handle[p], g) /\ ~g.stream
<1> DEFINE m == [handle[p] EXCEPT !.last_op = 1]
           c == CloseConnection(m)
           S == Cur(p).wres \cap Remote(p)
           h == Delete(c, Cur(p).victim)
           k == Release(c, S)
<1>1. handle[p] \in Handle /\ S \in SUBSET Objects
  BY LocalRemote DEF IInv, TypeOK
<1>2. m \in Handle /\ Owns(handle[p], m)
  BY <1>1, OwnsMark
<1>3. SetHandle(p, h) \/ SetHandle(p, k)
  BY DEF LoopThrows
<1> HIDE DEF m, S
<1>4. c \in Handle /\ Owns(m, c) /\ ~c.stream
  BY <1>2, OwnsClose
<1> HIDE DEF c
<1>5. h \in Handle /\ Owns(c, h) /\ ~h.stream
  BY <1>4, OwnsDelete, DeleteFields
<1>6. k \in Handle /\ Owns(c, k) /\ ~k.stream
  BY <1>1, <1>4, OwnsRelease, ReleaseType
<1> HIDE DEF h, k
<1>7. Owns(handle[p], h) /\ Owns(handle[p], k)
  <2>1. Owns(handle[p], c)
    BY <1>2, <1>4, OwnsTrans
  <2> QED
    BY <1>5, <1>6, <2>1, OwnsTrans
<1> QED
  BY <1>3, <1>5, <1>6, <1>7

LEMMA OwnsCode ==
    ASSUME IInv, NEW p \in Peer, Invoke(p) \/ Answer(p) \/ Keep(p) \/ Drop(p)
    PROVE  Owning(p)
<1>1. handle[p] \in Handle
  BY DEF IInv, TypeOK
<1>2. CASE Invoke(p) \/ Answer(p) \/ Keep(p)
  <2>1. PICK S : SetHandle(p, AddRef(handle[p], S))
    BY <1>2 DEF Invoke, Answer, Keep
  <2> QED
    BY <1>1, <2>1, OwnsAddRef DEF Owning
<1>3. CASE Drop(p)
  <2>1. PICK o \in Remote(p) : SetHandle(p, Release(handle[p], {o}))
    BY <1>3 DEF Drop
  <2>2. {o} \in SUBSET Objects
    BY LocalRemote
  <2> QED
    BY <1>1, <2>1, <2>2, OwnsRelease DEF Owning
<1> QED
  BY <1>2, <1>3

LEMMA OwnsGc ==
    ASSUME IInv, NEW p \in Peer, GcSkip(p) \/ GcDestroy(p)
    PROVE  Owning(p)
<1>1. handle[p] \in Handle
  BY DEF IInv, TypeOK
<1>2. ASSUME NEW g \in Handle, SetHandle(p, g), g.owner = handle[p].owner,
             g.stream = handle[p].stream, g.destr_cand \subseteq handle[p].destr_cand,
             g.refcount = handle[p].refcount
      PROVE  Owning(p)
  <2>1. Owns(handle[p], g)
    BY <1>2 DEF Owns, OwnedHandle
  <2> QED
    BY <1>2, <2>1 DEF Owning
<1>3. CASE GcSkip(p)
  <2>1. PICK o : SetHandle(p, [handle[p] EXCEPT !.destr_cand = @ \ {o}])
    BY <1>3 DEF GcSkip
  <2> PICK g : g = [handle[p] EXCEPT !.destr_cand = @ \ {o}]
    OBVIOUS
  <2>2. /\ g \in Handle /\ g.owner = handle[p].owner /\ g.stream = handle[p].stream
        /\ g.destr_cand \subseteq handle[p].destr_cand /\ g.refcount = handle[p].refcount
    BY <1>1 DEF Handle
  <2> QED
    BY <1>2, <2>1, <2>2
<1>4. CASE GcDestroy(p)
  <2>1. PICK o : SetHandle(p, [handle[p] EXCEPT !.destr_cand = @ \ {o}, !.last_op = 2])
    BY <1>4 DEF GcDestroy
  <2> PICK g : g = [handle[p] EXCEPT !.destr_cand = @ \ {o}, !.last_op = 2]
    OBVIOUS
  <2>2. /\ g \in Handle /\ g.owner = handle[p].owner /\ g.stream = handle[p].stream
        /\ g.destr_cand \subseteq handle[p].destr_cand /\ g.refcount = handle[p].refcount
    BY <1>1 DEF Handle
  <2> QED
    BY <1>2, <2>1, <2>2
<1> QED
  BY <1>3, <1>4

LEMMA OwnsWrites ==
    ASSUME IInv, NEW p \in Peer, WriteCall(p) \/ WriteReply(p)
    PROVE  Owning(p)
<1> DEFINE f == Serialize(p, handle[p], Cur(p).wres)
           m == [f EXCEPT !.last_op = 2]
           k == Release(Release(m, Cur(p).wres \cap Remote(p)), Cur(p).rpkt \cap Remote(p))
<1>1. handle[p] \in Handle
  BY DEF IInv, TypeOK
<1>2. SetHandle(p, m) \/ SetHandle(p, k)
  BY DEF WriteCall, WriteReply
<1>3. f \in Handle /\ Owns(handle[p], f)
  BY <1>1, OwnsSerialize
<1> HIDE DEF f
<1>4. m \in Handle /\ Owns(f, m)
  BY <1>3, OwnsMark
<1> HIDE DEF m
<1>5. Owns(handle[p], m)
  BY <1>3, <1>4, OwnsTrans
<1>6. k \in Handle /\ Owns(handle[p], k)
  BY <1>4, <1>5, OwnsReleases
<1> HIDE DEF k
<1> QED
  BY <1>2, <1>4, <1>5, <1>6 DEF Owning

LEMMA OwnsWriteFails ==
    ASSUME IInv, NEW p \in Peer, WriteFails(p)
    PROVE  \E g \in Handle : SetHandle(p, g) /\ Owns(handle[p], g) /\ ~g.stream
<1> DEFINE c == CloseConnection(handle[p])
           below == Rest(p)[Len(Rest(p))]
           S == Cur(p).wres
           h == Release(c, S \cap Remote(p))
           k == Release(Release(h, Cur(p).rpkt \cap Remote(p)), below.wres \cap Remote(p))
<1>1. handle[p] \in Handle /\ S \cap Remote(p) \in SUBSET Objects
  BY LocalRemote DEF IInv, TypeOK
<1>2. SetHandle(p, h) \/ SetHandle(p, k)
  BY DEF WriteFails
<1>3. c \in Handle /\ Owns(handle[p], c) /\ ~c.stream
  BY <1>1, OwnsClose
<1> HIDE DEF c, below, S
<1>4. h \in Handle /\ Owns(c, h) /\ ~h.stream
  BY <1>1, <1>3, OwnsRelease, ReleaseType
<1> HIDE DEF h
<1>5. Owns(handle[p], h)
  BY <1>3, <1>4, OwnsTrans
<1>6. k \in Handle /\ Owns(handle[p], k)
  BY <1>4, <1>5, OwnsReleases
<1>7. ~k.stream
  BY <1>4, ReleaseTwice
<1> HIDE DEF k
<1> QED
  BY <1>2, <1>4, <1>5, <1>6, <1>7

LEMMA OwnsRequests ==
    ASSUME IInv, NEW p \in Peer, ReadRequest(p) \/ ReadDestroy(p),
           p = Client => handle[p].remoteobjmap # {}
    PROVE  Owning(p)
<1> DEFINE refs == Incoming(p).refs
           m == [handle[p] EXCEPT !.last_op = 1]
           d == Deserialize(p, m, refs)
           e == [handle[p] EXCEPT !.last_op = 1, !.localobjmap = @ \ refs]
<1>1. handle[p] \in Handle
  BY DEF IInv, TypeOK
<1>2. SetHandle(p, d) \/ SetHandle(p, e) \/ LoopThrows(p, handle[p])
  BY DEF ReadRequest, ReadDestroy
<1>3. m \in Handle /\ Owns(handle[p], m) /\ m.remoteobjmap = handle[p].remoteobjmap
  BY <1>1, OwnsMark
<1>4. e \in Handle /\ Owns(handle[p], e)
  BY <1>1 DEF Handle, Owns, OwnedHandle
<1> HIDE DEF m, e
<1>5. d \in Handle /\ Owns(m, d)
  BY <1>3, OwnsDeserialize
<1> HIDE DEF d
<1>6. Owns(handle[p], d)
  BY <1>3, <1>5, OwnsTrans
<1>7. CASE LoopThrows(p, handle[p])
  BY <1>7, OwnsLoopThrows DEF Owning
<1> QED
  BY <1>2, <1>4, <1>5, <1>6, <1>7 DEF Owning

LEMMA OwnsReply ==
    ASSUME IInv, NEW p \in Peer, ReadReply(p), p = Client => handle[p].remoteobjmap # {}
    PROVE  Owning(p)
<1> DEFINE refs == Incoming(p).refs
           proxies == refs \cap Remote(p)
           m == [handle[p] EXCEPT !.last_op = 1]
           d == Deserialize(p, m, refs)
<1>1. handle[p] \in Handle
  BY DEF IInv, TypeOK
<1>2. CASE LoopThrows(p, handle[p])
  BY <1>2, OwnsLoopThrows DEF Owning
<1>3. CASE ~LoopThrows(p, handle[p])
  <2>1. PICK kept \in SUBSET proxies :
          SetHandle(p, Release(Release(d, proxies \ kept), Cur(p).wres \cap Remote(p)))
    BY <1>3 DEF ReadReply
  <2>2. proxies \ kept = (refs \ kept) \cap Remote(p)
    OBVIOUS
  <2>3. m \in Handle /\ Owns(handle[p], m) /\ m.remoteobjmap = handle[p].remoteobjmap
    BY <1>1, OwnsMark
  <2> HIDE DEF m, refs, proxies
  <2>4. d \in Handle /\ Owns(m, d)
    BY <2>3, OwnsDeserialize
  <2> HIDE DEF d
  <2>5. Owns(handle[p], d)
    BY <2>3, <2>4, OwnsTrans
  <2> DEFINE k == Release(Release(d, (refs \ kept) \cap Remote(p)), Cur(p).wres \cap Remote(p))
  <2>6. k \in Handle /\ Owns(handle[p], k)
    BY <2>4, <2>5, OwnsReleases
  <2>7. SetHandle(p, k)
    BY <2>1, <2>2
  <2> HIDE DEF k
  <2> QED
    BY <2>6, <2>7 DEF Owning
<1> QED
  BY <1>2, <1>3

LEMMA OwnsAck ==
    ASSUME IInv, Nest, Books, NEW p \in Peer, ReadAck(p)
    PROVE  Owning(p)
<1> DEFINE m == [handle[p] EXCEPT !.last_op = 1]
           V == Cur(p).victim
           h == Delete(m, V)
<1>1. /\ handle[p] \in Handle /\ Alive(p, handle[p], VictimOf(stack[p]))
      /\ (stack[p] # << >> => VictimOf(stack[p]) = V)
  BY BooksCurrent
<1>2. stack[p] # << >> /\ handle[p].stream
  BY ReadEffect DEF ReadAck
<1>3. TopObj \in V => ~OwnedHandle(handle[p])
  <2>1. TopObj \in V => handle[p].refcount[TopObj] = 0
    BY <1>1, <1>2 DEF Alive
  <2> QED
    BY <1>2, <2>1 DEF OwnedHandle
<1>4. /\ m \in Handle /\ Owns(handle[p], m) /\ m.refcount = handle[p].refcount
      /\ m.owner = handle[p].owner /\ m.destr_cand = handle[p].destr_cand
      /\ m.stream = handle[p].stream
  BY <1>1, OwnsMark
<1>5. SetHandle(p, h) \/ LoopThrows(p, handle[p])
  BY DEF ReadAck
<1> HIDE DEF m, V
<1>6. TopObj \in V => ~OwnedHandle(m)
  BY <1>3, <1>4 DEF OwnedHandle
<1>7. h \in Handle /\ Owns(m, h)
  BY <1>4, <1>6, OwnsDelete
<1> HIDE DEF h
<1>8. Owns(handle[p], h)
  BY <1>4, <1>7, OwnsTrans
<1>9. CASE LoopThrows(p, handle[p])
  BY <1>9, OwnsLoopThrows DEF Owning
<1> QED
  BY <1>5, <1>7, <1>8, <1>9 DEF Owning

LEMMA OwnsStep ==
    ASSUME IInv, Nest, Books, NEW p \in Peer,
           p = Client /\ handle[p].stream => handle[p].remoteobjmap # {},
           \/ Invoke(p) \/ Answer(p) \/ Keep(p) \/ Drop(p)
           \/ GcSkip(p) \/ GcDestroy(p) \/ WriteCall(p) \/ WriteReply(p) \/ WriteFails(p)
           \/ ReadRequest(p) \/ ReadDestroy(p) \/ ReadReply(p) \/ ReadAck(p) \/ ReadFails(p)
    PROVE  Owning(p)
<1>1. CASE Invoke(p) \/ Answer(p) \/ Keep(p) \/ Drop(p)
  BY <1>1, OwnsCode
<1>2. CASE GcSkip(p) \/ GcDestroy(p)
  BY <1>2, OwnsGc
<1>3. CASE WriteCall(p) \/ WriteReply(p) \/ WriteFails(p)
  BY <1>3, OwnsWrites, OwnsWriteFails DEF Owning
<1>4. CASE ReadRequest(p) \/ ReadDestroy(p) \/ ReadReply(p)
  <2>1. handle[p].stream
    BY <1>4 DEF ReadRequest, ReadDestroy, ReadReply, Read
  <2> QED
    BY <1>4, <2>1, OwnsRequests, OwnsReply
<1>5. CASE ReadAck(p)
  BY <1>5, OwnsAck
<1>6. CASE ReadFails(p)
  BY <1>6, OwnsLoopThrows DEF ReadFails, Owning
<1> QED
  BY <1>1, <1>2, <1>3, <1>4, <1>5, <1>6

-----------------------------------------------------------------------------
(* The first packet.                                                        *)

(* The client holds the owner, or has closed.                               *)
LEMMA OwnedAfter ==
    ASSUME IInv, Nest, Books, Books', IInv', Nest', NEW h \in Handle,
           SetHandle(Client, h), OwnedHandle(h), h.owner \subseteq {TopObj},
           handle[Server].owner = {}
    PROVE  Owned'
<1>1. Client \in Peer /\ Server \in Peer /\ Server # Client
  BY DEF Peer, Client, Server
<1>2. handle'[Client] = h /\ handle'[Server] = handle[Server]
  BY <1>1 DEF SetHandle, IInv, TypeOK
<1>3. TopObj \in Remote(Client)
  BY ObjectsAssumption DEF Remote, Other, Local, Client, Server
<1>4. h.stream => h.remoteobjmap # {}
  <2>1. \E V : Alive(Client, h, V)
    BY <1>1, <1>2 DEF Books, BooksOf
  <2> QED
    BY <1>3, <2>1 DEF Alive, OwnedHandle
<1>5. ~Fresh'
  BY <1>2, <1>4 DEF Fresh
<1> QED
  BY <1>2, <1>5 DEF Owned

(* The client waits for the first packet.                                   *)
LEMMA OwnedClient ==
    ASSUME IInv, Nest, Books, IInv', Nest', Books', Owned, Fresh,
           LET p == Client
           IN  \/ Invoke(p) \/ Answer(p) \/ Keep(p) \/ Drop(p)
               \/ GcSkip(p) \/ GcDestroy(p) \/ WriteCall(p) \/ WriteReply(p) \/ WriteFails(p)
               \/ ReadRequest(p) \/ ReadDestroy(p) \/ ReadReply(p) \/ ReadAck(p) \/ ReadFails(p)
    PROVE  Owned'
<1> PICK p : p = Client
  OBVIOUS
<1>1. p \in Peer /\ Client \in Peer
  BY DEF Peer
<1>2. /\ stack[p] # << >> /\ Last(stack[p]).at = "wait" /\ Cur(p) = Last(stack[p])
      /\ handle[p].owner = {} /\ handle[Server].owner = {} /\ handle[p].remoteobjmap = {}
      /\ chan[p] # << >> => Head(chan[p]) = [op |-> "return", refs |-> {TopObj}]
      /\ handle[p] \in Handle /\ Alive(p, handle[p], VictimOf(stack[p]))
  BY <1>1, BooksCurrent DEF Owned, Connecting, Fresh
<1>3. ~At(p, {"user"}) /\ ~At(p, {"write"})
  BY <1>2 DEF At
<1>4. ~(Invoke(p) \/ Answer(p) \/ Keep(p) \/ Drop(p))
  BY <1>2, <1>3 DEF Invoke, Answer, Keep, Drop
<1>5. ~(GcSkip(p) \/ GcDestroy(p) \/ WriteCall(p) \/ WriteReply(p) \/ WriteFails(p))
  BY <1>3 DEF GcSkip, GcDestroy, WriteCall, WriteReply, WriteFails
<1>6. ASSUME NEW ops, Read(p, ops)
      PROVE  Incoming(p).op = "return" /\ "return" \in ops /\ Incoming(p).refs = {TopObj}
  BY <1>1, <1>2, <1>6 DEF Read, Arrived, Incoming
<1>7. ~ReadRequest(p) /\ ~ReadDestroy(p) /\ ~ReadAck(p)
  <2>1. ~ReadRequest(p)
    BY <1>6 DEF ReadRequest
  <2>2. ~ReadDestroy(p)
    BY <1>6 DEF ReadDestroy
  <2>3. ~ReadAck(p)
    BY <1>2 DEF ReadAck
  <2> QED
    BY <2>1, <2>2, <2>3
<1>8. ReadReply(p) \/ LoopThrows(p, handle[p])
  BY <1>4, <1>5, <1>7 DEF ReadFails
<1>9. CASE LoopThrows(p, handle[p])
  <2>1. PICK g \in Handle : SetHandle(p, g) /\ Owns(handle[p], g) /\ ~g.stream
    BY <1>1, <1>9, OwnsLoopThrows
  <2>2. g.owner = {}
    BY <1>2, <2>1 DEF Owns
  <2>3. OwnedHandle(g) /\ g.owner \subseteq {TopObj}
    BY <2>1, <2>2 DEF OwnedHandle
  <2> QED
    BY <1>2, <2>1, <2>3, OwnedAfter
<1>10. CASE ReadReply(p) /\ ~LoopThrows(p, handle[p])
  <2> DEFINE refs == {TopObj}
             m == [handle[p] EXCEPT !.last_op = 1]
             d == Deserialize(p, m, refs)
  <2>1. Read(p, {"return", "throw"})
    BY <1>10 DEF ReadReply
  <2>2. Incoming(p).refs = refs
    BY <1>6, <2>1
  <2>3. PICK kept \in SUBSET (refs \cap Remote(p)) :
          SetHandle(p, Release(Release(d, (refs \cap Remote(p)) \ kept),
                               Cur(p).wres \cap Remote(p)))
    BY <1>10, <2>2 DEF ReadReply
  <2>4. (refs \cap Remote(p)) \ kept = (refs \ kept) \cap Remote(p)
    OBVIOUS
  <2>5. /\ m \in Handle /\ m.remoteobjmap = {} /\ m.refcount = handle[p].refcount
        /\ m.owner = {} /\ m.destr_cand = handle[p].destr_cand
    BY <1>2, OwnsMark
  <2>6. refs \cap Remote(p) = {TopObj} /\ TopObj \in Remote(p) /\ TopObj \in Objects
    BY ObjectsAssumption DEF Remote, Other, Local, Client, Server, Objects
  <2>7. handle[p].destr_cand = {} /\ handle[p].refcount[TopObj] \in Nat
    BY <1>2, <2>6 DEF Alive
  <2> HIDE DEF m
  <2>8. d \in Handle /\ d.owner = {TopObj} /\ d.destr_cand = {}
        /\ d.refcount = Plus(m.refcount, {TopObj})
    <3>1. d \in Handle
      BY <1>1, <2>5, DeserializeType
    <3>2. d = [AddRef(m, {TopObj}) EXCEPT !.remoteobjmap = @ \cup {TopObj},
                                          !.owner = @ \cup {TopObj}]
      BY <2>5, <2>6 DEF Deserialize
    <3> QED
      BY <2>5, <2>7, <3>1, <3>2 DEF AddRef, Handle
  <2> HIDE DEF d
  <2>9. d.refcount[TopObj] > 0
    <3>1. d.refcount[TopObj] = m.refcount[TopObj] + 1
      BY <2>6, <2>8 DEF Plus
    <3> QED
      BY <2>5, <2>7, <3>1
  <2>10. OwnedHandle(d)
    BY <2>8, <2>9 DEF OwnedHandle
  <2> DEFINE k == Release(Release(d, (refs \ kept) \cap Remote(p)), Cur(p).wres \cap Remote(p))
  <2>11. Owns(d, d)
    BY DEF Owns
  <2>12. k \in Handle /\ Owns(d, k)
    BY <1>1, <2>8, <2>11, OwnsReleases
  <2>13. SetHandle(p, k)
    BY <2>3, <2>4
  <2> HIDE DEF k
  <2>14. OwnedHandle(k) /\ k.owner \subseteq {TopObj}
    BY <2>8, <2>10, <2>12 DEF Owns
  <2> QED
    BY <1>2, <2>12, <2>13, <2>14, OwnedAfter
<1> QED
  BY <1>8, <1>9, <1>10

(* The maps of a handle that gives its connection up only shrink.           *)
LEMMA ClosedMaps ==
    ASSUME NEW h \in Handle, NEW S \in SUBSET Objects
    PROVE  Release(CloseConnection(h), S).remoteobjmap \subseteq h.remoteobjmap
<1> DEFINE c == CloseConnection(h)
           g == Release(c, S)
           dead == {o \in S : c.refcount[o] = 1}
           gone == {o \in h.destr_cand : h.refcount[o] = 0}
<1>1. c \in Handle /\ c.stream = FALSE /\ c.remoteobjmap = h.remoteobjmap \ gone
  BY CloseConnectionType, CloseFields
<1> HIDE DEF c, gone
<1>2. g.remoteobjmap = c.remoteobjmap \ dead
  BY <1>1, ReleaseFields
<1> HIDE DEF g, dead
<1>3. g.remoteobjmap \subseteq h.remoteobjmap
  BY <1>1, <1>2
<1> QED
  BY <1>3 DEF g, c

(* The server has nothing to do but to write its first packet, or to give   *)
(* up.                                                                      *)
LEMMA HelloStep ==
    ASSUME IInv, Nest, Books, Owned, Fresh, NEW p \in Peer, p = Server,
           \/ Invoke(p) \/ Answer(p) \/ Keep(p) \/ Drop(p)
           \/ GcSkip(p) \/ GcDestroy(p) \/ WriteCall(p) \/ WriteReply(p) \/ WriteFails(p)
           \/ ReadRequest(p) \/ ReadDestroy(p) \/ ReadReply(p) \/ ReadAck(p) \/ ReadFails(p)
    PROVE  /\ handle'[p].remoteobjmap = {} /\ chan'[p] = << >>
           /\ \/ stack'[p] = << >> /\ chan'[Client] = chan[Client]
              \/ /\ Hello(stack'[p], "wait")
                 /\ chan'[Client] = <<[op |-> "return", refs |-> {TopObj}]>>
<1> DEFINE s == stack[p]
           at == IF chan[Client] = << >> THEN "write" ELSE "wait"
<1>1. /\ handle[p].remoteobjmap = {} /\ chan[p] = << >>
      /\ s = << >> \/ Hello(s, at)
  BY DEF Owned, Connecting
<1>2. /\ handle[p] \in Handle /\ Alive(p, handle[p], VictimOf(s)) /\ s \in Seq(Activation)
      /\ Counted(p, handle[p], s, app[p]) /\ Cur(p) = Last(s)
      /\ (s # << >> => Cur(p) \in Activation)
  BY BooksCurrent
<1>3. /\ Client \in Peer /\ Client = Other(p) /\ p # Client
  BY DEF Peer, Client, Server, Other
<1>4. /\ handle \in [Peer -> Handle] /\ stack \in [Peer -> Seq(Activation)]
      /\ chan \in [Peer -> Seq(Packet)]
  BY DEF IInv, TypeOK
<1>5. s # << >> => /\ Hello(s, at) /\ Cur(p).op = "hello" /\ Cur(p).wres = {TopObj}
                   /\ Cur(p).at = at /\ Len(s) = 1
  BY <1>1, <1>2 DEF Hello
<1>6. ~At(p, {"user"}) /\ ~At(p, {"gc"})
  BY <1>5 DEF At
<1>7. handle[p].destr_cand = {} /\ \A o \in Remote(p) : handle[p].refcount[o] = 0
  <2>1. handle[p].destr_cand = {}
    BY <1>1, <1>2 DEF Alive
  <2>2. \A o \in Remote(p) : handle[p].refcount[o] \in Nat /\ ~(handle[p].refcount[o] > 0)
    BY <1>1, <1>2 DEF Alive
  <2> QED
    BY <2>1, <2>2
<1>8. ~Invoke(p) /\ ~Answer(p) /\ ~Keep(p)
  BY <1>6 DEF Invoke, Answer, Keep
<1>9. ~Drop(p)
  <2>1. ASSUME NEW o \in Remote(p), app[p][o] > 0
        PROVE  FALSE
    <3>1. app[p][o] \in Nat /\ Held(s, o) \in Nat
          /\ handle[p].refcount[o] = app[p][o] + Held(s, o)
      BY Numbers
    <3> QED
      BY <1>7, <2>1, <3>1
  <2> QED
    BY <2>1 DEF Drop
<1>10. ~GcSkip(p) /\ ~GcDestroy(p)
  BY <1>7 DEF GcSkip, GcDestroy
<1>11. ~WriteReply(p)
  BY <1>5 DEF WriteReply, At
<1>12. \A ops : ~Read(p, ops)
  BY <1>1 DEF Read, Arrived
<1>13. ~ReadRequest(p) /\ ~ReadDestroy(p) /\ ~ReadReply(p) /\ ~ReadAck(p)
  BY <1>12 DEF ReadRequest, ReadDestroy, ReadReply, ReadAck
<1>14. WriteCall(p) \/ WriteFails(p) \/ ReadFails(p)
  BY <1>8, <1>9, <1>10, <1>11, <1>13
<1>15. s # << >>
  BY <1>14 DEF WriteCall, WriteFails, ReadFails, At
<1> HIDE DEF at
<1>16. CASE WriteCall(p)
  <2> DEFINE f == Serialize(p, handle[p], {TopObj})
             a == [Cur(p) EXCEPT !.at = "wait"]
             t == [s EXCEPT ![Len(s)] = a]
             r == [op |-> "return", refs |-> {TopObj}]
  <2> PICK pkt : pkt = r
    OBVIOUS
  <2>1. /\ SetHandle(p, [f EXCEPT !.last_op = 2]) /\ Send(p, "return", {TopObj})
        /\ SetCur(p, a) /\ Cur(p).at = "write"
    BY <1>5, <1>15, <1>16 DEF WriteCall, At
  <2>2. [f EXCEPT !.last_op = 2].remoteobjmap = {}
    BY <1>1, <1>2 DEF Serialize, Handle
  <2>3. handle'[p].remoteobjmap = {}
    BY <1>4, <2>1, <2>2 DEF SetHandle
  <2>4. chan[Client] = << >>
    BY <1>5, <1>15, <2>1 DEF at
  <2>5. chan' = [chan EXCEPT ![Client] = Append(@, pkt)]
    BY <1>3, <2>1 DEF Send
  <2>6. chan'[p] = << >> /\ chan'[Client] = <<pkt>>
    <3>1. chan'[p] = chan[p] /\ chan'[Client] = Append(chan[Client], pkt)
      BY <1>3, <1>4, <2>5
    <3> QED
      BY <1>1, <2>4, <3>1
  <2>7. stack'[p] = t
    BY <1>4, <2>1 DEF SetCur
  <2>8. a \in Activation /\ a.at = "wait" /\ a.op = "hello" /\ a.wres = {TopObj}
    BY <1>2, <1>5, <1>15 DEF Activation
  <2> HIDE DEF a
  <2>9. Len(t) = Len(s) /\ t[Len(t)] = a
    BY <1>2, <1>15, <2>8, StackReplace
  <2> HIDE DEF t
  <2>10. Hello(t, "wait")
    BY <1>5, <1>15, <2>8, <2>9 DEF Hello, Last
  <2> QED
    BY <2>3, <2>6, <2>7, <2>10
<1>17. CASE WriteFails(p) \/ ReadFails(p)
  <2>1. AfterFailure(s) = << >>
    <3>1. s[Len(s)].op = "hello" /\ Len(s) = 1
      BY <1>2, <1>5, <1>15 DEF Last
    <3>2. AfterFailure(s) = SubSeq(s, 1, 0)
      BY <3>1 DEF AfterFailure
    <3> QED
      BY <3>2
  <2>2. PICK m \in Handle, S \in SUBSET Objects :
          /\ m.remoteobjmap = {} /\ SetHandle(p, Release(CloseConnection(m), S))
          /\ SetStack(p, AfterFailure(s)) /\ chan' = chan
    <3>1. Cur(p).wres \cap Remote(p) \in SUBSET Objects
      BY LocalRemote
    <3>2. CASE WriteFails(p)
      BY <1>1, <1>2, <1>5, <1>15, <3>1, <3>2 DEF WriteFails
    <3>3. CASE ReadFails(p)
      <4>1. [handle[p] EXCEPT !.last_op = 1] \in Handle
            /\ [handle[p] EXCEPT !.last_op = 1].remoteobjmap = {}
        BY <1>1, <1>2, OwnsMark
      <4>2. Cur(p).at # "gc"
        BY <1>5, <1>15 DEF at
      <4> QED
        BY <3>1, <3>3, <4>1, <4>2 DEF ReadFails, LoopThrows
    <3> QED
      BY <1>17, <3>2, <3>3
  <2>3. Release(CloseConnection(m), S).remoteobjmap = {}
    BY <2>2, ClosedMaps
  <2>4. handle'[p].remoteobjmap = {} /\ stack'[p] = << >>
    BY <1>4, <2>1, <2>2, <2>3 DEF SetHandle, SetStack
  <2> QED
    BY <1>1, <2>2, <2>4
<1> QED
  BY <1>14, <1>16, <1>17

LEMMA OwnStacks ==
    ASSUME IInv, NEW p \in Peer,
           \/ Invoke(p) \/ Answer(p) \/ Keep(p) \/ Drop(p)
           \/ GcSkip(p) \/ GcDestroy(p) \/ WriteCall(p) \/ WriteReply(p) \/ WriteFails(p)
           \/ ReadRequest(p) \/ ReadDestroy(p) \/ ReadReply(p) \/ ReadAck(p) \/ ReadFails(p)
    PROVE  stack'[Other(p)] = stack[Other(p)]
<1>1. stack \in [Peer -> Seq(Activation)] /\ Other(p) \in Peer /\ Other(p) # p
  BY LocalRemote DEF IInv, TypeOK
<1>2. \/ \E s : SetStack(p, s)
      \/ \E a : SetCur(p, a)
      \/ stack' = stack
  <2>1. CASE Invoke(p) \/ Answer(p) \/ Keep(p) \/ Drop(p)
    BY <2>1 DEF Invoke, Answer, Keep, Drop
  <2>2. CASE GcSkip(p) \/ GcDestroy(p) \/ WriteCall(p) \/ WriteReply(p) \/ WriteFails(p)
    BY <2>2 DEF GcSkip, GcDestroy, WriteCall, WriteReply, WriteFails
  <2>3. CASE ReadRequest(p) \/ ReadDestroy(p) \/ ReadReply(p)
    BY <2>3 DEF ReadRequest, ReadDestroy, ReadReply, LoopThrows
  <2>4. CASE ReadAck(p) \/ ReadFails(p)
    BY <2>4 DEF ReadAck, ReadFails, LoopThrows
  <2> QED
    BY <2>1, <2>2, <2>3, <2>4
<1> QED
  BY <1>1, <1>2 DEF SetStack, SetCur

LEMMA OwnedServer ==
    ASSUME IInv, Nest, Books, Owned, Fresh, NEW p \in Peer, p = Server,
           \/ Invoke(p) \/ Answer(p) \/ Keep(p) \/ Drop(p)
           \/ GcSkip(p) \/ GcDestroy(p) \/ WriteCall(p) \/ WriteReply(p) \/ WriteFails(p)
           \/ ReadRequest(p) \/ ReadDestroy(p) \/ ReadReply(p) \/ ReadAck(p) \/ ReadFails(p)
    PROVE  Owned'
<1>1. Client = Other(p) /\ p # Client /\ Client \in Peer
  BY DEF Peer, Client, Server, Other
<1>2. PICK g \in Handle : SetHandle(p, g) /\ Owns(handle[p], g)
  BY <1>1, OwnsStep DEF Owning
<1>3. handle'[p] = g /\ handle'[Client] = handle[Client]
  BY <1>1, <1>2 DEF SetHandle, IInv, TypeOK
<1>4. Fresh' /\ handle'[Server].owner = {}
  BY <1>2, <1>3 DEF Fresh, Owned, Owns
<1>5. stack'[Client] = stack[Client]
  BY <1>1, OwnStacks
<1>6. /\ handle'[p].remoteobjmap = {} /\ chan'[p] = << >>
      /\ \/ stack'[p] = << >> /\ chan'[Client] = chan[Client]
         \/ /\ Hello(stack'[p], "wait")
            /\ chan'[Client] = <<[op |-> "return", refs |-> {TopObj}]>>
  BY HelloStep
<1>7. /\ stack[Client] # << >> /\ Last(stack[Client]).at = "wait"
      /\ handle[Client].owner = {}
      /\ chan[Client] # << >> => Head(chan[Client]) = [op |-> "return", refs |-> {TopObj}]
  BY DEF Owned, Connecting
<1> DEFINE pkt == [op |-> "return", refs |-> {TopObj}]
<1>8. <<pkt>> # << >> /\ Head(<<pkt>>) = pkt
  OBVIOUS
<1> HIDE DEF pkt
<1>9. /\ chan'[Client] # << >> => Head(chan'[Client]) = pkt
      /\ \/ stack'[p] = << >>
         \/ Hello(stack'[p], IF chan'[Client] = << >> THEN "write" ELSE "wait")
  BY <1>6, <1>7, <1>8 DEF pkt
<1>10. Connecting'
  BY <1>3, <1>5, <1>6, <1>7, <1>9 DEF Connecting, pkt, Hello
<1> QED
  BY <1>4, <1>10 DEF Owned

-----------------------------------------------------------------------------
(* Owned is an invariant.                                                   *)

LEMMA OwnedInit == Init => Owned
<1> SUFFICES ASSUME Init PROVE Owned
  OBVIOUS
<1> DEFINE a == [Idle EXCEPT !.at = "wait", !.op = "call"]
           b == [Idle EXCEPT !.at = "write", !.op = "hello", !.wres = {TopObj}]
           s == <<a>>
           r == <<b>>
<1>1. a.at = "wait" /\ b.at = "write" /\ b.op = "hello" /\ b.wres = {TopObj}
  BY DEF Idle
<1>2. stack = [p \in Peer |-> IF p = Client THEN s ELSE r]
  BY DEF Init
<1> HIDE DEF a, b
<1>3. s # << >> /\ Last(s) = a /\ Len(r) = 1 /\ Last(r) = b
  BY DEF Last
<1>4. Client \in Peer /\ Server \in Peer /\ Client # Server
  BY DEF Peer, Client, Server
<1> HIDE DEF s, r
<1>5. stack[Client] = s /\ stack[Server] = r
  BY <1>2, <1>4
<1>6. /\ handle[Client] = NewHandle /\ handle[Server] = NewHandle
      /\ chan[Client] = << >> /\ chan[Server] = << >>
  BY <1>4 DEF Init
<1>7. Hello(r, "write")
  BY <1>1, <1>3 DEF Hello
<1> QED
  BY <1>1, <1>3, <1>5, <1>6, <1>7 DEF Owned, Fresh, Connecting, NewHandle

LEMMA OwnedNext ==
    IInv /\ Nest /\ Books /\ Owned /\ [Next]_vars /\ IInv' /\ Nest' /\ Books' => Owned'
<1> SUFFICES ASSUME IInv, Nest, Books, Owned, [Next]_vars, IInv', Nest', Books'
             PROVE  Owned'
  OBVIOUS
<1>1. CASE UNCHANGED vars
  BY <1>1 DEF vars, Owned, Fresh, Connecting
<1>2. CASE Next
  <2> PICK p \in Peer :
        \/ Invoke(p) \/ Answer(p) \/ Keep(p) \/ Drop(p)
        \/ GcSkip(p) \/ GcDestroy(p) \/ WriteCall(p) \/ WriteReply(p) \/ WriteFails(p)
        \/ ReadRequest(p) \/ ReadDestroy(p) \/ ReadReply(p) \/ ReadAck(p) \/ ReadFails(p)
    BY <1>2 DEF Next
  <2>1. Peer = {Client, Server} /\ Client # Server
    BY DEF Peer, Client, Server
  <2>2. CASE Fresh /\ p = Client
    BY <2>2, OwnedClient
  <2>3. CASE Fresh /\ p = Server
    BY <2>3, OwnedServer
  <2>4. CASE ~Fresh
    <3>1. OwnedHandle(handle[Client]) /\ handle[Server].owner = {}
      BY <2>4 DEF Owned
    <3>2. PICK g \in Handle : SetHandle(p, g) /\ Owns(handle[p], g)
      BY <2>4, OwnsStep DEF Owning, Fresh
    <3>3. CASE p = Client
      <4>1. OwnedHandle(g) /\ g.owner \subseteq {TopObj}
        BY <3>1, <3>2, <3>3 DEF Owns, OwnedHandle
      <4> QED
        BY <3>1, <3>2, <3>3, <4>1, OwnedAfter
    <3>4. CASE p = Server
      <4>1. handle'[Client] = handle[Client] /\ handle'[Server] = g
        BY <2>1, <3>2, <3>4 DEF SetHandle, IInv, TypeOK
      <4>2. g.owner = {}
        BY <3>1, <3>2, <3>4 DEF Owns
      <4> QED
        BY <2>4, <3>1, <4>1, <4>2 DEF Owned, Fresh
    <3> QED
      BY <2>1, <3>3, <3>4
  <2> QED
    BY <2>1, <2>2, <2>3, <2>4
<1> QED
  BY <1>1, <1>2

(* An open client end that runs has its owner, referenced; the owner is     *)
(* never left to the collector, and a server has none.                      *)
THEOREM OwnersKeepOpen == Spec => []OwnerKeepsOpen
<1> DEFINE J == IInv /\ Nest /\ Books /\ Owned
<1>1. Init => J
  BY InitInvariant, NestInit, BooksInit, OwnedInit
<1>2. J /\ [Next]_vars => J'
  <2> SUFFICES ASSUME J, [Next]_vars PROVE J'
    OBVIOUS
  <2>1. IInv' /\ Nest' /\ Books'
    BY NextInvariant, NestNext, BooksNext
  <2> QED
    BY <2>1, OwnedNext
<1>3. J => OwnerKeepsOpen
  <2> SUFFICES ASSUME Owned PROVE OwnerKeepsOpen
    OBVIOUS
  <2>1. CASE Fresh
    <3>1. handle[Client].owner = {} /\ ~Controls(Client)
      BY <2>1 DEF Owned, Connecting, Controls, At, Cur, Last
    <3> QED
      BY <3>1 DEF OwnerKeepsOpen, Owned
  <2>2. CASE ~Fresh
    BY <2>2 DEF OwnerKeepsOpen, Owned, OwnedHandle
  <2> QED
    BY <2>1, <2>2
<1> QED
  <2> HIDE DEF J
  <2> QED
    BY <1>1, <1>2, <1>3, PTL DEF Spec

-----------------------------------------------------------------------------
(* RemoteCall itself: a protocol of its own, in variables of its own.       *)
VARIABLES connected, side, msg, out

Abstract == INSTANCE RemoteCall

CallInv == Abstract!TypeOK /\ Abstract!Alternation

(* The abstract protocol is well typed and its calls alternate, in every    *)
(* behaviour and to any depth of nesting.                                   *)
THEOREM CallAlternation == Abstract!Spec => [](Abstract!TypeOK /\ Abstract!Alternation)
<1> USE DEF Abstract!Peer, Abstract!Client, Abstract!Server, Abstract!Other
<1>1. Abstract!Init => CallInv
  BY DEF Abstract!Init, CallInv, Abstract!TypeOK, Abstract!Alternation
<1>2. CallInv /\ [Abstract!Next]_Abstract!vars => CallInv'
  <2> SUFFICES ASSUME CallInv, [Abstract!Next]_Abstract!vars
               PROVE  CallInv'
    OBVIOUS
  <2> USE DEF CallInv, Abstract!TypeOK, Abstract!Alternation
  <2>1. ASSUME NEW p \in Abstract!Peer, Abstract!Call(p)
        PROVE  CallInv'
    BY <2>1 DEF Abstract!Call
  <2>2. ASSUME NEW p \in Abstract!Peer, Abstract!Serve(p)
        PROVE  CallInv'
    BY <2>2 DEF Abstract!Serve
  <2>3. ASSUME NEW p \in Abstract!Peer, Abstract!Reply(p)
        PROVE  CallInv'
    BY <2>3 DEF Abstract!Reply
  <2>4. ASSUME NEW p \in Abstract!Peer, Abstract!Return(p)
        PROVE  CallInv'
    BY <2>4 DEF Abstract!Return
  <2>5. CASE Abstract!Disconnect
    BY <2>5 DEF Abstract!Disconnect
  <2>6. CASE UNCHANGED Abstract!vars
    BY <2>6 DEF Abstract!vars
  <2>7. QED
    BY <2>1, <2>2, <2>3, <2>4, <2>5, <2>6 DEF Abstract!Next
<1>3. CallInv => Abstract!TypeOK /\ Abstract!Alternation
  BY DEF CallInv
<1>4. QED
  BY <1>1, <1>2, <1>3, PTL DEF Abstract!Spec

-----------------------------------------------------------------------------
(***************************************************************************)
(* RemoteDestructors.  While a destructor runs its side has answered the   *)
(* op_destroy already: it wrote last, and runs all the same.  Sound is     *)
(* then true of the stack below the destructor, which is what the loop     *)
(* finds when it goes on.                                                  *)
(***************************************************************************)
Below(p) == IF InDestructor(p) THEN Rest(p) ELSE stack[p]

DestructorOnTop(p) ==
    IF InDestructor(p)
    THEN destructors[p] = {Len(stack[p])} /\ Cur(p).at = "user"
    ELSE destructors[p] = {}

DInv ==
    /\ TypeOK /\ NoAbort
    /\ destructors \in [Peer -> SUBSET Nat]
    /\ \A p \in Peer : DestructorOnTop(p) /\ Sound(handle[p], Below(p))

LEMMA DInvInit == DestructorsInit => DInv
<1> SUFFICES ASSUME DestructorsInit PROVE DInv
  OBVIOUS
<1>1. IInv
  BY InitInvariant DEF DestructorsInit
<1>2. \A p \in Peer : destructors[p] = {} /\ ~InDestructor(p)
  BY DEF DestructorsInit, InDestructor
<1>3. QED
  BY <1>1, <1>2 DEF DestructorsInit, DInv, IInv, SidesSound, DestructorOnTop, Below

(* The side that does not step keeps its part.                              *)
LEMMA OtherKept ==
    ASSUME DInv, NEW p \in Peer, NEW q \in Peer, q # p,
           handle'[q] = handle[q], stack'[q] = stack[q], destructors'[q] = destructors[q]
    PROVE  (DestructorOnTop(q) /\ Sound(handle[q], Below(q)))'
  BY DEF DInv, DestructorOnTop, Below, InDestructor, Cur, Rest

(* A step of the protocol by a side that runs no destructor.                *)
LEMMA OutsideStep ==
    ASSUME DInv, NEW p \in Peer, ~InDestructor(p), ProtocolStep(p)
    PROVE  DInv'
<1>1. Steady(p) /\ destructors[p] = {}
  BY DEF DInv, Steady, DestructorOnTop, Below
<1>2. Advances(p)
  BY <1>1, SideStep DEF ProtocolStep
<1>3. destructors' = destructors
  BY DEF ProtocolStep
<1>4. TypeOK' /\ NoAbort'
  BY <1>2 DEF Advances, DInv, NoAbort
<1>5. (DestructorOnTop(p) /\ Sound(handle[p], Below(p)))'
  BY <1>1, <1>2, <1>3 DEF Advances, DestructorOnTop, Below, InDestructor
<1>6. ASSUME NEW q \in Peer, q # p
      PROVE  (DestructorOnTop(q) /\ Sound(handle[q], Below(q)))'
  BY <1>2, <1>3, <1>6, OtherKept DEF Advances
<1>7. destructors' \in [Peer -> SUBSET Nat]
  BY <1>3 DEF DInv
<1>8. QED
  BY <1>4, <1>5, <1>6, <1>7 DEF DInv

(* A destructor that does not call keeps and drops copies only.             *)
LEMMA InsideStep ==
    ASSUME DInv, NEW p \in Peer, InDestructor(p), DestructorsCall = FALSE, ProtocolStep(p)
    PROVE  DInv'
<1>1. /\ Cur(p).at = "user" /\ stack[p] # << >>
      /\ destructors[p] = {Len(stack[p])}
      /\ Sound(handle[p], Rest(p))
  BY DEF DInv, DestructorOnTop, Below, InDestructor
<1>2. Keep(p) \/ Drop(p)
  <2>1. ~At(p, {"write"}) /\ ~At(p, {"wait", "gc"})
    BY <1>1 DEF At
  <2>2. QED
    BY <2>1 DEF ProtocolStep, GcSkip, GcDestroy, WriteCall, WriteReply, WriteFails, ReadRequest,
       ReadDestroy, ReadReply, ReadAck, ReadFails, Read
<1>3. TypeOK
  BY DEF DInv
<1>4. PICK h \in Handle : Counts(p, h)
  BY <1>2, <1>3, KeepCounts, DropCounts
<1>5. /\ handle' = [handle EXCEPT ![p] = h]
      /\ stack' = stack /\ chan' = chan /\ aborted' = aborted
      /\ app' \in [Peer -> [Objects -> Int]]
      /\ h.last_op = handle[p].last_op
      /\ h.stream => handle[p].stream
  BY <1>4 DEF Counts, SetHandle
<1>6. destructors' = destructors
  BY DEF ProtocolStep
<1>7. handle'[p] = h /\ \A q \in Peer : q # p => handle'[q] = handle[q]
  BY <1>3, <1>5 DEF TypeOK
<1>8. Sound(h, Rest(p))
  BY <1>1, <1>5 DEF Sound, Discipline
<1>9. TypeOK' /\ NoAbort'
  BY <1>5 DEF DInv, TypeOK, NoAbort
<1>10. (DestructorOnTop(p) /\ Sound(handle[p], Below(p)))'
  BY <1>1, <1>5, <1>6, <1>7, <1>8 DEF DestructorOnTop, Below, InDestructor, Cur, Rest
<1>11. ASSUME NEW q \in Peer, q # p
       PROVE  (DestructorOnTop(q) /\ Sound(handle[q], Below(q)))'
  BY <1>5, <1>6, <1>7, <1>11, OtherKept
<1>12. destructors' \in [Peer -> SUBSET Nat]
  BY <1>6 DEF DInv
<1>13. QED
  BY <1>9, <1>10, <1>11, <1>12 DEF DInv

(* The answer to op_destroy is written: the loop below wrote last.          *)
LEMMA RunDestructorStep ==
    ASSUME DInv, NEW p \in Peer, RunDestructor(p)
    PROVE  DInv'
<1> DEFINE h == [handle[p] EXCEPT !.last_op = 2]
           s == [stack[p] EXCEPT ![Len(stack[p])] = Idle]
           c == [chan EXCEPT ![Other(p)] = Append(@, [op |-> "return", refs |-> {}])]
<1>1. /\ stack[p] # << >> /\ Cur(p).at = "write" /\ Cur(p).op = "ack" /\ handle[p].stream
      /\ handle' = [handle EXCEPT ![p] = h]
      /\ stack' = [stack EXCEPT ![p] = s]
      /\ chan' = c /\ app' = app
      /\ aborted' = [aborted EXCEPT ![p] = handle[p].last_op = 2]
      /\ destructors' = [destructors EXCEPT ![p] = @ \cup {Len(stack[p])}]
  BY DEF RunDestructor, At, SetHandle, SetCur, Send
<1>2. ~InDestructor(p) /\ destructors[p] = {} /\ Steady(p)
  BY <1>1 DEF DInv, DestructorOnTop, Below, Steady
<1>3. /\ handle[p] \in Handle /\ stack[p] \in Seq(Activation) /\ Shape(stack[p])
      /\ Len(stack[p]) > 1 /\ handle[p].last_op # 2
  BY <1>1, <1>2, Present
<1>4. c \in [Peer -> Seq(Packet)]
  <2>1. [op |-> "return", refs |-> {}] \in Packet
    BY DEF Packet
  <2>2. QED
    BY <1>2, <2>1, SendType
<1>5. /\ s \in Seq(Activation) /\ s # << >> /\ Len(s) = Len(stack[p]) /\ s[Len(s)] = Idle
      /\ \A i \in 1 .. Len(stack[p]) - 1 : s[i] = stack[p][i]
  <2>1. Idle \in Activation
    BY DEF Idle, Activation
  <2>2. QED
    BY <1>1, <1>3, <2>1, StackReplace
<1> DEFINE t == Rest(p)
<1>6. t \in Seq(Activation) /\ t # << >> /\ Shape(t) /\ ~Runs(t)
  BY <1>3, SoundPop DEF Rest
<1>7. SubSeq(s, 1, Len(s) - 1) = t
  <2>1. /\ Len(SubSeq(s, 1, Len(s) - 1)) = Len(t)
        /\ \A i \in 1 .. Len(t) : SubSeq(s, 1, Len(s) - 1)[i] = t[i]
    <3>1. /\ Len(SubSeq(s, 1, Len(s) - 1)) = Len(s) - 1
          /\ \A i \in 1 .. Len(s) - 1 : SubSeq(s, 1, Len(s) - 1)[i] = s[i]
      BY <1>5, StackPop
    <3>2. /\ Len(t) = Len(stack[p]) - 1
          /\ \A i \in 1 .. Len(stack[p]) - 1 : t[i] = stack[p][i]
      BY <1>1, <1>3, StackPop DEF Rest
    <3> HIDE DEF s, t
    <3>3. QED
      BY <1>5, <3>1, <3>2
  <2>2. SubSeq(s, 1, Len(s) - 1) \in Seq(Activation)
    BY <1>5, StackPop
  <2> DEFINE u == SubSeq(s, 1, Len(s) - 1)
  <2> HIDE DEF s, t, u
  <2>3. u = t
    BY <1>6, <2>1, <2>2, SeqEqual DEF u
  <2>4. QED
    BY <2>3 DEF u
<1>8. h \in Handle /\ h.last_op = 2
  BY <1>3 DEF Handle
<1> HIDE DEF h, s, c, t
<1>9. Sound(h, t)
  BY <1>6, <1>8 DEF Sound, Discipline
<1>10. /\ handle'[p] = h /\ stack'[p] = s /\ destructors'[p] = {Len(s)}
       /\ \A q \in Peer : q # p => /\ handle'[q] = handle[q] /\ stack'[q] = stack[q]
                                   /\ destructors'[q] = destructors[q]
  BY <1>1, <1>2, <1>5 DEF DInv, TypeOK
<1>11. aborted' = aborted
  BY <1>1, <1>3 DEF DInv, TypeOK, NoAbort
<1>12. TypeOK' /\ NoAbort'
  BY <1>1, <1>4, <1>5, <1>8, <1>11 DEF DInv, TypeOK, NoAbort
<1>13. InDestructor(p)' /\ Cur(p)' = Idle /\ Rest(p)' = t
  BY <1>5, <1>7, <1>10 DEF InDestructor, Cur, Rest
<1>14. (DestructorOnTop(p) /\ Sound(handle[p], Below(p)))'
  BY <1>9, <1>10, <1>13 DEF DestructorOnTop, Below, Idle
<1>15. ASSUME NEW q \in Peer, q # p
       PROVE  (DestructorOnTop(q) /\ Sound(handle[q], Below(q)))'
  BY <1>10, <1>15, OtherKept
<1>16. destructors' \in [Peer -> SUBSET Nat]
  BY <1>1, <1>3 DEF DInv
<1>17. QED
  BY <1>12, <1>14, <1>15, <1>16 DEF DInv

(* remote_event_loop goes on as if nothing had run.                         *)
LEMMA DestructorEndsStep ==
    ASSUME DInv, NEW p \in Peer, DestructorEnds(p)
    PROVE  DInv'
<1> DEFINE t == Rest(p)
<1>1. /\ InDestructor(p) /\ stack[p] # << >>
      /\ stack' = [stack EXCEPT ![p] = t]
      /\ UNCHANGED <<handle, chan, app, aborted>>
      /\ destructors' = [destructors EXCEPT ![p] = @ \ {Len(stack[p])}]
  BY DEF DestructorEnds, SetStack, InDestructor
<1>2. destructors[p] = {Len(stack[p])} /\ Sound(handle[p], t)
  BY <1>1 DEF DInv, DestructorOnTop, Below
<1>3. t \in Seq(Activation)
  BY <1>1, StackPop DEF DInv, TypeOK, Rest
<1> HIDE DEF t
<1>4. /\ stack'[p] = t /\ destructors'[p] = {}
      /\ \A q \in Peer : q # p => stack'[q] = stack[q] /\ destructors'[q] = destructors[q]
  BY <1>1, <1>2 DEF DInv, TypeOK
<1>5. TypeOK' /\ NoAbort'
  BY <1>1, <1>3 DEF DInv, TypeOK, NoAbort
<1>6. (DestructorOnTop(p) /\ Sound(handle[p], Below(p)))'
  BY <1>1, <1>2, <1>4 DEF DestructorOnTop, Below, InDestructor
<1>7. ASSUME NEW q \in Peer, q # p
      PROVE  (DestructorOnTop(q) /\ Sound(handle[q], Below(q)))'
  BY <1>1, <1>4, <1>7, OtherKept
<1>8. destructors' \in [Peer -> SUBSET Nat]
  BY <1>1 DEF DInv
<1>9. QED
  BY <1>5, <1>6, <1>7, <1>8 DEF DInv

LEMMA DInvNext == DestructorsCall = FALSE /\ DInv /\ [DestructorsNext]_dvars => DInv'
<1> SUFFICES ASSUME DestructorsCall = FALSE, DInv, [DestructorsNext]_dvars PROVE DInv'
  OBVIOUS
<1>1. ASSUME NEW p \in Peer, ProtocolStep(p) \/ RunDestructor(p) \/ DestructorEnds(p)
      PROVE  DInv'
  BY <1>1, OutsideStep, InsideStep, RunDestructorStep, DestructorEndsStep
<1>2. CASE UNCHANGED dvars
  <2>1. /\ handle' = handle /\ stack' = stack /\ chan' = chan
        /\ app' = app /\ aborted' = aborted /\ destructors' = destructors
    BY <1>2 DEF dvars, vars
  <2>2. QED
    BY <2>1 DEF DInv, TypeOK, NoAbort, DestructorOnTop, Below, InDestructor, Cur, Rest
<1>3. QED
  BY <1>1, <1>2 DEF DestructorsNext

(* The last_op checks of packet_write and packet_read pass at any depth,    *)
(* also when objects have destructors, which run between the answer to      *)
(* op_destroy and the next packet, as long as these do not call the other   *)
(* side.  (If they do, the run remote_destructor_calls shows the abort.)    *)
THEOREM DestructorsNeverAbort ==
    DestructorsCall = FALSE => (DestructorsSpec => []NoAbort)
<1> SUFFICES ASSUME DestructorsCall = FALSE PROVE DestructorsSpec => []NoAbort
  OBVIOUS
<1>1. DestructorsInit => DInv
  BY DInvInit
<1>2. DInv /\ [DestructorsNext]_dvars => DInv'
  BY DInvNext
<1>3. DInv => NoAbort
  BY DEF DInv
<1>4. QED
  BY <1>1, <1>2, <1>3, PTL DEF DestructorsSpec
=============================================================================
