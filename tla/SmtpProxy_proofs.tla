---------------------------- MODULE SmtpProxy_proofs ----------------------------
(***************************************************************************)
(* Proofs about SmtpProxy, for any recipients and mails and any number of  *)
(* sessions.                                                               *)
(***************************************************************************)
EXTENDS SmtpProxy, SequenceTheorems, WellFoundedInduction, TLAPS

Transaction == [mail : BOOLEAN, rcpt : SUBSET Recipients]
At == {"ready", "refused", "data", "gone"}
Backends == [at : At, txn : Transaction]

(* What the backend makes of mail b written after n commands, and what it  *)
(* may have taken.                                                          *)
Through(n, b) == Unescape(ReadBody(Forwarded(Written(n, b))))
Arrived == {Through(n, b) : n \in Nat, b \in Bodies}
Taken == Nat \X Arrived \X SUBSET Recipients
Sent == [body : Bodies, session : Nat]

(* (What replies holds, no step depends on but for being empty.)            *)
TypeOK ==
    /\ session \in {"idle", "command", "body"} /\ sessions \in Nat
    /\ backend \in Backends /\ view \in Transaction
    /\ client \in {"command", "data"} /\ typed \in Nat
    /\ mails \in Seq(Sent) /\ accepted \in Seq(Taken)
    /\ acked \in SUBSET (Nat \X SUBSET Recipients)

-----------------------------------------------------------------------------
(* The answers to a request.                                                *)

LEMMA BackendKept ==
    ASSUME NEW a \in At, NEW t \in Transaction
    PROVE  /\ [at |-> a, txn |-> t] \in Backends
           /\ [at |-> a, txn |-> t].at = a /\ [at |-> a, txn |-> t].txn = t
  BY DEF Backends

LEMMA NoMailIsTransaction == NoMail \in Transaction
  BY DEF NoMail, Transaction

LEMMA NewBackend ==
    ASSUME NEW a \in At
    PROVE  Backend(a) \in Backends /\ Backend(a).at = a /\ Backend(a).txn = NoMail
  BY BackendKept, NoMailIsTransaction DEF Backend

(* The transaction with one more recipient.                                 *)
LEMMA OneMore ==
    ASSUME NEW t \in Transaction, NEW x \in Recipients
    PROVE  [t EXCEPT !.rcpt = @ \cup {x}] \in Transaction
  BY DEF Transaction

(* The code and the transaction that an accepted command leaves.            *)
LEMMA Accepted ==
    ASSUME NEW c, NEW a \in Accepts(c)
    PROVE  \/ c.cmd \in {"EHLO", "HELO", "RSET"} /\ a = <<250, NoMail>>
           \/ c.cmd = "MAIL" /\ a = <<250, [mail |-> TRUE, rcpt |-> {}]>>
           \/ c.cmd = "RCPT" /\ a = <<250, [backend.txn EXCEPT !.rcpt = @ \cup {c.rcpt}]>>
           \/ c.cmd = "DATA" /\ a = <<354, backend.txn>>
  BY Zenon DEF Accepts, When

(* The client knows of the backend's transaction.                           *)
Agreed == backend.at # "gone" => view = backend.txn

(* The backend of answer r is one that the proxy expects after command c,   *)
(* and a client that reads it.                                              *)
Same(c, r) ==
    /\ r[2] \in Backends
    /\ r[2].at # "gone" =>
         /\ r[2].at = "data" <=> TakesBody(c, r[1])
         /\ Agreed => r[2].txn = ViewAfter(c, r[1])

(* A code that is an answer leaves the backend as the client thinks.        *)
LEMMA CommandStep ==
    ASSUME TypeOK, backend.at # "data",
           NEW c \in Commands \cup [cmd : {"HELO"}, rcpt : {{}}],
           NEW r \in Command(c), r[1] > 0
    PROVE  Same(c, r)
<1>t. /\ backend \in Backends /\ backend.at \in At /\ backend.txn \in Transaction
      /\ view \in Transaction
  BY DEF TypeOK, Backends
<1>1. r \notin Vanished
  BY DEF Vanished
<1>2. CASE r = <<550, backend>>
  BY <1>2, <1>t DEF Same, TakesBody, ViewAfter, Agreed
<1>3. CASE /\ backend.at = "ready"
           /\ \E a \in Accepts(c) :
                r = <<a[1], [at |-> IF a[1] = 354 THEN "data" ELSE "ready", txn |-> a[2]]>>
  <2>1. PICK a \in Accepts(c) :
             r = <<a[1], [at |-> IF a[1] = 354 THEN "data" ELSE "ready", txn |-> a[2]]>>
    BY <1>3
  <2>2. r[1] = a[1] /\ r[2] = [at |-> IF a[1] = 354 THEN "data" ELSE "ready", txn |-> a[2]]
    BY <2>1
  <2>3. CASE c.cmd \in {"EHLO", "HELO", "RSET"} /\ a = <<250, NoMail>>
    <3>1. r[1] = 250 /\ r[2] = [at |-> "ready", txn |-> NoMail]
      BY <2>2, <2>3
    <3> QED
      BY <3>1, <2>3, BackendKept, NoMailIsTransaction DEF Same, TakesBody, ViewAfter, At
  <2>4. CASE c.cmd = "MAIL" /\ a = <<250, [mail |-> TRUE, rcpt |-> {}]>>
    <3> DEFINE t == [mail |-> TRUE, rcpt |-> {}]
    <3>1. r[1] = 250 /\ r[2] = [at |-> "ready", txn |-> t]
      BY <2>2, <2>4
    <3>2. t \in Transaction
      BY DEF Transaction
    <3>3. ViewAfter(c, 250) = t
      BY <2>4 DEF ViewAfter
    <3>4. ~TakesBody(c, 250)
      BY DEF TakesBody
    <3> HIDE DEF t
    <3> QED
      BY <3>1, <3>2, <3>3, <3>4, BackendKept DEF Same, At
  <2>5. CASE c.cmd = "RCPT" /\ a = <<250, [backend.txn EXCEPT !.rcpt = @ \cup {c.rcpt}]>>
    <3> DEFINE t == [backend.txn EXCEPT !.rcpt = @ \cup {c.rcpt}]
    <3>1. r[1] = 250 /\ r[2] = [at |-> "ready", txn |-> t]
      BY <2>2, <2>5
    <3>2. c.rcpt \in Recipients
      BY <2>5 DEF Commands
    <3>3. t \in Transaction
      BY <3>2, <1>t, OneMore
    <3>4. Agreed => ViewAfter(c, 250) = t
      BY <1>3, <2>5 DEF ViewAfter, Agreed
    <3>5. ~TakesBody(c, 250)
      BY DEF TakesBody
    <3> HIDE DEF t
    <3> QED
      BY <3>1, <3>3, <3>4, <3>5, BackendKept DEF Same, At
  <2>6. CASE c.cmd = "DATA" /\ a = <<354, backend.txn>>
    <3>1. r[1] = 354 /\ r[2] = [at |-> "data", txn |-> backend.txn]
      BY <2>2, <2>6
    <3> QED
      BY <1>3, <3>1, <2>6, <1>t, BackendKept DEF Same, TakesBody, ViewAfter, Agreed, At
  <2> QED
    BY <2>3, <2>4, <2>5, <2>6, Accepted
<1>4. CASE r \in When(backend.at \in {"ready", "refused"}, {<<550, backend>>})
  <2>1. r = <<550, backend>>
    BY <1>4, Zenon DEF When
  <2> QED
    BY <2>1, <1>2
<1>5. CASE r \in When(backend.at = "ready",
                      {<<a[1], [at |-> IF a[1] = 354 THEN "data" ELSE "ready", txn |-> a[2]]>> :
                       a \in Accepts(c)})
  <2>1. /\ backend.at = "ready"
        /\ r \in {<<a[1], [at |-> IF a[1] = 354 THEN "data" ELSE "ready", txn |-> a[2]]>> :
                   a \in Accepts(c)}
    BY <1>5, Zenon DEF When
  <2> QED
    BY <2>1, <1>3, Zenon
<1> QED
  BY <1>1, <1>4, <1>5, Zenon DEF Command

(* And so does every callback.                                              *)
LEMMA CallbackStep ==
    ASSUME TypeOK, backend.at # "data",
           NEW c \in Commands, NEW r \in On(c), r[1] > 0, c.cmd # "QUIT"
    PROVE  Same(c, r)
<1>1. CASE c.cmd \in {"EHLO", "HELO"} /\ r \in OnEhlo(c)
  <2> DEFINE d == [c EXCEPT !.cmd = "HELO"]
  <2>1. r \in Command(c) \/ r \in Command(d)
    BY <1>1, Zenon DEF OnEhlo, When
  <2>2. CASE r \in Command(d)
    <3>1. d \in [cmd : {"HELO"}, rcpt : {{}}] /\ d.cmd = "HELO"
      BY <1>1 DEF Commands
    <3>2. Same(d, r)
      BY <3>1, <2>2, CommandStep
    <3>3. TakesBody(d, r[1]) = TakesBody(c, r[1])
      BY <1>1, <3>1 DEF TakesBody
    <3>4. ViewAfter(d, r[1]) = ViewAfter(c, r[1])
      BY <1>1, <3>1 DEF ViewAfter
    <3> QED
      BY <3>2, <3>3, <3>4 DEF Same
  <2> QED
    BY <2>1, <2>2, CommandStep
<1>2. CASE r \in Command(c)
  BY <1>2, CommandStep
<1>3. CASE c.cmd = "NONE" /\ r = <<500, backend>>
  BY <1>3 DEF Same, TakesBody, ViewAfter, Agreed, TypeOK
<1> QED
  BY <1>1, <1>2, <1>3, Zenon DEF On, OnRset, When

(* Codes are numbers, and only DATA is answered by 354.                     *)
LEMMA CommandCode ==
    ASSUME NEW c, NEW r \in Command(c)
    PROVE  r[1] \in Int /\ (r[1] = 354 => c.cmd = "DATA")
<1>1. CASE r \in Vanished
  BY <1>1 DEF Vanished
<1>2. CASE r = <<550, backend>>
  BY <1>2
<1>3. ASSUME NEW a \in Accepts(c), r[1] = a[1]
      PROVE  r[1] \in Int /\ (r[1] = 354 => c.cmd = "DATA")
  <2>1. a[1] = 250 \/ (c.cmd = "DATA" /\ a[1] = 354)
    BY Accepted
  <2> QED
    BY <1>3, <2>1
<1>4. CASE r \in When(backend.at \in {"ready", "refused"}, {<<550, backend>>})
  <2>1. r = <<550, backend>>
    BY <1>4, Zenon DEF When
  <2> QED
    BY <2>1, <1>2
<1>5. CASE r \in When(backend.at = "ready",
                      {<<a[1], [at |-> IF a[1] = 354 THEN "data" ELSE "ready", txn |-> a[2]]>> :
                       a \in Accepts(c)})
  <2>1. r \in {<<a[1], [at |-> IF a[1] = 354 THEN "data" ELSE "ready", txn |-> a[2]]>> :
                 a \in Accepts(c)}
    BY <1>5, Zenon DEF When
  <2>2. PICK a \in Accepts(c) :
          r = <<a[1], [at |-> IF a[1] = 354 THEN "data" ELSE "ready", txn |-> a[2]]>>
    BY <2>1, Zenon
  <2>3. r[1] = a[1]
    BY <2>2
  <2> QED
    BY <1>3, <2>3
<1> QED
  BY <1>1, <1>4, <1>5, Zenon DEF Command

LEMMA AnswerCode ==
    ASSUME NEW c \in Commands, NEW r \in On(c)
    PROVE  r[1] \in Int /\ (r[1] = 354 => c.cmd = "DATA")
<1>1. CASE c.cmd \in {"EHLO", "HELO"} /\ r \in OnEhlo(c)
  <2> DEFINE d == [c EXCEPT !.cmd = "HELO"]
  <2>1. r \in Command(c) \/ r \in Command(d)
    BY <1>1, Zenon DEF OnEhlo, When
  <2>2. d.cmd = "HELO"
    BY <1>1 DEF Commands
  <2> HIDE DEF d
  <2> QED
    BY <2>1, <2>2, CommandCode
<1>2. CASE r \in Command(c)
  BY <1>2, CommandCode
<1>3. CASE c.cmd = "NONE" /\ r = <<500, backend>>
  BY <1>3
<1>4. CASE c.cmd = "QUIT" /\ r \in OnQuit
  BY <1>4 DEF OnQuit
<1> QED
  BY <1>1, <1>2, <1>3, <1>4, Zenon DEF On, OnRset, When

-----------------------------------------------------------------------------
(* Induction over numbers, as a fact about a set.                           *)

LEMMA Least ==
    ASSUME NEW T, T \subseteq Nat, T # {}
    PROVE  \E x \in T : \A y \in T : x <= y
<1> DEFINE R == OpToRel(<, Nat)
<1>1. IsWellFoundedOn(R, Nat)
  BY NatLessThanWellFounded
<1>2. R = {ss \in Nat \X Nat : ss[1] < ss[2]}
  BY DEF OpToRel
<1> HIDE DEF R
<1>3. PICK x \in T : \A y \in T : ~(<<y, x>> \in R)
  BY <1>1, WFMin
<1>4. ASSUME NEW y \in T
      PROVE  x <= y
  <2>1. x \in Nat /\ y \in Nat
    OBVIOUS
  <2>2. ~(y < x)
    BY <1>2, <1>3, <2>1
  <2> QED
    BY <2>1, <2>2
<1> QED
  BY <1>4

LEMMA Induction ==
    ASSUME NEW S, 0 \in S, \A n \in Nat : n \in S => n + 1 \in S
    PROVE  Nat \subseteq S
<1> SUFFICES ASSUME \E n \in Nat : n \notin S PROVE FALSE
  OBVIOUS
<1> DEFINE T == {n \in Nat : n \notin S}
<1>1. T \subseteq Nat /\ T # {}
  OBVIOUS
<1>2. PICK x \in T : \A y \in T : x <= y
  <2> HIDE DEF T
  <2> QED
    BY <1>1, Least
<1>3. x \in Nat /\ x # 0 /\ x \notin S
  BY <1>2
<1>4. x - 1 \in Nat /\ (x - 1) + 1 = x /\ ~(x <= x - 1)
  BY <1>3
<1>5. x - 1 \in S
  BY <1>2, <1>4
<1> QED
  BY <1>3, <1>4, <1>5

-----------------------------------------------------------------------------
(* FlattenSeq                                                               *)

(* The first elements of ss, joined.                                        *)
IsJoin(f, ss, n) == f[0] = <<>> /\ \A i \in 1 .. n : f[i] = f[i - 1] \o ss[i]

LEMMA JoinExists ==
    ASSUME NEW C, NEW ss \in Seq(Seq(C)), NEW m \in Nat
    PROVE  m <= Len(ss) => \E f \in [0 .. m -> Seq(C)] : IsJoin(f, ss, m)
<1> DEFINE S == {n \in Nat : n <= Len(ss) => \E f \in [0 .. n -> Seq(C)] : IsJoin(f, ss, n)}
<1>1. 0 \in S
  <2> DEFINE f == [i \in 0 .. 0 |-> <<>>]
  <2>1. f \in [0 .. 0 -> Seq(C)] /\ IsJoin(f, ss, 0)
    BY EmptySeq DEF IsJoin
  <2> QED
    BY <2>1
<1>2. ASSUME NEW n \in Nat, n \in S
      PROVE  n + 1 \in S
  <2> SUFFICES ASSUME n + 1 <= Len(ss)
               PROVE  \E f \in [0 .. n + 1 -> Seq(C)] : IsJoin(f, ss, n + 1)
    OBVIOUS
  <2>l. Len(ss) \in Nat
    BY LenProperties
  <2>1. PICK f \in [0 .. n -> Seq(C)] : IsJoin(f, ss, n)
    BY <1>2, <2>l
  <2>2. ss[n + 1] \in Seq(C) /\ f[n] \in Seq(C)
    BY <2>l, ElementOfSeq
  <2> DEFINE x == f[n] \o ss[n + 1]
             g == [i \in 0 .. n + 1 |-> IF i = n + 1 THEN x ELSE f[i]]
  <2>3. x \in Seq(C)
    BY <2>2, ConcatProperties
  <2> HIDE DEF x
  <2>4. g \in [0 .. n + 1 -> Seq(C)]
    BY <2>3
  <2>5. g[n + 1] = x /\ \A i \in 0 .. n : g[i] = f[i]
    OBVIOUS
  <2> HIDE DEF g
  <2>6. ASSUME NEW i \in 1 .. n + 1
        PROVE  g[i] = g[i - 1] \o ss[i]
    <3>1. CASE i = n + 1
      <4>1. i - 1 = n /\ n \in 0 .. n
        BY <3>1
      <4> QED
        BY <3>1, <4>1, <2>5 DEF x
    <3>2. CASE i # n + 1
      <4>1. i \in 1 .. n /\ i \in 0 .. n /\ i - 1 \in 0 .. n
        BY <3>2
      <4> QED
        BY <4>1, <2>1, <2>5 DEF IsJoin
    <3> QED
      BY <3>1, <3>2
  <2>7. g[0] = <<>>
    BY <2>1, <2>5 DEF IsJoin
  <2> QED
    BY <2>4, <2>6, <2>7 DEF IsJoin
<1> HIDE DEF S
<1>3. Nat \subseteq S
  BY <1>1, <1>2, Induction
<1> QED
  BY <1>3 DEF S

LEMMA Flattened ==
    ASSUME NEW C, NEW ss \in Seq(Seq(C))
    PROVE  \E f \in [0 .. Len(ss) -> Seq(C)] : IsJoin(f, ss, Len(ss)) /\ FlattenSeq(ss) = f[Len(ss)]
<1> DEFINE n == Len(ss)
<1>1. n \in Nat
  BY LenProperties
<1>2. PICK f \in [0 .. n -> Seq(C)] : IsJoin(f, ss, n)
  BY <1>1, JoinExists
<1>3. CASE n = 0
  <2>1. FlattenSeq(ss) = ss
    BY <1>3 DEF FlattenSeq
  <2>2. ss = <<>>
    BY <1>3, EmptySeq
  <2> QED
    BY <1>2, <1>3, <2>1, <2>2 DEF IsJoin
<1>4. CASE n # 0
  <2> DEFINE Rule(e) == [i \in 1 .. n |-> IF i = 1 THEN ss[i] ELSE e[i - 1] \o ss[i]]
             e == CHOOSE e : e = Rule(e)
             g == [i \in 1 .. n |-> f[i]]
  <2>1. FlattenSeq(ss) = e[n]
    BY <1>4 DEF FlattenSeq
  <2>2. g = Rule(g)
    <3>1. ASSUME NEW i \in 1 .. n
          PROVE  f[i] = IF i = 1 THEN ss[i] ELSE g[i - 1] \o ss[i]
      <4>1. f[i] = f[i - 1] \o ss[i] /\ f[0] = <<>>
        BY <1>2 DEF IsJoin
      <4>2. CASE i = 1
        <5>1. ss[i] \in Seq(C) /\ i - 1 = 0
          BY <4>2, ElementOfSeq
        <5>2. f[i] = <<>> \o ss[i]
          BY <4>1, <5>1
        <5> QED
          BY <4>2, <5>1, <5>2, ConcatEmptySeq
      <4>3. CASE i # 1
        <5>1. i - 1 \in 1 .. n
          BY <1>1, <4>3
        <5> QED
          BY <4>1, <4>3, <5>1
      <4> QED
        BY <4>2, <4>3
    <3> QED
      BY <3>1
  <2>3. e = Rule(e)
    <3> HIDE DEF g
    <3> QED
      BY <2>2
  <2> HIDE DEF e
  <2> DEFINE S == {k \in Nat : k + 1 <= n => e[k + 1] = f[k + 1]}
  <2>4. \A i \in 1 .. n : e[i] = IF i = 1 THEN ss[i] ELSE e[i - 1] \o ss[i]
    BY <2>3
  <2> HIDE DEF Rule
  <2>5. \A i \in 1 .. n : f[i] = f[i - 1] \o ss[i]
    BY <1>2 DEF IsJoin
  <2>6. 0 \in S
    <3>1. 1 \in 1 .. n
      BY <1>1, <1>4
    <3>2. ss[1] \in Seq(C)
      BY <3>1, ElementOfSeq
    <3>3. f[1] = <<>> \o ss[1]
      <4>1. f[1] = f[1 - 1] \o ss[1]
        BY <2>5, <3>1, Zenon
      <4>2. f[0] = <<>>
        BY <1>2 DEF IsJoin
      <4>3. 1 - 1 = 0
        OBVIOUS
      <4> QED
        BY <4>1, <4>2, <4>3, Zenon
    <3>4. f[1] = ss[1]
      BY <3>2, <3>3, ConcatEmptySeq
    <3> QED
      BY <3>1, <3>4, <2>4
  <2>7. ASSUME NEW k \in Nat, k \in S
        PROVE  k + 1 \in S
    <3> SUFFICES ASSUME (k + 1) + 1 <= n
                 PROVE  e[(k + 1) + 1] = f[(k + 1) + 1]
      OBVIOUS
    <3>1. /\ (k + 1) + 1 \in 1 .. n /\ (k + 1) + 1 # 1 /\ ((k + 1) + 1) - 1 = k + 1
          /\ k + 1 <= n
      BY <1>1
    <3>2. e[k + 1] = f[k + 1]
      BY <2>7, <3>1
    <3> DEFINE i == (k + 1) + 1
    <3>3. i \in 1 .. n /\ i # 1 /\ i - 1 = k + 1
      BY <3>1
    <3> HIDE DEF i
    <3>4. e[i] = e[k + 1] \o ss[i] /\ f[i] = f[k + 1] \o ss[i]
      BY <2>4, <2>5, <3>3
    <3>5. e[i] = f[i]
      BY <3>2, <3>4
    <3> QED
      BY <3>5 DEF i
  <2> HIDE DEF S
  <2>8. Nat \subseteq S
    BY <2>6, <2>7, Induction
  <2>9. n - 1 \in Nat /\ (n - 1) + 1 = n
    BY <1>1, <1>4
  <2>10. e[n] = f[n]
    <3>1. n - 1 \in S /\ (n - 1) + 1 <= n
      BY <1>1, <2>8, <2>9
    <3>2. e[(n - 1) + 1] = f[(n - 1) + 1]
      BY <3>1 DEF S
    <3> QED
      BY <3>2, <2>9
  <2> QED
    BY <1>2, <2>1, <2>10
<1> QED
  BY <1>3, <1>4

-----------------------------------------------------------------------------
(* Lines                                                                    *)

Char == {".", "x", "CR", "LF"}

(* The line of b that begins at i ends at e.                                *)
IsEnd(b, i, e) ==
    /\ b[e] = "LF" \/ e = Len(b)
    /\ \A k \in i .. e - 1 : b[k] # "LF"

LEMMA EndExists ==
    ASSUME NEW b \in Seq(Char), NEW i \in 1 .. Len(b)
    PROVE  \E e \in i .. Len(b) : IsEnd(b, i, e)
<1> DEFINE T == {e \in i .. Len(b) : b[e] = "LF" \/ e = Len(b)}
<1>1. Len(b) \in Nat
  BY LenProperties
<1>2. T \subseteq Nat /\ Len(b) \in T
  BY <1>1
<1>3. \A x \in T : x \in i .. Len(b) /\ (b[x] = "LF" \/ x = Len(b))
  OBVIOUS
<1>4. ASSUME NEW k \in i .. Len(b), b[k] = "LF"
      PROVE  k \in T
  BY <1>4
<1> HIDE DEF T
<1>5. PICK e \in T : \A y \in T : e <= y
  BY <1>2, Least
<1>6. e \in i .. Len(b) /\ (b[e] = "LF" \/ e = Len(b))
  BY <1>3, <1>5
<1>7. ASSUME NEW k \in i .. e - 1
      PROVE  b[k] # "LF"
  <2>1. k \in i .. Len(b) /\ ~(e <= k)
    BY <1>1, <1>6
  <2> QED
    BY <1>4, <1>5, <2>1
<1> QED
  BY <1>6, <1>7 DEF IsEnd

LEMMA EndUnique ==
    ASSUME NEW b \in Seq(Char), NEW i \in 1 .. Len(b), NEW e \in i .. Len(b), NEW d \in i .. Len(b),
           IsEnd(b, i, e), IsEnd(b, i, d)
    PROVE  e = d
<1>1. Len(b) \in Nat
  BY LenProperties
<1>2. ~(e < d)
  <2> SUFFICES ASSUME e < d PROVE FALSE
    OBVIOUS
  <2>1. e \in i .. d - 1 /\ e # Len(b)
    BY <1>1
  <2> QED
    BY <2>1 DEF IsEnd
<1>3. ~(d < e)
  <2> SUFFICES ASSUME d < e PROVE FALSE
    OBVIOUS
  <2>1. d \in i .. e - 1 /\ d # Len(b)
    BY <1>1
  <2> QED
    BY <2>1 DEF IsEnd
<1> QED
  BY <1>1, <1>2, <1>3

(* The lines of b from each of its positions on.                            *)
IsLines(f, b, i) ==
    IF i > Len(b) THEN f[i] = <<>>
    ELSE \E e \in i .. Len(b) : IsEnd(b, i, e) /\ f[i] = <<SubSeq(b, i, e)>> \o f[e + 1]

LEMMA OneLine ==
    ASSUME NEW b \in Seq(Char), NEW i \in 1 .. Len(b), NEW e \in i .. Len(b)
    PROVE  /\ SubSeq(b, i, e) \in Seq(Char)
           /\ Len(SubSeq(b, i, e)) = e - i + 1
           /\ \A k \in 1 .. e - i + 1 : SubSeq(b, i, e)[k] = b[i + k - 1]
<1>1. Len(b) \in Nat /\ i \in Int /\ e \in Int /\ i <= e
  BY LenProperties
<1>2. \A k \in i .. e : k \in 1 .. Len(b)
  BY <1>1
<1>3. \A k \in i .. e : b[k] \in Char
  BY <1>2, ElementOfSeq
<1> QED
  BY <1>1, <1>3, SubSeqProperties

LEMMA OneMoreLine ==
    ASSUME NEW x \in Seq(Char), NEW s \in Seq(Seq(Char))
    PROVE  /\ <<x>> \o s \in Seq(Seq(Char))
           /\ Len(<<x>> \o s) = Len(s) + 1
           /\ (<<x>> \o s)[1] = x
           /\ \A i \in 1 .. Len(s) : (<<x>> \o s)[i + 1] = s[i]
<1>1. <<x>> \in Seq(Seq(Char)) /\ Len(<<x>>) = 1 /\ <<x>>[1] = x
  OBVIOUS
<1>2. Len(s) \in Nat
  BY LenProperties
<1>3. /\ <<x>> \o s \in Seq(Seq(Char))
      /\ Len(<<x>> \o s) = 1 + Len(s)
      /\ \A i \in 1 .. 1 + Len(s) : (<<x>> \o s)[i] = IF i <= 1 THEN <<x>>[i] ELSE s[i - 1]
  <2> DEFINE t == <<x>>
  <2>1. t \in Seq(Seq(Char)) /\ Len(t) = 1
    BY <1>1
  <2> HIDE DEF t
  <2>2. /\ t \o s \in Seq(Seq(Char))
        /\ Len(t \o s) = 1 + Len(s)
        /\ \A i \in 1 .. 1 + Len(s) : (t \o s)[i] = IF i <= 1 THEN t[i] ELSE s[i - 1]
    <3>1. /\ t \o s \in Seq(Seq(Char))
          /\ Len(t \o s) = Len(t) + Len(s)
          /\ \A i \in 1 .. Len(t) + Len(s) :
               (t \o s)[i] = IF i <= Len(t) THEN t[i] ELSE s[i - Len(t)]
      BY <2>1, ConcatProperties
    <3> QED
      BY <3>1, <2>1
  <2> QED
    BY <2>2 DEF t
<1> DEFINE r == <<x>> \o s
<1> HIDE DEF r
<1>4. r[1] = x
  <2>1. 1 \in 1 .. 1 + Len(s) /\ 1 <= 1
    BY <1>2
  <2> QED
    BY <1>1, <1>3, <2>1 DEF r
<1>5. ASSUME NEW i \in 1 .. Len(s)
      PROVE  r[i + 1] = s[i]
  <2>1. i + 1 \in 1 .. 1 + Len(s) /\ ~(i + 1 <= 1) /\ (i + 1) - 1 = i
    BY <1>2
  <2> QED
    BY <1>3, <2>1 DEF r
<1> QED
  BY <1>2, <1>3, <1>4, <1>5 DEF r

LEMMA Between ==
    ASSUME NEW m \in Nat, NEW n \in Nat, NEW e \in Int, m - n <= e, e <= m
    PROVE  e + 1 \in (m + 1) - n .. m + 1
  OBVIOUS

LEMMA LinesExist ==
    ASSUME NEW b \in Seq(Char), NEW End \in [1 .. Len(b) -> Nat],
           \A i \in 1 .. Len(b) : End[i] \in i .. Len(b)
    PROVE  \E f \in [1 .. Len(b) + 1 -> Seq(Seq(Char))] :
             \A i \in 1 .. Len(b) + 1 :
               f[i] = IF i > Len(b) THEN <<>> ELSE <<SubSeq(b, i, End[i])>> \o f[End[i] + 1]
<1> DEFINE m == Len(b)
           Step(f, i) == IF i > m THEN <<>> ELSE <<SubSeq(b, i, End[i])>> \o f[End[i] + 1]
           From(n) == (m + 1) - n .. m + 1
           S == {n \in Nat : n <= m => \E f \in [From(n) -> Seq(Seq(Char))] :
                                         \A i \in From(n) : f[i] = Step(f, i)}
<1>1. m \in Nat
  BY LenProperties
<1>2. 0 \in S
  <2> DEFINE f == [i \in From(0) |-> <<>>]
  <2>1. f \in [From(0) -> Seq(Seq(Char))]
    BY EmptySeq
  <2>2. ASSUME NEW i \in From(0)
        PROVE  f[i] = Step(f, i)
    <3>1. i > m
      BY <1>1
    <3> QED
      BY <3>1
  <2> HIDE DEF f
  <2> QED
    BY <2>1, <2>2
<1>3. ASSUME NEW n \in Nat, n \in S
      PROVE  n + 1 \in S
  <2> SUFFICES ASSUME n + 1 <= m
               PROVE  \E f \in [From(n + 1) -> Seq(Seq(Char))] :
                        \A i \in From(n + 1) : f[i] = Step(f, i)
    OBVIOUS
  <2>1. PICK f \in [From(n) -> Seq(Seq(Char))] : \A i \in From(n) : f[i] = Step(f, i)
    BY <1>1, <1>3
  <2> DEFINE j == (m + 1) - (n + 1)
             x == Step(f, j)
             g == [i \in From(n + 1) |-> IF i = j THEN x ELSE f[i]]
  <2>2. j \in 1 .. m /\ ~(j > m) /\ From(n + 1) = {j} \cup From(n) /\ j \notin From(n)
    BY <1>1
  <2>3. End[j] \in j .. m /\ End[j] + 1 \in From(n)
    <3>1. End[j] \in j .. m
      BY <2>2
    <3>2. j = m - n /\ j \in Int
      BY <1>1
    <3> HIDE DEF j
    <3>3. End[j] \in Int /\ m - n <= End[j] /\ End[j] <= m
      BY <1>1, <3>1, <3>2
    <3>4. End[j] + 1 \in From(n)
      BY <1>1, <3>3, Between
    <3> QED
      BY <3>1, <3>4
  <2>4. x \in Seq(Seq(Char))
    <3> HIDE DEF From, j
    <3>1. SubSeq(b, j, End[j]) \in Seq(Char)
      BY <2>2, <2>3, OneLine
    <3>2. f[End[j] + 1] \in Seq(Seq(Char))
      BY <2>1, <2>3
    <3> QED
      BY <2>2, <3>1, <3>2, OneMoreLine
  <2>5. ASSUME NEW i \in From(n + 1), i # j, ~(i > m)
        PROVE  i \in 1 .. m /\ End[i] + 1 \in From(n) /\ i \in From(n)
    <3>1. i \in From(n)
      BY <2>2, <2>5, Zenon
    <3>2. i \in 1 .. m /\ i >= (m + 1) - n
      BY <1>1, <2>2, <3>1, <2>5
    <3>3. End[i] \in i .. m
      BY <3>2
    <3>4. End[i] \in Int /\ m - n <= End[i] /\ End[i] <= m
      BY <1>1, <3>2, <3>3
    <3>5. End[i] + 1 \in From(n)
      BY <1>1, <3>4, Between
    <3> QED
      BY <3>1, <3>2, <3>5
  <2> HIDE DEF From, j, x
  <2>6. g \in [From(n + 1) -> Seq(Seq(Char))]
    BY <2>1, <2>2, <2>4
  <2>7. g[j] = x /\ \A i \in From(n) : g[i] = f[i]
    BY <2>2
  <2> HIDE DEF g
  <2>8. ASSUME NEW i \in From(n + 1)
        PROVE  g[i] = Step(g, i)
    <3>1. CASE i = j
      <4>1. g[End[j] + 1] = f[End[j] + 1]
        BY <2>3, <2>7
      <4> QED
        BY <3>1, <4>1, <2>7 DEF x
    <3>2. CASE i # j
      <4>1. g[i] = f[i] /\ f[i] = Step(f, i)
        BY <2>1, <2>2, <2>7, <3>2
      <4>2. CASE i > m
        BY <4>1, <4>2
      <4>3. CASE ~(i > m)
        <5>1. g[End[i] + 1] = f[End[i] + 1]
          BY <2>5, <2>7, <3>2, <4>3
        <5> QED
          BY <4>1, <5>1
      <4> QED
        BY <4>2, <4>3
    <3> QED
      BY <3>1, <3>2
  <2> QED
    BY <2>6, <2>8
<1> HIDE DEF S
<1>4. Nat \subseteq S
  BY <1>2, <1>3, Induction
<1>5. m \in S
  BY <1>1, <1>4
<1>6. From(m) = 1 .. m + 1
  BY <1>1
<1>7. \E f \in [From(m) -> Seq(Seq(Char))] : \A i \in From(m) : f[i] = Step(f, i)
  BY <1>1, <1>5 DEF S
<1> QED
  BY <1>6, <1>7

LEMMA LinesRule ==
    ASSUME NEW b \in Seq(Char)
    PROVE  \E f \in [1 .. Len(b) + 1 -> Seq(Seq(Char))] :
             f[1] = Lines(b) /\ \A i \in 1 .. Len(b) + 1 : IsLines(f, b, i)
<1> DEFINE m == Len(b)
           EndOf(i) == CHOOSE e \in i .. Len(b) : /\ b[e] = "LF" \/ e = Len(b)
                                                  /\ \A k \in i .. e - 1 : b[k] # "LF"
           End == [i \in 1 .. m |-> EndOf(i)]
           Rule(f) == [i \in 1 .. Len(b) + 1 |->
                         IF i > Len(b) THEN <<>>
                         ELSE <<SubSeq(b, i, EndOf(i))>> \o f[EndOf(i) + 1]]
           l == CHOOSE f : f = Rule(f)
<1>1. m \in Nat
  BY LenProperties
<1>2. Lines(b) = l[1]
  BY DEF Lines
<1>3. \A i \in 1 .. m : EndOf(i) \in i .. m /\ IsEnd(b, i, EndOf(i))
  BY EndExists DEF IsEnd
<1> HIDE DEF EndOf
<1>4. End \in [1 .. m -> Nat] /\ \A i \in 1 .. m : End[i] \in i .. m /\ End[i] = EndOf(i)
  BY <1>1, <1>3
<1> HIDE DEF End
<1>5. PICK g \in [1 .. m + 1 -> Seq(Seq(Char))] :
        \A i \in 1 .. m + 1 : g[i] = IF i > m THEN <<>> ELSE <<SubSeq(b, i, End[i])>> \o g[End[i] + 1]
  BY <1>4, LinesExist
<1>6. g = Rule(g)
  <2>1. ASSUME NEW i \in 1 .. m + 1
        PROVE  g[i] = IF i > m THEN <<>> ELSE <<SubSeq(b, i, EndOf(i))>> \o g[EndOf(i) + 1]
    <3>1. CASE i > m
      BY <3>1, <1>5
    <3>2. CASE ~(i > m)
      <4>1. i \in 1 .. m
        BY <1>1, <3>2
      <4> QED
        BY <1>4, <1>5, <3>2, <4>1
    <3> QED
      BY <3>1, <3>2
  <2> QED
    BY <2>1
<1>7. l = Rule(l)
  <2> HIDE DEF Rule
  <2> QED
    BY <1>6
<1> HIDE DEF l
<1>8. \A i \in 1 .. m + 1 :
        l[i] = IF i > m THEN <<>> ELSE <<SubSeq(b, i, EndOf(i))>> \o l[EndOf(i) + 1]
  BY <1>7
<1>9. \A i \in 1 .. m + 1 : IsLines(l, b, i)
  <2> SUFFICES ASSUME NEW i \in 1 .. m + 1 PROVE IsLines(l, b, i)
    OBVIOUS
  <2>1. CASE i > m
    BY <2>1, <1>8 DEF IsLines
  <2>2. CASE ~(i > m)
    <3>1. i \in 1 .. m
      BY <1>1, <2>2
    <3>2. EndOf(i) \in i .. m /\ IsEnd(b, i, EndOf(i))
      BY <1>3, <3>1
    <3>3. l[i] = <<SubSeq(b, i, EndOf(i))>> \o l[EndOf(i) + 1]
      BY <1>8, <2>2
    <3> QED
      BY <2>2, <3>2, <3>3 DEF IsLines
  <2> QED
    BY <2>1, <2>2
<1> DEFINE S == {n \in Nat : \A j \in (m + 1) - n .. m + 1 : j >= 1 => l[j] \in Seq(Seq(Char))}
<1> HIDE DEF Rule
<1>10. 0 \in S
  <2> SUFFICES ASSUME NEW j \in (m + 1) - 0 .. m + 1 PROVE l[j] \in Seq(Seq(Char))
    OBVIOUS
  <2>1. j \in 1 .. m + 1 /\ j > m
    BY <1>1
  <2>2. l[j] = <<>>
    BY <1>8, <2>1
  <2> QED
    BY <2>2, EmptySeq
<1>11. ASSUME NEW n \in Nat, n \in S
       PROVE  n + 1 \in S
  <2> SUFFICES ASSUME NEW j \in (m + 1) - (n + 1) .. m + 1, j >= 1
               PROVE  l[j] \in Seq(Seq(Char))
    OBVIOUS
  <2>1. CASE j \in (m + 1) - n .. m + 1
    BY <1>11, <2>1
  <2>2. CASE j \notin (m + 1) - n .. m + 1
    <3>1. j \in 1 .. m /\ j + 1 >= (m + 1) - n
      BY <1>1, <2>2
    <3>2. EndOf(j) \in j .. m
      BY <1>3, <3>1
    <3>3. EndOf(j) + 1 \in (m + 1) - n .. m + 1 /\ EndOf(j) + 1 >= 1
      BY <1>1, <3>1, <3>2
    <3>4. l[EndOf(j) + 1] \in Seq(Seq(Char))
      BY <1>11, <3>3
    <3>5. SubSeq(b, j, EndOf(j)) \in Seq(Char)
      BY <3>1, <3>2, OneLine
    <3>6. l[j] = <<SubSeq(b, j, EndOf(j))>> \o l[EndOf(j) + 1]
      <4>1. j \in 1 .. m + 1 /\ ~(j > m)
        BY <1>1, <3>1
      <4> QED
        BY <1>8, <4>1
    <3> QED
      BY <3>4, <3>5, <3>6, OneMoreLine
  <2> QED
    BY <2>1, <2>2
<1> HIDE DEF S
<1>12. Nat \subseteq S
  BY <1>10, <1>11, Induction
<1>13. \A j \in 1 .. m + 1 : l[j] \in Seq(Seq(Char))
  <2>1. m \in S /\ (m + 1) - m = 1
    BY <1>1, <1>12
  <2> QED
    BY <2>1 DEF S
<1>14. l \in [1 .. m + 1 -> Seq(Seq(Char))]
  BY <1>7, <1>13 DEF Rule
<1> QED
  BY <1>2, <1>9, <1>14

(* A line has no LF but at its end, which only the last may lack.           *)
Line(l) == l \in Seq(Char) /\ l # <<>> /\ \A k \in 1 .. Len(l) - 1 : l[k] # "LF"

AreLines(s) == \A i \in 1 .. Len(s) : Line(s[i]) /\ (i < Len(s) => IsComplete(s[i]))

LEMMA LineBefore ==
    ASSUME NEW x, Line(x), NEW s \in Seq(Seq(Char)), AreLines(s), IsComplete(x) \/ s = <<>>
    PROVE  AreLines(<<x>> \o s)
<1> DEFINE r == <<x>> \o s
<1>1. Len(s) \in Nat
  BY LenProperties
<1>2. /\ Len(r) = Len(s) + 1 /\ r[1] = x
      /\ \A i \in 1 .. Len(s) : r[i + 1] = s[i]
  BY OneMoreLine DEF Line
<1> HIDE DEF r
<1>3. ASSUME NEW i \in 1 .. Len(r)
      PROVE  Line(r[i]) /\ (i < Len(r) => IsComplete(r[i]))
  <2>1. CASE i = 1
    <3>1. s = <<>> => Len(s) = 0
      OBVIOUS
    <3> QED
      BY <1>1, <1>2, <2>1, <3>1
  <2>2. CASE i # 1
    <3>1. i - 1 \in 1 .. Len(s) /\ (i - 1) + 1 = i /\ (i < Len(r) => i - 1 < Len(s))
      BY <1>1, <1>2, <2>2
    <3>2. r[i] = s[i - 1]
      BY <1>2, <3>1
    <3> QED
      BY <3>1, <3>2 DEF AreLines
  <2> QED
    BY <2>1, <2>2
<1> QED
  BY <1>3 DEF r, AreLines

LEMMA LinesShape ==
    ASSUME NEW b \in Seq(Char)
    PROVE  Lines(b) \in Seq(Seq(Char)) /\ AreLines(Lines(b)) /\ (b = <<>> => Lines(b) = <<>>)
<1> DEFINE m == Len(b)
<1>1. m \in Nat
  BY LenProperties
<1>2. PICK f \in [1 .. m + 1 -> Seq(Seq(Char))] :
        f[1] = Lines(b) /\ \A i \in 1 .. m + 1 : IsLines(f, b, i)
  BY LinesRule
<1> DEFINE S == {n \in Nat : \A j \in (m + 1) - n .. m + 1 : j >= 1 => AreLines(f[j])}
<1>3. f[m + 1] = <<>>
  <2>1. m + 1 \in 1 .. m + 1 /\ m + 1 > m
    BY <1>1
  <2> QED
    BY <1>2, <2>1 DEF IsLines
<1>4. 0 \in S
  <2> SUFFICES ASSUME NEW j \in (m + 1) - 0 .. m + 1 PROVE AreLines(f[j])
    OBVIOUS
  <2>1. j = m + 1
    BY <1>1
  <2>2. f[j] = <<>> /\ Len(f[j]) = 0
    BY <1>3, <2>1
  <2> QED
    BY <2>2 DEF AreLines
<1>5. ASSUME NEW n \in Nat, n \in S
      PROVE  n + 1 \in S
  <2> SUFFICES ASSUME NEW j \in (m + 1) - (n + 1) .. m + 1, j >= 1
               PROVE  AreLines(f[j])
    OBVIOUS
  <2>1. CASE j \in (m + 1) - n .. m + 1
    BY <1>5, <2>1
  <2>2. CASE j \notin (m + 1) - n .. m + 1
    <3>1. j \in 1 .. m /\ j + 1 >= (m + 1) - n /\ j \in 1 .. m + 1 /\ ~(j > m)
      BY <1>1, <2>2
    <3>2. PICK e \in j .. m : IsEnd(b, j, e) /\ f[j] = <<SubSeq(b, j, e)>> \o f[e + 1]
      BY <1>2, <3>1 DEF IsLines
    <3>3. e + 1 \in (m + 1) - n .. m + 1 /\ e + 1 >= 1 /\ e + 1 \in 1 .. m + 1
      BY <1>1, <3>1
    <3>4. AreLines(f[e + 1]) /\ f[e + 1] \in Seq(Seq(Char))
      BY <1>2, <1>5, <3>3
    <3> DEFINE x == SubSeq(b, j, e)
               h == e - j + 1
    <3>5. x \in Seq(Char) /\ Len(x) = h /\ \A k \in 1 .. h : x[k] = b[j + k - 1]
      BY <3>1, OneLine
    <3>6. h \in Nat /\ h >= 1 /\ j + h - 1 = e
      BY <3>1
    <3>7. x[h] = b[e]
      <4>1. h \in 1 .. h
        BY <3>6
      <4> HIDE DEF x, h
      <4>2. x[h] = b[j + h - 1]
        BY <3>5, <4>1
      <4> QED
        BY <4>2, <3>6
    <3> HIDE DEF x
    <3>8. Line(x)
      <4>1. x # <<>>
        BY <3>5, <3>6
      <4>2. ASSUME NEW k \in 1 .. h - 1
            PROVE  x[k] # "LF"
        <5>1. k \in 1 .. h /\ j + k - 1 \in j .. e - 1
          BY <3>1, <3>6
        <5> HIDE DEF h
        <5> QED
          BY <3>2, <3>5, <5>1 DEF IsEnd
      <4> HIDE DEF h
      <4> QED
        BY <3>5, <4>1, <4>2 DEF Line
    <3>9. IsComplete(x) \/ f[e + 1] = <<>>
      <4>1. b[e] = "LF" \/ e = m
        BY <3>2 DEF IsEnd
      <4>2. IsComplete(x) <=> b[e] = "LF"
        BY <3>5, <3>7 DEF IsComplete, Last
      <4> QED
        BY <1>3, <4>1, <4>2
    <3> QED
      BY <3>2, <3>4, <3>8, <3>9, LineBefore DEF x
  <2> QED
    BY <2>1, <2>2
<1> HIDE DEF S
<1>6. Nat \subseteq S
  BY <1>4, <1>5, Induction
<1>7. AreLines(f[1])
  <2>1. m \in S /\ (m + 1) - m = 1 /\ 1 \in 1 .. m + 1
    BY <1>1, <1>6
  <2> QED
    BY <2>1 DEF S
<1>8. f[1] \in Seq(Seq(Char))
  BY <1>1, <1>2
<1>9. b = <<>> => Lines(b) = <<>>
  <2> SUFFICES ASSUME b = <<>> PROVE f[1] = <<>>
    BY <1>2
  <2>1. m + 1 = 1
    BY EmptySeq
  <2> QED
    BY <1>3, <2>1
<1> QED
  BY <1>2, <1>7, <1>8, <1>9

-----------------------------------------------------------------------------
(* One line: completed, escaped and unescaped.                              *)

HasNoLf(s) == s \in Seq(Char) /\ \A k \in 1 .. Len(s) : s[k] # "LF"

(* A line with CR LF at its end.                                            *)
Canonical(c) ==
    /\ c \in Seq(Char) /\ Len(c) >= 2
    /\ c[Len(c) - 1] = "CR" /\ c[Len(c)] = "LF"
    /\ \A k \in 1 .. Len(c) - 1 : c[k] # "LF"

LEMMA CrLfIs ==
    /\ CrLf \in Seq(Char) /\ Len(CrLf) = 2 /\ CrLf[1] = "CR" /\ CrLf[2] = "LF"
    /\ Dot \in Seq(Char) /\ Len(Dot) = 1 /\ Dot[1] = "."
  BY DEF CrLf, Dot, Char

LEMMA EndAdded ==
    ASSUME NEW s, HasNoLf(s)
    PROVE  LET r == IF EndsWithCr(s) THEN Append(s, "LF") ELSE s \o CrLf
           IN  /\ Canonical(r)
               /\ s # <<>> => r[1] = s[1]
               /\ s = <<>> => r[1] = "CR"
<1> DEFINE r == IF EndsWithCr(s) THEN Append(s, "LF") ELSE s \o CrLf
           n == Len(s)
<1>1. s \in Seq(Char) /\ n \in Nat /\ \A k \in 1 .. n : s[k] # "LF"
  BY LenProperties DEF HasNoLf
<1>2. s # <<>> => n >= 1 /\ 1 \in 1 .. n /\ n \in 1 .. n
  BY <1>1, EmptySeq
<1>3. CASE EndsWithCr(s)
  <2>1. r = Append(s, "LF") /\ "LF" \in Char
    BY <1>3 DEF Char
  <2> HIDE DEF r
  <2>2. s # <<>> /\ s[n] = "CR"
    BY <1>3 DEF EndsWithCr, Last
  <2>3. r \in Seq(Char) /\ Len(r) = n + 1 /\ r[n + 1] = "LF" /\ \A k \in 1 .. n : r[k] = s[k]
    BY <1>1, <2>1, AppendProperties
  <2>4. Len(r) - 1 = n /\ Len(r) >= 2
    BY <1>1, <1>2, <2>2, <2>3
  <2>5. Canonical(r)
    BY <1>1, <1>2, <2>2, <2>3, <2>4 DEF Canonical
  <2> QED
    BY <1>2, <2>2, <2>3, <2>5 DEF r
<1>4. CASE ~EndsWithCr(s)
  <2>1. r = s \o CrLf
    BY <1>4
  <2> HIDE DEF r
  <2>2. /\ r \in Seq(Char) /\ Len(r) = n + 2
        /\ \A k \in 1 .. n + 2 : r[k] = IF k <= n THEN s[k] ELSE CrLf[k - n]
    <3>1. s \in Seq(Char) /\ CrLf \in Seq(Char)
      BY <1>1, CrLfIs
    <3>2. /\ s \o CrLf \in Seq(Char) /\ Len(s \o CrLf) = Len(s) + Len(CrLf)
          /\ \A i \in 1 .. Len(s) + Len(CrLf) :
               (s \o CrLf)[i] = IF i <= Len(s) THEN s[i] ELSE CrLf[i - Len(s)]
      BY <3>1, ConcatProperties
    <3>3. Len(CrLf) = 2
      BY CrLfIs
    <3> QED
      BY <2>1, <3>2, <3>3
  <2>3. r[n + 1] = "CR" /\ r[n + 2] = "LF" /\ \A k \in 1 .. n : r[k] = s[k]
    <3>1. /\ n + 1 \in 1 .. n + 2 /\ ~(n + 1 <= n) /\ (n + 1) - n = 1
          /\ n + 2 \in 1 .. n + 2 /\ ~(n + 2 <= n) /\ (n + 2) - n = 2
      BY <1>1
    <3>2. r[n + 1] = CrLf[1] /\ r[n + 2] = CrLf[2]
      BY <2>2, <3>1
    <3> QED
      BY <1>1, <2>2, <3>2, CrLfIs
  <2>4. Len(r) - 1 = n + 1 /\ Len(r) >= 2 /\ 1 .. n + 1 = (1 .. n) \cup {n + 1}
    BY <1>1, <2>2
  <2>5. Canonical(r)
    <3>1. \A k \in 1 .. n + 1 : r[k] # "LF"
      BY <1>1, <2>3, <2>4
    <3> QED
      BY <2>2, <2>3, <2>4, <3>1 DEF Canonical
  <2>6. s = <<>> => n = 0
    OBVIOUS
  <2>7. s = <<>> => r[1] = "CR"
    BY <2>3, <2>6
  <2> QED
    BY <1>2, <2>3, <2>5, <2>7 DEF r
<1> QED
  BY <1>3, <1>4

LEMMA FrontIs ==
    ASSUME NEW l \in Seq(Char), l # <<>>
    PROVE  /\ Front(l) \in Seq(Char) /\ Len(Front(l)) = Len(l) - 1
           /\ \A k \in 1 .. Len(l) - 1 : Front(l)[k] = l[k]
<1>1. Len(l) \in Nat /\ Len(l) >= 1
  BY EmptySeq, LenProperties
<1>3. \A k \in 1 .. Len(l) - 1 : l[k] \in Char
  <2>1. \A k \in 1 .. Len(l) - 1 : k \in 1 .. Len(l)
    BY <1>1
  <2> QED
    BY <2>1, ElementOfSeq
<1> DEFINE n == Len(l) - 1
<1>4. n \in Nat
  BY <1>1
<1> HIDE DEF n
<1>5. /\ SubSeq(l, 1, n) \in Seq(Char)
      /\ Len(SubSeq(l, 1, n)) = IF 1 <= n THEN n - 1 + 1 ELSE 0
      /\ \A i \in 1 .. n - 1 + 1 : SubSeq(l, 1, n)[i] = l[1 + i - 1]
  BY <1>3, <1>4, SubSeqProperties DEF n
<1>6. SubSeq(l, 1, n) \in Seq(Char) /\ Len(SubSeq(l, 1, n)) = n
  BY <1>4, <1>5
<1>7. ASSUME NEW i \in 1 .. n
      PROVE  SubSeq(l, 1, n)[i] = l[i]
  <2>1. i \in 1 .. n - 1 + 1 /\ 1 + i - 1 = i
    BY <1>4
  <2>2. SubSeq(l, 1, n)[i] = l[1 + i - 1]
    BY <1>5, <2>1, Zenon
  <2> QED
    BY <2>1, <2>2
<1> QED
  BY <1>6, <1>7 DEF n, Front

LEMMA CompletedLine ==
    ASSUME NEW l, Line(l)
    PROVE  Canonical(Completed(l)) /\ (Completed(l)[1] = "." <=> l[1] = ".")
<1> DEFINE s == IF IsComplete(l) THEN Front(l) ELSE l
           n == Len(l)
<1>1. l \in Seq(Char) /\ l # <<>> /\ n \in Nat /\ n >= 1 /\ \A k \in 1 .. n - 1 : l[k] # "LF"
  BY EmptySeq, LenProperties DEF Line
<1>2. IsComplete(l) <=> l[n] = "LF"
  BY DEF IsComplete, Last
<1>3. CASE IsComplete(l)
  <2>1. s = Front(l)
    BY <1>3
  <2>2. s \in Seq(Char) /\ Len(s) = n - 1 /\ \A k \in 1 .. n - 1 : s[k] = l[k]
    BY <1>1, <2>1, FrontIs
  <2> HIDE DEF s
  <2>3. HasNoLf(s)
    BY <1>1, <2>2 DEF HasNoLf
  <2>4. s # <<>> => s[1] = l[1]
    <3>1. s # <<>> => 1 \in 1 .. n - 1
      BY <1>1, <2>2, EmptySeq
    <3> QED
      BY <2>2, <3>1
  <2>5. s = <<>> => l[1] = "LF"
    <3>1. s = <<>> => n = 1
      BY <1>1, <2>2
    <3> QED
      BY <1>2, <1>3, <3>1
  <2>6. "LF" # "." /\ "CR" # "."
    OBVIOUS
  <2> QED
    BY <2>3, <2>4, <2>5, <2>6, EndAdded DEF Completed, s
<1>4. CASE ~IsComplete(l)
  <2>1. s = l
    BY <1>4
  <2>2. 1 .. n = (1 .. n - 1) \cup {n}
    BY <1>1
  <2>3. HasNoLf(s)
    BY <1>1, <1>2, <1>4, <2>1, <2>2 DEF HasNoLf
  <2> HIDE DEF s
  <2> QED
    BY <1>1, <2>1, <2>3, EndAdded DEF Completed, s
<1> QED
  BY <1>3, <1>4

LEMMA CanonicalIs ==
    ASSUME NEW c, Canonical(c)
    PROVE  Completed(c) = c /\ IsComplete(c) /\ c # <<>> /\ Line(c)
<1> DEFINE n == Len(c)
           s == Front(c)
<1>1. c \in Seq(Char) /\ n \in Nat /\ n >= 2 /\ c # <<>>
  BY LenProperties DEF Canonical
<1>2. IsComplete(c) /\ Line(c)
  BY <1>1 DEF Canonical, IsComplete, Last, Line
<1>3. s \in Seq(Char) /\ Len(s) = n - 1 /\ \A k \in 1 .. n - 1 : s[k] = c[k]
  BY <1>1, FrontIs
<1> HIDE DEF s
<1>4. EndsWithCr(s)
  <2>1. s # <<>> /\ n - 1 \in 1 .. n - 1
    BY <1>1, <1>3
  <2> QED
    BY <1>3, <2>1 DEF Canonical, EndsWithCr, Last
<1>5. Append(s, "LF") = c
  <2> DEFINE r == Append(s, "LF")
  <2>1. "LF" \in Char
    BY DEF Char
  <2>2. r \in Seq(Char) /\ Len(r) = Len(s) + 1 /\ r[Len(s) + 1] = "LF" /\ \A k \in 1 .. Len(s) : r[k] = s[k]
    BY <1>3, <2>1, AppendProperties
  <2> HIDE DEF r
  <2>3. Len(r) = n /\ Len(s) + 1 = n /\ 1 .. n = (1 .. Len(s)) \cup {n}
    BY <1>1, <1>3, <2>2
  <2>4. \A k \in 1 .. n : r[k] = c[k]
    BY <1>3, <2>2, <2>3 DEF Canonical
  <2>5. r = c
    BY <1>1, <2>2, <2>3, <2>4, SeqEqual
  <2> QED
    BY <2>5 DEF r
<1> QED
  BY <1>1, <1>2, <1>4, <1>5 DEF Completed, s

(* The lines that end a mail.                                               *)
LEMMA Terminators ==
    ASSUME NEW l, Terminates(l)
    PROVE  l[1] = "." /\ l[2] # "."
<1>1. l = <<".", "CR", "LF">> \/ l = <<".", "LF">>
  BY DEF Terminates, Dot, CrLf
<1> QED
  BY <1>1

(* A line that is completed ends a mail only if it is a lone period.        *)
LEMMA LonePeriod ==
    ASSUME NEW l, Line(l), ~IsComplete(l), Terminates(Completed(l))
    PROVE  l \in {Dot, <<".", "CR">>}
<1> DEFINE e == Completed(l)
           n == Len(l)
<1>1. l \in Seq(Char) /\ l # <<>> /\ n \in Nat /\ n >= 1
  BY EmptySeq, LenProperties DEF Line
<1>2. e = <<".", "CR", "LF">> \/ e = <<".", "LF">>
  BY DEF Terminates, Dot, CrLf
<1>3. (Len(e) = 2 \/ Len(e) = 3) /\ e[1] = "."
  BY <1>2
<1>4. e = IF EndsWithCr(l) THEN Append(l, "LF") ELSE l \o CrLf
  BY DEF Completed
<1> HIDE DEF e
<1>5. CASE EndsWithCr(l)
  <2>1. "LF" \in Char
    BY DEF Char
  <2>2. Len(e) = n + 1 /\ \A k \in 1 .. n : e[k] = l[k]
    BY <1>1, <1>4, <1>5, <2>1, AppendProperties
  <2>3. l[n] = "CR"
    BY <1>5 DEF EndsWithCr, Last
  <2>a. l[1] = "."
    <3>1. 1 \in 1 .. n
      BY <1>1
    <3> QED
      BY <1>3, <2>2, <3>1
  <2>b. n # 1
    BY <2>3, <2>a
  <2>4. n = 2 /\ l[1] = "." /\ l[2] = "CR"
    <3>1. n = 2
      <4> HIDE DEF n
      <4> QED
        BY <1>1, <1>3, <2>2, <2>b
    <3> QED
      BY <2>3, <2>a, <3>1
  <2>5. l = <<".", "CR">>
    <3>1. l = [i \in 1 .. 2 |-> l[i]]
      BY <1>1, <2>4, LenProperties
    <3> QED
      BY <2>4, <3>1
  <2> QED
    BY <2>5
<1>6. CASE ~EndsWithCr(l)
  <2>1. /\ Len(l \o CrLf) = Len(l) + Len(CrLf)
        /\ \A i \in 1 .. Len(l) + Len(CrLf) :
             (l \o CrLf)[i] = IF i <= Len(l) THEN l[i] ELSE CrLf[i - Len(l)]
    BY <1>1, CrLfIs, ConcatProperties
  <2>2. Len(e) = n + 2 /\ \A k \in 1 .. n + 2 : e[k] = IF k <= n THEN l[k] ELSE CrLf[k - n]
    BY <1>4, <1>6, <2>1, CrLfIs
  <2>3. n = 1 /\ l[1] = "."
    <3>1. n = 1
      <4> HIDE DEF n
      <4> QED
        BY <1>1, <1>3, <2>2
    <3>2. 1 \in 1 .. n + 2 /\ 1 <= n
      BY <3>1
    <3> QED
      BY <1>3, <2>2, <3>1, <3>2
  <2>4. l = <<".">>
    <3>1. l = [i \in 1 .. 1 |-> l[i]]
      BY <1>1, <2>3, LenProperties
    <3> QED
      BY <2>3, <3>1
  <2> QED
    BY <2>4 DEF Dot
<1> QED
  BY <1>5, <1>6

LEMMA EscapedLine ==
    ASSUME NEW l, Line(l), IsComplete(l) \/ l[1] # ".",
           NEW e, e = Stuffing(l) \o Completed(l)
    PROVE  /\ e \in Seq(Char) /\ ~Terminates(e)
           /\ e[1] = "." => Tail(e) = Completed(l)
           /\ e[1] # "." => e = Completed(l)
<1> DEFINE c == Completed(l)
<1>1. Canonical(c) /\ (c[1] = "." <=> l[1] = ".") /\ c \in Seq(Char) /\ Len(c) \in Nat /\ Len(c) >= 2
  BY CompletedLine, LenProperties DEF Canonical
<1> HIDE DEF c
<1>2. CASE l[1] = "."
  <2>1. Stuffing(l) = Dot
    BY <1>2 DEF Stuffing
  <2>2. /\ e \in Seq(Char) /\ Len(e) = 1 + Len(c)
        /\ \A i \in 1 .. 1 + Len(c) : e[i] = IF i <= 1 THEN Dot[i] ELSE c[i - 1]
    <3>1. /\ Dot \o c \in Seq(Char) /\ Len(Dot \o c) = Len(Dot) + Len(c)
          /\ \A i \in 1 .. Len(Dot) + Len(c) :
               (Dot \o c)[i] = IF i <= Len(Dot) THEN Dot[i] ELSE c[i - Len(Dot)]
      <4>1. Dot \in Seq(Char) /\ c \in Seq(Char)
        BY <1>1, CrLfIs
      <4> QED
        BY <4>1, ConcatProperties
    <3>2. e = Dot \o c /\ Len(Dot) = 1
      BY <2>1, CrLfIs DEF c
    <3> QED
      BY <3>1, <3>2
  <2>3. e[1] = "."
    <3>1. 1 \in 1 .. 1 + Len(c) /\ 1 <= 1
      BY <1>1
    <3> QED
      BY <2>2, <3>1, CrLfIs
  <2>4. ASSUME NEW i \in 1 .. Len(c)
        PROVE  e[i + 1] = c[i]
    <3>1. i + 1 \in 1 .. 1 + Len(c) /\ ~(i + 1 <= 1) /\ (i + 1) - 1 = i
      BY <1>1
    <3>2. e[i + 1] = c[(i + 1) - 1]
      BY <2>2, <3>1, Zenon
    <3> QED
      BY <3>1, <3>2
  <2>5. e[2] = "."
    <3>1. 1 \in 1 .. Len(c) /\ 1 + 1 = 2
      BY <1>1
    <3> QED
      BY <1>1, <1>2, <2>4, <3>1
  <2>6. Tail(e) = c
    <3>1. e # <<>>
      BY <1>1, <2>2
    <3>2. /\ Tail(e) \in Seq(Char) /\ Len(Tail(e)) = Len(e) - 1
          /\ \A i \in 1 .. Len(Tail(e)) : Tail(e)[i] = e[i + 1]
      BY <2>2, <3>1, HeadTailProperties
    <3>3. Len(Tail(e)) = Len(c)
      BY <1>1, <2>2, <3>2
    <3>4. \A i \in 1 .. Len(c) : Tail(e)[i] = c[i]
      BY <2>4, <3>2, <3>3
    <3> QED
      BY <1>1, <3>2, <3>3, <3>4, SeqEqual
  <2> QED
    BY <2>2, <2>3, <2>5, <2>6, Terminators DEF c
<1>3. CASE l[1] # "."
  <2>1. e = <<>> \o c
    BY <1>3 DEF Stuffing, c
  <2>2. e = c
    BY <1>1, <2>1, ConcatEmptySeq
  <2> QED
    BY <1>1, <1>3, <2>2, Terminators DEF c
<1> QED
  BY <1>2, <1>3

-----------------------------------------------------------------------------
(* A whole mail.                                                            *)

SameUpTo(ss, tt, n) == \A i \in 1 .. n : ss[i] = tt[i]

SameAt(f, g, n) == f[n] = g[n]

LEMMA JoinSame ==
    ASSUME NEW ss, NEW tt, NEW f, NEW g, NEW n \in Nat, IsJoin(f, ss, n), IsJoin(g, tt, n),
           SameUpTo(ss, tt, n)
    PROVE  SameAt(f, g, n)
<1> DEFINE S == {k \in Nat : k <= n => f[k] = g[k]}
<1>1. 0 \in S
  BY DEF IsJoin
<1>2. ASSUME NEW k \in Nat, k \in S
      PROVE  k + 1 \in S
  <2> SUFFICES ASSUME k + 1 <= n PROVE f[k + 1] = g[k + 1]
    OBVIOUS
  <2> DEFINE i == k + 1
  <2>1. i \in 1 .. n /\ i - 1 = k /\ f[k] = g[k]
    BY <1>2
  <2> HIDE DEF i
  <2>2. f[i] = f[k] \o ss[i] /\ g[i] = g[k] \o tt[i] /\ ss[i] = tt[i]
    BY <2>1 DEF IsJoin, SameUpTo
  <2>3. f[i] = g[i]
    BY <2>1, <2>2
  <2> QED
    BY <2>3 DEF i
<1> HIDE DEF S
<1>3. Nat \subseteq S
  BY <1>1, <1>2, Induction
<1>4. n \in S
  BY <1>3
<1> QED
  BY <1>4 DEF S, SameAt

LEMMA FlattenSame ==
    ASSUME NEW ss \in Seq(Seq(Char)), NEW tt \in Seq(Seq(Char)), Len(tt) = Len(ss) + 1,
           \A i \in 1 .. Len(ss) : tt[i] = ss[i], tt[Len(ss) + 1] = <<>>
    PROVE  FlattenSeq(tt) = FlattenSeq(ss)
<1> DEFINE n == Len(ss)
<1>1. n \in Nat
  BY LenProperties
<1>2. PICK f \in [0 .. n -> Seq(Char)] : IsJoin(f, ss, n) /\ FlattenSeq(ss) = f[n]
  BY Flattened
<1>3. PICK g \in [0 .. n + 1 -> Seq(Char)] : IsJoin(g, tt, n + 1) /\ FlattenSeq(tt) = g[n + 1]
  BY Flattened
<1>4. IsJoin(g, tt, n)
  <2>1. \A i \in 1 .. n : i \in 1 .. n + 1
    BY <1>1
  <2> QED
    BY <1>3, <2>1 DEF IsJoin
<1> HIDE DEF n
<1>5. g[n] = f[n]
  <2>1. SameUpTo(tt, ss, n)
    BY DEF SameUpTo, n
  <2>2. IsJoin(f, ss, n)
    BY <1>2
  <2>3. SameAt(g, f, n)
    BY ONLY <1>1, <1>4, <2>1, <2>2, JoinSame, Zenon
  <2> QED
    BY <2>3 DEF SameAt
<1>6. g[n + 1] = g[n] \o <<>>
  <2>1. n + 1 \in 1 .. n + 1 /\ (n + 1) - 1 = n
    BY <1>1
  <2>2. g[n + 1] = g[(n + 1) - 1] \o tt[n + 1]
    BY <1>3, <2>1 DEF IsJoin
  <2> QED
    BY <2>1, <2>2 DEF n
<1>7. n \in 0 .. n
  BY <1>1
<1>8. f[n] \in Seq(Char)
  BY <1>2, <1>7
<1> QED
  BY <1>2, <1>3, <1>5, <1>6, <1>8, ConcatEmptySeq

(* The lines of b, completed.                                               *)
CompletedLines(b) ==
    LET ls == Lines(b) IN OrEmptyLine([i \in DOMAIN ls |-> Completed(ls[i])])

LEMMA MapSeq ==
    ASSUME NEW C, NEW ls \in Seq(C), NEW m, NEW D, m = [i \in DOMAIN ls |-> m[i]],
           \A i \in 1 .. Len(ls) : m[i] \in D
    PROVE  m \in Seq(D) /\ Len(m) = Len(ls) /\ (m = <<>> <=> ls = <<>>)
<1>1. Len(ls) \in Nat /\ DOMAIN ls = 1 .. Len(ls)
  BY LenProperties
<1>2. m \in [1 .. Len(ls) -> D]
  BY <1>1
<1>3. m \in Seq(D) /\ Len(m) = Len(ls)
  BY <1>1, <1>2
<1> QED
  BY <1>1, <1>3, EmptySeq

LEMMA EmptyLineIs == Canonical(CrLf) /\ CrLf[1] # "." /\ ~Terminates(CrLf)
<1>1. CrLf[1] # "."
  BY CrLfIs
<1> QED
  BY <1>1, CrLfIs, Terminators DEF Canonical

LEMMA CompletedLinesAre ==
    ASSUME NEW b \in Seq(Char)
    PROVE  /\ CompletedLines(b) \in Seq(Seq(Char)) /\ CompletedLines(b) # <<>>
           /\ \A i \in 1 .. Len(CompletedLines(b)) : Canonical(CompletedLines(b)[i])
           /\ Content(b) = FlattenSeq(CompletedLines(b))
           /\ CompletedLines(b) =
                IF Lines(b) = <<>> THEN <<CrLf>> ELSE [i \in DOMAIN Lines(b) |-> Completed(Lines(b)[i])]
<1> DEFINE ls == Lines(b)
           m == [i \in DOMAIN ls |-> Completed(ls[i])]
<1>1. ls \in Seq(Seq(Char)) /\ AreLines(ls)
  BY LinesShape
<1>2. CompletedLines(b) = OrEmptyLine(m) /\ Content(b) = FlattenSeq(OrEmptyLine(m))
  BY DEF CompletedLines, Content
<1> HIDE DEF ls
<1>3. \A i \in 1 .. Len(ls) : m[i] = Completed(ls[i])
  BY <1>1, LenProperties
<1>4. m = [i \in DOMAIN ls |-> m[i]]
  OBVIOUS
<1> HIDE DEF m
<1>5. \A i \in 1 .. Len(ls) : Canonical(m[i])
  BY <1>1, <1>3, CompletedLine DEF AreLines
<1>6. \A i \in 1 .. Len(ls) : m[i] \in Seq(Char)
  BY <1>5 DEF Canonical
<1>7. m \in Seq(Seq(Char)) /\ Len(m) = Len(ls) /\ (m = <<>> <=> ls = <<>>)
  BY <1>1, <1>4, <1>6, MapSeq
<1>8. CASE ls = <<>>
  <2> DEFINE o == <<CrLf>>
  <2>1. OrEmptyLine(m) = o
    BY <1>7, <1>8 DEF OrEmptyLine
  <2>2. o \in Seq(Seq(Char)) /\ Len(o) = 1 /\ o[1] = CrLf /\ o # <<>>
    BY CrLfIs
  <2>3. CompletedLines(b) = o /\ Content(b) = FlattenSeq(o)
    BY <1>2, <2>1
  <2> HIDE DEF o
  <2>4. \A i \in 1 .. Len(o) : Canonical(o[i])
    BY <2>2, EmptyLineIs
  <2> QED
    BY <1>8, <2>2, <2>3, <2>4 DEF ls, o
<1>9. CASE ls # <<>>
  <2>1. OrEmptyLine(m) = m
    BY <1>7, <1>9 DEF OrEmptyLine
  <2> QED
    BY <1>2, <1>5, <1>7, <1>9, <2>1 DEF ls, m
<1> QED
  BY <1>8, <1>9

(* The escaped line e is read on, and unescaped it is the line c.           *)
ComesBack(e, c) ==
    /\ ~Terminates(e)
    /\ e[1] = "." => Tail(e) = c
    /\ e[1] # "." => e = c

(* The line that is not escaped, but completed only.                        *)
LEMMA CompletedOnly ==
    ASSUME NEW l, Line(l), ~IsComplete(l), l \notin {Dot, <<".", "CR">>},
           NEW e, e = Stuffing(l) \o Completed(l)
    PROVE  e \in Seq(Char) /\ ~Terminates(e)
<1>1. Completed(l) \in Seq(Char)
  BY CompletedLine DEF Canonical
<1>2. e = <<>> \o Completed(l)
  BY DEF Stuffing
<1>3. e = Completed(l)
  BY <1>1, <1>2, ConcatEmptySeq
<1> QED
  BY <1>1, <1>3, LonePeriod

(* No line of an escaped mail ends it but the one added for that, and each  *)
(* is the content again when it is unescaped.                               *)
LEMMA Escaped ==
    ASSUME NEW b \in Seq(Char), ~EndsInLonePeriod(b)
    PROVE  \E F \in Seq(Seq(Char)) :
             /\ Escape(b) = F \o <<Dot \o CrLf>>
             /\ Len(F) = Len(CompletedLines(b))
             /\ \A i \in 1 .. Len(F) : ~Terminates(F[i])
             /\ ~EndsInPeriodLine(b) =>
                  \A i \in 1 .. Len(F) : ComesBack(F[i], CompletedLines(b)[i])
<1> DEFINE ls == Lines(b)
           m == [i \in DOMAIN ls |-> Stuffing(ls[i]) \o Completed(ls[i])]
           F == OrEmptyLine(m)
<1>1. ls \in Seq(Seq(Char)) /\ AreLines(ls) /\ (b = <<>> => ls = <<>>)
  BY LinesShape
<1>2. Escape(b) = F \o <<Dot \o CrLf>>
  BY DEF Escape
<1>3. ASSUME NEW i \in 1 .. Len(ls)
      PROVE  /\ Line(ls[i])
             /\ IsComplete(ls[i]) \/ ls[i][1] # "." \/ ls[i] \notin {Dot, <<".", "CR">>}
             /\ ~EndsInPeriodLine(b) => IsComplete(ls[i]) \/ ls[i][1] # "."
  <2>1. Line(ls[i]) /\ (i < Len(ls) => IsComplete(ls[i])) /\ Len(ls) \in Nat
    BY <1>1, LenProperties DEF AreLines
  <2>2. CASE i = Len(ls)
    <3>1. b # <<>>
      BY <1>1
    <3>2. /\ Last(ls) \notin {Dot, <<".", "CR">>}
          /\ ~EndsInPeriodLine(b) => IsComplete(Last(ls)) \/ Last(ls)[1] # "."
      BY <3>1 DEF EndsInPeriodLine, EndsInLonePeriod
    <3> QED
      BY <2>1, <2>2, <3>2 DEF Last
  <2> QED
    BY <2>1, <2>2
<1>c. CompletedLines(b) = IF ls = <<>> THEN <<CrLf>> ELSE [i \in DOMAIN ls |-> Completed(ls[i])]
  BY CompletedLinesAre
<1> HIDE DEF ls
<1>4. Len(ls) \in Nat /\ DOMAIN ls = 1 .. Len(ls)
  BY <1>1, LenProperties
<1>5. \A i \in 1 .. Len(ls) : m[i] = Stuffing(ls[i]) \o Completed(ls[i])
  BY <1>4
<1>6. m = [i \in DOMAIN ls |-> m[i]]
  OBVIOUS
<1> HIDE DEF m
<1>7. ASSUME NEW i \in 1 .. Len(ls)
      PROVE  /\ m[i] \in Seq(Char) /\ ~Terminates(m[i])
             /\ ~EndsInPeriodLine(b) => ComesBack(m[i], Completed(ls[i]))
  <2>1. CASE IsComplete(ls[i]) \/ ls[i][1] # "."
    BY <1>3, <1>5, <2>1, EscapedLine DEF ComesBack
  <2>2. CASE ~(IsComplete(ls[i]) \/ ls[i][1] # ".")
    BY <1>3, <1>5, <2>2, CompletedOnly
  <2> QED
    BY <2>1, <2>2
<1>8. m \in Seq(Seq(Char)) /\ Len(m) = Len(ls) /\ (m = <<>> <=> ls = <<>>)
  BY <1>1, <1>6, <1>7, MapSeq
<1> DEFINE C == CompletedLines(b)
<1>9. CASE ls = <<>>
  <2> DEFINE o == <<CrLf>>
  <2>1. F = o /\ C = o
    BY <1>8, <1>9, <1>c DEF OrEmptyLine
  <2>2. o \in Seq(Seq(Char)) /\ Len(o) = 1 /\ o[1] = CrLf
    BY CrLfIs
  <2>3. ComesBack(CrLf, CrLf)
    BY EmptyLineIs DEF ComesBack
  <2>6. ~Terminates(CrLf)
    BY EmptyLineIs
  <2> HIDE DEF o, F, C
  <2>4. \A i \in 1 .. Len(o) : o[i] = CrLf
    BY <2>2
  <2>5. \A i \in 1 .. Len(F) : ~Terminates(F[i]) /\ ComesBack(F[i], C[i])
    BY <2>1, <2>3, <2>4, <2>6
  <2> QED
    BY <1>2, <2>1, <2>2, <2>5 DEF C
<1>10. CASE ls # <<>>
  <2>1. F = m
    BY <1>8, <1>10 DEF OrEmptyLine
  <2>2. C = [i \in DOMAIN ls |-> Completed(ls[i])]
    BY <1>10, <1>c
  <2> HIDE DEF C, F
  <2>3. Len(C) = Len(ls)
    BY <1>4, <2>2
  <2>4. \A i \in 1 .. Len(ls) : C[i] = Completed(ls[i])
    BY <1>4, <2>2
  <2>5. F \in Seq(Seq(Char)) /\ Len(F) = Len(C)
    BY <1>8, <2>1, <2>3
  <2>6. \A i \in 1 .. Len(F) : ~Terminates(F[i])
    BY <1>7, <1>8, <2>1
  <2>7. ~EndsInPeriodLine(b) => \A i \in 1 .. Len(F) : ComesBack(F[i], C[i])
    BY <1>7, <1>8, <2>1, <2>4
  <2> QED
    BY <1>2, <2>5, <2>6, <2>7 DEF C
<1> QED
  BY <1>9, <1>10

(* Lines of which only the last terminates are read to the last.            *)
LEMMA ReadWhole ==
    ASSUME NEW F \in Seq(Seq(Char)), \A i \in 1 .. Len(F) : ~Terminates(F[i]),
           NEW stop \in Seq(Char), Terminates(stop)
    PROVE  ReadBody(Append(F, stop)) = Append(F, stop) /\ Leftover(Append(F, stop)) = <<>>
<1> DEFINE E == Append(F, stop)
           n == Len(F)
<1>1. /\ E \in Seq(Seq(Char)) /\ Len(E) = n + 1 /\ E[n + 1] = stop /\ n \in Nat
      /\ \A i \in 1 .. n : E[i] = F[i]
  BY AppendProperties, LenProperties
<1> HIDE DEF E
<1>2. \A i \in 1 .. n : ~Terminates(E[i])
  BY <1>1
<1> HIDE DEF n
<1>3. DOMAIN E = 1 .. n + 1
  BY <1>1, LenProperties
<1> DEFINE P(k) == Terminates(E[k]) /\ \A j \in 1 .. k - 1 : ~Terminates(E[j])
           d == CHOOSE k \in DOMAIN E : P(k)
<1>4. n + 1 \in DOMAIN E /\ P(n + 1)
  <2>1. (n + 1) - 1 = n /\ n + 1 \in 1 .. n + 1
    BY <1>1
  <2> QED
    BY <1>1, <1>2, <1>3, <2>1
<1>5. d \in DOMAIN E /\ P(d)
  <2> HIDE DEF P
  <2> QED
    BY <1>4
<1>6. d = n + 1
  BY <1>1, <1>2, <1>3, <1>5
<1>7. BodyEnd(E) = d
  BY DEF BodyEnd
<1> HIDE DEF d
<1>8. ReadBody(E) = E
  BY <1>1, <1>6, <1>7, SubSeqFull DEF ReadBody
<1>9. Leftover(E) = <<>>
  <2> DEFINE m == n + 1
  <2>1. Leftover(E) = SubSeq(E, m + 1, m) /\ m \in Nat
    BY <1>1, <1>6, <1>7 DEF Leftover
  <2> HIDE DEF m
  <2>2. m < m + 1
    BY <2>1
  <2> QED
    BY <2>1, <2>2, SubSeqEmpty
<1> QED
  BY <1>8, <1>9 DEF E

(* A lone period is the worse of the two ends.                              *)
LEMMA OnlyAPeriod ==
    ASSUME NEW b, EndsInLonePeriod(b)
    PROVE  EndsInPeriodLine(b)
<1>1. PICK l \in {<<".">>, <<".", "CR">>} : b # <<>> /\ Last(Lines(b)) = l
  BY DEF EndsInLonePeriod, Dot
<1>2. l[1] = "." /\ l[Len(l)] # "LF"
  BY <1>1
<1> QED
  BY <1>1, <1>2 DEF EndsInPeriodLine, IsComplete, Last

(* What is left over of a mail: nothing, but for a lone period.             *)
LEMMA NothingLeft ==
    ASSUME NEW b \in Seq(Char), ~EndsInLonePeriod(b)
    PROVE  Written(0, b) = Escape(b) /\ Leftover(Escape(b)) = <<>>
<1> DEFINE stop == Dot \o CrLf
<1>1. PICK F \in Seq(Seq(Char)) :
        Escape(b) = F \o <<stop>> /\ \A i \in 1 .. Len(F) : ~Terminates(F[i])
  BY Escaped
<1>2. stop \in Seq(Char) /\ Terminates(stop)
  BY CrLfIs DEF Terminates, Dot, CrLf
<1> HIDE DEF stop
<1>3. Escape(b) = Append(F, stop) /\ Escape(b) \in Seq(Seq(Char))
  BY <1>1, <1>2, AppendIsConcat, AppendProperties
<1>4. Leftover(Escape(b)) = <<>>
  BY <1>1, <1>2, <1>3, ReadWhole
<1>5. Written(0, b) = <<>> \o Escape(b)
  <2>1. [i \in 1 .. 0 |-> CommandLine] = <<>>
    OBVIOUS
  <2> QED
    BY <2>1 DEF Written
<1> QED
  BY <1>3, <1>4, <1>5, ConcatEmptySeq

(* A mail that was escaped, read and unescaped has its content.             *)
LEMMA EscapedComesBack ==
    ASSUME NEW b \in Seq(Char), ~EndsInPeriodLine(b)
    PROVE  Unescape(ReadBody(Escape(b))) = Content(b)
<1> DEFINE C == CompletedLines(b)
           stop == Dot \o CrLf
           n == Len(C)
<1>1. PICK F \in Seq(Seq(Char)) :
        /\ Escape(b) = F \o <<stop>> /\ Len(F) = n
        /\ \A i \in 1 .. Len(F) : ~Terminates(F[i])
        /\ \A i \in 1 .. Len(F) : ComesBack(F[i], C[i])
  BY Escaped, OnlyAPeriod
<1>2. stop \in Seq(Char) /\ Terminates(stop)
  BY CrLfIs DEF Terminates, Dot, CrLf
<1>3. C \in Seq(Seq(Char)) /\ n \in Nat /\ Content(b) = FlattenSeq(C)
  BY CompletedLinesAre, LenProperties
<1> HIDE DEF C, stop
<1> DEFINE E == Append(F, stop)
<1>4. Escape(b) = E
  BY <1>1, <1>2, AppendIsConcat
<1>5. /\ E \in Seq(Seq(Char)) /\ Len(E) = n + 1 /\ E[n + 1] = stop
      /\ \A i \in 1 .. n : E[i] = F[i]
  BY <1>1, <1>2, AppendProperties
<1> HIDE DEF E, n
<1>6. DOMAIN E = 1 .. n + 1
  BY <1>5, LenProperties
<1>7. \A i \in 1 .. n : ~Terminates(E[i])
  BY <1>1, <1>5
<1>8. ReadBody(E) = E
  BY <1>1, <1>2, ReadWhole DEF E
<1> DEFINE U == [i \in DOMAIN E |-> IF Terminates(E[i]) THEN <<>>
                                    ELSE IF E[i][1] = "." THEN Tail(E[i]) ELSE E[i]]
<1>9. Unescape(E) = FlattenSeq(U)
  BY DEF Unescape
<1>10. U[n + 1] = <<>>
  <2>1. n + 1 \in 1 .. n + 1
    BY <1>3
  <2> QED
    BY <1>2, <1>5, <1>6, <2>1
<1>11. ASSUME NEW i \in 1 .. n
       PROVE  U[i] = C[i]
  <2>1. i \in DOMAIN E
    BY <1>3, <1>6
  <2> QED
    BY <1>1, <1>5, <1>7, <2>1 DEF n, ComesBack
<1>12. U = [i \in DOMAIN E |-> U[i]]
  OBVIOUS
<1> HIDE DEF U
<1>13. \A i \in 1 .. n : C[i] \in Seq(Char)
  BY <1>3, ElementOfSeq DEF n
<1>14. \A i \in 1 .. n + 1 : U[i] \in Seq(Char)
  <2>1. 1 .. n + 1 = (1 .. n) \cup {n + 1}
    BY <1>3
  <2> QED
    BY <1>10, <1>11, <1>13, <2>1, EmptySeq
<1>15. U \in Seq(Seq(Char)) /\ Len(U) = n + 1
  BY <1>5, <1>12, <1>14, MapSeq
<1>16. FlattenSeq(U) = FlattenSeq(C)
  BY <1>3, <1>10, <1>11, <1>15, FlattenSame DEF n
<1> QED
  BY <1>3, <1>4, <1>8, <1>9, <1>16

(* Each of the first i sequences is at its place in all of them.            *)
Placed(f, C, i) ==
    /\ Len(f[i]) = Len(f[i - 1]) + Len(C[i])
    /\ Len(f[i - 1]) \in Nat /\ Len(f[i]) <= Len(f[Len(C)])
    /\ \A k \in 1 .. Len(C[i]) : f[Len(C)][Len(f[i - 1]) + k] = C[i][k]

LEMMA JoinPlaces ==
    ASSUME NEW C \in Seq(Seq(Char)), NEW f \in [0 .. Len(C) -> Seq(Char)], IsJoin(f, C, Len(C)),
           NEW i \in 1 .. Len(C)
    PROVE  Placed(f, C, i)
<1> DEFINE n == Len(C)
           b == f[n]
<1>1. n \in Nat
  BY LenProperties
<1>2. ASSUME NEW j \in 1 .. n
      PROVE  /\ f[j] \in Seq(Char) /\ f[j - 1] \in Seq(Char) /\ C[j] \in Seq(Char)
             /\ Len(f[j]) = Len(f[j - 1]) + Len(C[j])
             /\ \A k \in 1 .. Len(f[j - 1]) + Len(C[j]) :
                  f[j][k] = IF k <= Len(f[j - 1]) THEN f[j - 1][k] ELSE C[j][k - Len(f[j - 1])]
  <2>1. f[j] \in Seq(Char) /\ f[j - 1] \in Seq(Char) /\ C[j] \in Seq(Char)
    <3>1. j \in 0 .. n /\ j - 1 \in 0 .. n
      BY <1>1
    <3> QED
      BY <3>1, ElementOfSeq
  <2>2. f[j] = f[j - 1] \o C[j]
    BY DEF IsJoin
  <2> DEFINE u == f[j - 1]
             v == C[j]
  <2> HIDE DEF u, v
  <2>3. u \in Seq(Char) /\ v \in Seq(Char) /\ f[j] = u \o v
    BY <2>1, <2>2 DEF u, v
  <2>4. /\ Len(u \o v) = Len(u) + Len(v)
        /\ \A k \in 1 .. Len(u) + Len(v) :
             (u \o v)[k] = IF k <= Len(u) THEN u[k] ELSE v[k - Len(u)]
    BY <2>3, ConcatProperties
  <2> QED
    BY <2>1, <2>3, <2>4 DEF u, v
<1> DEFINE S == {d \in Nat : d <= n => /\ f[n - d] \in Seq(Char) /\ Len(f[n - d]) <= Len(b)
                                       /\ \A k \in 1 .. Len(f[n - d]) : b[k] = f[n - d][k]}
<1>3. 0 \in S
  <2>1. b \in Seq(Char) /\ n - 0 = n
    <3>1. n \in 0 .. n /\ n - 0 = n
      BY <1>1
    <3> QED
      BY <3>1
  <2>2. Len(b) \in Nat
    BY <2>1, LenProperties
  <2> QED
    BY <2>1, <2>2
<1>4. ASSUME NEW d \in Nat, d \in S
      PROVE  d + 1 \in S
  <2> SUFFICES ASSUME d + 1 <= n
               PROVE  /\ f[n - (d + 1)] \in Seq(Char) /\ Len(f[n - (d + 1)]) <= Len(b)
                      /\ \A k \in 1 .. Len(f[n - (d + 1)]) : b[k] = f[n - (d + 1)][k]
    OBVIOUS
  <2> DEFINE j == n - d
  <2>1. j \in 1 .. n /\ j - 1 = n - (d + 1) /\ d <= n
    BY <1>1
  <2>2. Len(f[j]) <= Len(b) /\ \A k \in 1 .. Len(f[j]) : b[k] = f[j][k]
    BY <1>4, <2>1
  <2> HIDE DEF j, b
  <2>3. /\ f[j] \in Seq(Char) /\ f[j - 1] \in Seq(Char) /\ C[j] \in Seq(Char)
        /\ Len(f[j]) = Len(f[j - 1]) + Len(C[j])
        /\ \A k \in 1 .. Len(f[j - 1]) + Len(C[j]) :
             f[j][k] = IF k <= Len(f[j - 1]) THEN f[j - 1][k] ELSE C[j][k - Len(f[j - 1])]
    BY <1>2, <2>1
  <2> DEFINE o == Len(f[j - 1])
             h == Len(C[j])
             q == Len(f[j])
             z == Len(b)
  <2>4. o \in Nat /\ h \in Nat /\ q = o + h /\ q <= z /\ z \in Nat
    <3>1. o \in Nat
      BY <2>3, LenProperties
    <3>2. h \in Nat
      BY <2>3, LenProperties
    <3>3. f[n] \in Seq(Char)
      <4>1. n \in 0 .. n
        BY <1>1
      <4> QED
        BY <4>1
    <3>4. z \in Nat
      BY <3>3, LenProperties DEF b
    <3> QED
      BY <2>2, <2>3, <3>1, <3>2, <3>4
  <2>5. \A k \in 1 .. o + h : f[j][k] = IF k <= o THEN f[j - 1][k] ELSE C[j][k - o]
    BY <2>3
  <2>c. \A k \in 1 .. q : b[k] = f[j][k]
    BY <2>2
  <2> HIDE DEF o, h, q, z
  <2>6. o <= z
    BY <2>4
  <2>7. ASSUME NEW k \in 1 .. o
        PROVE  b[k] = f[j - 1][k]
    <3>1. k \in 1 .. o + h /\ k <= o /\ k \in 1 .. q
      BY <2>4
    <3>2. f[j][k] = f[j - 1][k]
      BY <2>5, <3>1
    <3> QED
      BY <2>c, <3>1, <3>2
  <2> QED
    BY <2>1, <2>3, <2>6, <2>7 DEF o, z
<1> HIDE DEF S
<1>5. Nat \subseteq S
  BY <1>3, <1>4, Induction
<1>6. Len(f[i]) <= Len(b) /\ \A k \in 1 .. Len(f[i]) : b[k] = f[i][k]
  <2>1. n - i \in Nat /\ n - i <= n /\ n - (n - i) = i
    BY <1>1
  <2>2. n - i \in S
    BY <1>5, <2>1
  <2>3. /\ Len(f[n - (n - i)]) <= Len(b)
        /\ \A k \in 1 .. Len(f[n - (n - i)]) : b[k] = f[n - (n - i)][k]
    BY <2>1, <2>2 DEF S
  <2> QED
    BY <2>1, <2>3
<1> HIDE DEF b
<1>7. /\ f[i] \in Seq(Char) /\ f[i - 1] \in Seq(Char) /\ C[i] \in Seq(Char)
      /\ Len(f[i]) = Len(f[i - 1]) + Len(C[i])
      /\ \A k \in 1 .. Len(f[i - 1]) + Len(C[i]) :
           f[i][k] = IF k <= Len(f[i - 1]) THEN f[i - 1][k] ELSE C[i][k - Len(f[i - 1])]
  BY <1>2
<1>8. Len(f[i - 1]) \in Nat /\ Len(C[i]) \in Nat
  BY <1>7, LenProperties
<1> DEFINE o == Len(f[i - 1])
           h == Len(C[i])
           q == Len(f[i])
<1>c. /\ q = o + h /\ o \in Nat /\ h \in Nat
      /\ \A k \in 1 .. o + h : f[i][k] = IF k <= o THEN f[i - 1][k] ELSE C[i][k - o]
      /\ \A k \in 1 .. q : b[k] = f[i][k]
  BY <1>6, <1>7, <1>8
<1> HIDE DEF o, h, q
<1>9. ASSUME NEW k \in 1 .. h
      PROVE  b[o + k] = C[i][k]
  <2> DEFINE p == o + k
  <2>1. p \in 1 .. o + h /\ ~(p <= o) /\ p - o = k /\ p \in 1 .. q
    BY <1>c
  <2> HIDE DEF p
  <2>2. f[i][p] = C[i][p - o]
    BY <1>c, <2>1
  <2>3. b[p] = C[i][k]
    BY <1>c, <2>1, <2>2
  <2> QED
    BY <2>3 DEF p
<1> QED
  BY <1>6, <1>7, <1>8, <1>9 DEF Placed, b, o, h

(* The lines of the content of a mail are the completed lines.              *)
LEMMA LinesOfCanonical ==
    ASSUME NEW C \in Seq(Seq(Char)), \A i \in 1 .. Len(C) : Canonical(C[i])
    PROVE  FlattenSeq(C) \in Seq(Char) /\ Lines(FlattenSeq(C)) = C
<1> DEFINE n == Len(C)
           b == FlattenSeq(C)
<1>1. n \in Nat
  BY LenProperties
<1>2. PICK f \in [0 .. n -> Seq(Char)] : IsJoin(f, C, n) /\ b = f[n]
  BY Flattened
<1>3. b \in Seq(Char) /\ Len(b) \in Nat
  <2>1. n \in 0 .. n
    BY <1>1
  <2>2. b \in Seq(Char)
    BY <1>2, <2>1
  <2> QED
    BY <2>2, LenProperties
<1>4. ASSUME NEW i \in 1 .. n
      PROVE  /\ Len(f[i]) = Len(f[i - 1]) + Len(C[i])
             /\ Len(f[i - 1]) \in Nat /\ Len(f[i]) <= Len(b)
             /\ \A k \in 1 .. Len(C[i]) : b[Len(f[i - 1]) + k] = C[i][k]
  <2>1. IsJoin(f, C, Len(C)) /\ i \in 1 .. Len(C) /\ f \in [0 .. Len(C) -> Seq(Char)]
    BY <1>2
  <2>2. b = f[Len(C)]
    BY <1>2
  <2>3. Placed(f, C, i)
    BY ONLY <2>1, C \in Seq(Seq(Char)), JoinPlaces, Zenon
  <2> QED
    BY <2>2, <2>3 DEF Placed
<1> HIDE DEF b
<1>5. PICK l \in [1 .. Len(b) + 1 -> Seq(Seq(Char))] :
        l[1] = Lines(b) /\ \A i \in 1 .. Len(b) + 1 : IsLines(l, b, i)
  BY <1>3, LinesRule
<1> DEFINE S == {d \in Nat : d <= n => l[Len(f[n - d]) + 1] = SubSeq(C, (n - d) + 1, n)}
<1>6. 0 \in S
  <2>1. n - 0 = n /\ Len(b) + 1 \in 1 .. Len(b) + 1 /\ Len(b) + 1 > Len(b) /\ n < n + 1
    BY <1>1, <1>3
  <2>2. l[Len(b) + 1] = <<>>
    BY <1>5, <2>1 DEF IsLines
  <2>3. SubSeq(C, n + 1, n) = <<>>
    BY <1>1, <2>1, SubSeqEmpty
  <2> QED
    BY <1>2, <2>1, <2>2, <2>3
<1>7. ASSUME NEW d \in Nat, d \in S
      PROVE  d + 1 \in S
  <2> SUFFICES ASSUME d + 1 <= n
               PROVE  l[Len(f[n - (d + 1)]) + 1] = SubSeq(C, (n - (d + 1)) + 1, n)
    OBVIOUS
  <2> DEFINE i == n - d
             c == C[i]
             o == Len(f[i - 1])
             p == o + 1
             q == Len(f[i])
             h == Len(c)
  <2>1. i \in 1 .. n /\ i - 1 = n - (d + 1) /\ (n - (d + 1)) + 1 = i /\ d <= n
    BY <1>1
  <2>2. l[q + 1] = SubSeq(C, i + 1, n)
    BY <1>7, <2>1
  <2> HIDE DEF i
  <2>3. /\ q = o + h /\ o \in Nat /\ q <= Len(b)
        /\ \A k \in 1 .. h : b[o + k] = c[k]
    BY <1>4, <2>1
  <2>4. Canonical(c)
    BY <2>1
  <2>5. c \in Seq(Char) /\ h \in Nat /\ h >= 2
    BY <2>4, LenProperties DEF Canonical
  <2> HIDE DEF c, o, q, h, p
  <2>6. p = o + 1 /\ p \in 1 .. Len(b) /\ p \in 1 .. Len(b) + 1 /\ ~(p > Len(b)) /\ q \in p .. Len(b)
    BY <1>3, <2>3, <2>5 DEF p
  <2>7. b[q] = "LF"
    <3>1. c[h] = "LF" /\ h \in 1 .. h
      BY <2>4, <2>5 DEF Canonical, h
    <3>2. b[o + h] = c[h]
      BY <2>3, <3>1
    <3> QED
      BY <2>3, <3>1, <3>2
  <2>8. ASSUME NEW k \in p .. q - 1
        PROVE  b[k] # "LF"
    <3> DEFINE j == k - o
    <3>1. j \in 1 .. h - 1 /\ j \in 1 .. h /\ o + j = k
      BY <2>3, <2>5, <2>6
    <3> HIDE DEF j
    <3>2. c[j] # "LF"
      BY <2>4, <3>1 DEF Canonical, h
    <3>3. b[o + j] = c[j]
      BY <2>3, <3>1
    <3> QED
      BY <3>1, <3>2, <3>3
  <2>9. IsEnd(b, p, q)
    BY <2>7, <2>8 DEF IsEnd
  <2>10. PICK e \in p .. Len(b) : IsEnd(b, p, e) /\ l[p] = <<SubSeq(b, p, e)>> \o l[e + 1]
    BY <1>5, <2>6 DEF IsLines
  <2>11. e = q
    BY <1>3, <2>6, <2>9, <2>10, EndUnique
  <2>12. SubSeq(b, p, q) = c
    <3> DEFINE r == SubSeq(b, p, q)
    <3>1. r \in Seq(Char) /\ Len(r) = q - p + 1 /\ \A k \in 1 .. q - p + 1 : r[k] = b[p + k - 1]
      BY <1>3, <2>6, OneLine
    <3>2. q - p + 1 = h
      BY <2>3, <2>5, <2>6
    <3> HIDE DEF r
    <3>3. ASSUME NEW k \in 1 .. h
          PROVE  r[k] = c[k]
      <4>1. p + k - 1 = o + k
        BY <2>3, <2>6
      <4>2. r[k] = b[p + k - 1]
        BY <3>1, <3>2
      <4> QED
        BY <2>3, <4>1, <4>2
    <3>4. Len(r) = h
      BY <3>1, <3>2
    <3>5. r = c
      BY <2>5, <3>1, <3>3, <3>4, SeqEqual DEF h
    <3> QED
      BY <3>5 DEF r
  <2>13. SubSeq(C, i, n) = <<C[i]>> \o SubSeq(C, i + 1, n)
    <3>1. n \in i .. n
      BY <1>1, <2>1
    <3> QED
      BY <2>1, <3>1, SubSeqRecursiveFirst
  <2>14. l[p] = SubSeq(C, i, n)
    BY <2>2, <2>10, <2>11, <2>12, <2>13 DEF c
  <2>15. Len(f[n - (d + 1)]) + 1 = p
    BY <2>1, <2>6 DEF o
  <2> QED
    BY <2>1, <2>14, <2>15
<1> HIDE DEF S
<1>8. Nat \subseteq S
  BY <1>6, <1>7, Induction
<1>9. l[1] = SubSeq(C, 1, n)
  <2>1. n \in S /\ n - n = 0 /\ 0 + 1 = 1 /\ n <= n
    BY <1>1, <1>8
  <2>2. l[Len(f[n - n]) + 1] = SubSeq(C, (n - n) + 1, n)
    BY <2>1 DEF S
  <2>3. Len(f[0]) = 0
    BY <1>2 DEF IsJoin
  <2> QED
    BY <2>1, <2>2, <2>3
<1>10. l[1] = C
  BY <1>9, SubSeqFull
<1> QED
  BY <1>3, <1>5, <1>10 DEF b

(* The content of a content is itself.                                      *)
LEMMA ContentOfContent ==
    ASSUME NEW b \in Seq(Char)
    PROVE  /\ Content(b) \in Seq(Char) /\ ~EndsInPeriodLine(Content(b))
           /\ Content(Content(b)) = Content(b)
<1> DEFINE C == CompletedLines(b)
           d == Content(b)
<1>1. /\ C \in Seq(Seq(Char)) /\ C # <<>> /\ d = FlattenSeq(C)
      /\ \A i \in 1 .. Len(C) : Canonical(C[i])
  BY CompletedLinesAre
<1>2. Len(C) \in Nat /\ Len(C) >= 1 /\ DOMAIN C = 1 .. Len(C)
  BY <1>1, EmptySeq, LenProperties
<1> HIDE DEF C
<1>3. d \in Seq(Char) /\ Lines(d) = C
  BY <1>1, LinesOfCanonical
<1> HIDE DEF d
<1>4. ~EndsInPeriodLine(d)
  <2>1. Canonical(C[Len(C)])
    BY <1>1, <1>2
  <2> QED
    BY <1>3, <2>1, CanonicalIs DEF EndsInPeriodLine, Last
<1>5. CompletedLines(d) = C
  <2> DEFINE m == [i \in DOMAIN C |-> Completed(C[i])]
  <2>1. CompletedLines(d) = m
    BY <1>1, <1>3, CompletedLinesAre
  <2>2. \A i \in 1 .. Len(C) : Completed(C[i]) = C[i]
    BY <1>1, CanonicalIs
  <2>3. m = [i \in 1 .. Len(C) |-> C[i]]
    BY <1>2, <2>2
  <2>4. C = [i \in 1 .. Len(C) |-> C[i]]
    BY <1>1, LenProperties
  <2> QED
    BY <2>1, <2>3, <2>4
<1>6. Content(d) = FlattenSeq(CompletedLines(d))
  BY <1>3, CompletedLinesAre
<1> QED
  BY <1>1, <1>3, <1>4, <1>5, <1>6 DEF d

(* An escaped mail is a sequence of lines, whose last one ends it.          *)
LEMMA EscapeLines ==
    ASSUME NEW b \in Seq(Char)
    PROVE  \E F \in Seq(Seq(Char)) : Escape(b) = Append(F, Dot \o CrLf)
<1> DEFINE ls == Lines(b)
           m == [i \in DOMAIN ls |-> Stuffing(ls[i]) \o Completed(ls[i])]
           stop == Dot \o CrLf
<1>1. ls \in Seq(Seq(Char)) /\ AreLines(ls)
  BY LinesShape
<1>2. Escape(b) = OrEmptyLine(m) \o <<stop>>
  BY DEF Escape
<1> HIDE DEF ls
<1>3. DOMAIN ls = 1 .. Len(ls)
  BY <1>1, LenProperties
<1>4. \A i \in 1 .. Len(ls) : m[i] = Stuffing(ls[i]) \o Completed(ls[i])
  BY <1>3
<1>5. m = [i \in DOMAIN ls |-> m[i]]
  OBVIOUS
<1> HIDE DEF m, stop
<1>6. ASSUME NEW i \in 1 .. Len(ls)
      PROVE  m[i] \in Seq(Char)
  <2>1. Completed(ls[i]) \in Seq(Char)
    BY <1>1, CompletedLine DEF AreLines, Canonical
  <2>2. Stuffing(ls[i]) \in Seq(Char)
    BY CrLfIs, EmptySeq DEF Stuffing
  <2> QED
    BY <1>4, <2>1, <2>2, ConcatProperties
<1>7. m \in Seq(Seq(Char))
  BY <1>1, <1>5, <1>6, MapSeq
<1>8. <<CrLf>> \in Seq(Seq(Char)) /\ stop \in Seq(Char)
  BY CrLfIs, ConcatProperties DEF stop
<1>9. OrEmptyLine(m) \in Seq(Seq(Char))
  BY <1>7, <1>8 DEF OrEmptyLine
<1> QED
  BY <1>2, <1>8, <1>9, AppendIsConcat DEF stop

(* What is left over of a mail, whatever was written before it, are lines.  *)
LEMMA LeftoverLines ==
    ASSUME NEW b \in Seq(Char), NEW n \in Nat
    PROVE  Leftover(Written(n, b)) \in Seq(Seq(Char))
<1> DEFINE P == [i \in 1 .. n |-> CommandLine]
           E == Escape(b)
           W == Written(n, b)
           stop == Dot \o CrLf
<1>1. PICK F \in Seq(Seq(Char)) : E = Append(F, stop)
  BY EscapeLines
<1>2. stop \in Seq(Char) /\ Terminates(stop)
  BY CrLfIs, ConcatProperties DEF Terminates
<1>3. CommandLine \in Seq(Char)
  BY CrLfIs, ConcatProperties DEF CommandLine, Char
<1>4. P \in Seq(Seq(Char)) /\ Len(P) = n
  <2> DEFINE D == Seq(Char)
  <2>1. P \in [1 .. n -> D]
    BY <1>3
  <2> HIDE DEF P, D
  <2>2. P \in Seq(D) /\ Len(P) = n
    BY <2>1
  <2> QED
    BY <2>2 DEF D
<1>5. W = P \o E
  BY DEF Written
<1> HIDE DEF P, E, W, stop
<1>6. E \in Seq(Seq(Char)) /\ Len(E) \in Nat /\ Len(E) >= 1 /\ E[Len(E)] = stop
  BY <1>1, <1>2, AppendProperties, LenProperties
<1>7. /\ W \in Seq(Seq(Char)) /\ Len(W) = n + Len(E) /\ DOMAIN W = 1 .. Len(W)
      /\ W[n + Len(E)] = E[Len(E)]
  <2> DEFINE D == Seq(Char)
             l == Len(E)
  <2>1. P \in Seq(D) /\ E \in Seq(D) /\ Len(P) = n /\ l \in Nat /\ l >= 1
    BY <1>4, <1>6
  <2> HIDE DEF D
  <2>2. /\ P \o E \in Seq(D) /\ Len(P \o E) = n + l
        /\ \A i \in 1 .. n + l : (P \o E)[i] = IF i <= n THEN P[i] ELSE E[i - n]
    BY <2>1, ConcatProperties
  <2>3. DOMAIN (P \o E) = 1 .. Len(P \o E)
    BY <2>2, LenProperties
  <2> HIDE DEF l
  <2>4. (P \o E)[n + l] = E[l]
    <3>1. PICK j \in 1 .. n + l : j = n + l /\ ~(j <= n) /\ j - n = l
      BY <2>1
    <3>2. (P \o E)[j] = E[j - n]
      BY <2>2, <3>1, Zenon
    <3> QED
      BY <3>1, <3>2, Zenon
  <2> QED
    BY <1>5, <2>2, <2>3, <2>4 DEF l, D
<1> DEFINE T == {k \in 1 .. Len(W) : Terminates(W[k])}
<1>8. T \subseteq Nat /\ Len(W) \in T
  BY <1>2, <1>6, <1>7
<1>9. PICK x \in T : \A y \in T : x <= y
  <2> HIDE DEF T
  <2> QED
    BY <1>8, Least
<1> DEFINE Q(k) == Terminates(W[k]) /\ \A j \in 1 .. k - 1 : ~Terminates(W[j])
           d == CHOOSE k \in DOMAIN W : Q(k)
<1>10. x \in DOMAIN W /\ Q(x)
  <2>1. ASSUME NEW j \in 1 .. x - 1 PROVE ~Terminates(W[j])
    <3>1. j \in 1 .. Len(W) /\ ~(x <= j)
      BY <1>6, <1>7
    <3> QED
      BY <1>9, <3>1
  <2> QED
    BY <1>7, <2>1
<1>11. d \in DOMAIN W
  <2> HIDE DEF Q
  <2> QED
    BY <1>10
<1>12. BodyEnd(W) = d
  BY DEF BodyEnd
<1> HIDE DEF d, T, Q
<1>13. BodyEnd(W) \in 1 .. Len(W) /\ Len(W) \in Nat
  BY <1>6, <1>7, <1>11, <1>12
<1> QED
  <2> DEFINE e == BodyEnd(W)
             l == Len(W)
  <2>1. e \in Nat /\ l \in Nat /\ e + 1 \in Nat /\ e + 1 >= 1
    BY <1>13
  <2>2. \A i \in e + 1 .. l : W[i] \in Seq(Char)
    BY <1>7, <2>1, LenProperties, ElementOfSeq
  <2>3. Leftover(W) = SubSeq(W, e + 1, l)
    BY DEF Leftover
  <2> HIDE DEF e, l
  <2>4. Leftover(W) \in Seq(Seq(Char))
    BY <1>7, <2>1, <2>2, <2>3, SubSeqProperties
  <2> QED
    BY <2>4 DEF W

-----------------------------------------------------------------------------
(* A mail on its way through the proxy: escaped by the client, unescaped    *)
(* and escaped again by the proxy, and unescaped by the backend.            *)
LEMMA MailComesThrough ==
    ASSUME NEW b \in Bodies
    PROVE  EndsInPeriodLine(b) \/ Through(0, b) = Content(b)
<1> SUFFICES ASSUME ~EndsInPeriodLine(b) PROVE Through(0, b) = Content(b)
  OBVIOUS
<1>1. b \in Seq(Char)
  BY BodiesAssumption DEF Char
<1>2. Unescape(ReadBody(Escape(b))) = Content(b)
  BY <1>1, EscapedComesBack
<1>3. Unescape(ReadBody(Escape(Content(b)))) = Content(Content(b))
  BY <1>1, ContentOfContent, EscapedComesBack
<1>4. Written(0, b) = Escape(b)
  BY <1>1, NothingLeft, OnlyAPeriod
<1>5. Through(0, b) = Unescape(ReadBody(Escape(Content(b))))
  BY <1>2, <1>4 DEF Through, Forwarded
<1> QED
  BY <1>1, <1>3, <1>5, ContentOfContent

-----------------------------------------------------------------------------
(* The three parties.                                                       *)

(* The client has sent a mail on this connection that ends in a period.     *)
Cut == CutShortBefore(Len(mails) + 1, sessions)

ClientInStep ==
    /\ replies = <<>> /\ typed = 0
    /\ (session = "body") = (client = "data")
    /\ Agreed

(* While the client is in step no command of its has become a line of mail. *)
InStepInv ==
    session # "idle" =>
        /\ backend.at # "gone" => (session = "body") = (backend.at = "data")
        /\ Cut \/ ClientInStep

(* The answer that lets the client send its mail is not read before the     *)
(* proxy reads that mail, and not left unread after it: it is the last one, *)
(* while the proxy reads the mail and the client has not begun to send it.  *)
NoOther(answers) == \A i \in 1 .. Len(answers) : answers[i] # 354
LastOnly(answers) == \A i \in 1 .. Len(answers) : answers[i] = 354 => i = Len(answers)

Invited ==
    /\ replies \in Seq(Int)
    /\ session # "body" => client = "command" /\ NoOther(replies)
    /\ LastOnly(replies)
    /\ client = "data" => NoOther(replies)

IInv == TypeOK /\ InStepInv /\ Invited

(* Answers without that one, and answers read from it on.                   *)
LEMMA Others ==
    ASSUME NEW s \in Seq(Int), NEW u \in Seq(Int), NoOther(s), NoOther(u)
    PROVE  s \o u \in Seq(Int) /\ NoOther(s \o u)
<1>1. /\ s \o u \in Seq(Int) /\ Len(s \o u) = Len(s) + Len(u)
      /\ \A i \in 1 .. Len(s) + Len(u) :
           (s \o u)[i] = IF i <= Len(s) THEN s[i] ELSE u[i - Len(s)]
  BY ConcatProperties
<1>2. Len(s) \in Nat /\ Len(u) \in Nat
  BY LenProperties
<1>3. ASSUME NEW i \in 1 .. Len(s) + Len(u), (s \o u)[i] = 354 PROVE FALSE
  <2>1. CASE i <= Len(s)
    <3>1. i \in 1 .. Len(s) /\ s[i] = 354
      BY <1>1, <1>2, <1>3, <2>1
    <3> QED
      BY <3>1 DEF NoOther
  <2>2. CASE ~(i <= Len(s))
    <3>1. i - Len(s) \in 1 .. Len(u) /\ u[i - Len(s)] = 354
      BY <1>1, <1>2, <1>3, <2>2
    <3> QED
      BY <3>1 DEF NoOther
  <2> QED
    BY <2>1, <2>2
<1> QED
  BY <1>1, <1>3 DEF NoOther

(* The oldest is read.                                                      *)
LEMMA OneRead ==
    ASSUME NEW s \in Seq(Int), s # <<>>
    PROVE  /\ Tail(s) \in Seq(Int)
           /\ NoOther(s) => Head(s) # 354 /\ NoOther(Tail(s))
           /\ LastOnly(s) => LastOnly(Tail(s)) /\ (Head(s) = 354 => NoOther(Tail(s)))
<1>1. /\ Tail(s) \in Seq(Int) /\ Len(Tail(s)) = Len(s) - 1
      /\ \A i \in 1 .. Len(Tail(s)) : Tail(s)[i] = s[i + 1]
  BY HeadTailProperties
<1>2. Len(s) \in Nat /\ Len(s) >= 1 /\ Head(s) = s[1] /\ 1 \in 1 .. Len(s)
  BY EmptySeq
<1>3. ASSUME NEW i \in 1 .. Len(Tail(s))
      PROVE  /\ i + 1 \in 1 .. Len(s) /\ Tail(s)[i] = s[i + 1]
             /\ Len(s) # 1 /\ (i + 1 = Len(s) => i = Len(Tail(s)))
  <2> DEFINE l == Len(s)
             m == Len(Tail(s))
  <2>1. l \in Nat /\ m = l - 1
    BY <1>1, <1>2
  <2>2. i \in 1 .. m
    OBVIOUS
  <2> HIDE DEF l, m
  <2>3. i + 1 \in 1 .. l /\ l # 1 /\ (i + 1 = l => i = m)
    BY <2>1, <2>2
  <2>4. Tail(s)[i] = s[i + 1]
    BY <1>1, Zenon
  <2> QED
    BY <2>3, <2>4 DEF l, m
<1>4. NoOther(s) => Head(s) # 354 /\ NoOther(Tail(s))
  BY <1>2, <1>3 DEF NoOther
<1>5. ASSUME LastOnly(s) PROVE LastOnly(Tail(s))
  BY <1>3, <1>5 DEF LastOnly
<1>6. ASSUME LastOnly(s), Head(s) = 354 PROVE NoOther(Tail(s))
  <2>1. Len(s) = 1
    BY <1>2, <1>6 DEF LastOnly
  <2> QED
    BY <1>3, <2>1 DEF NoOther
<1> QED
  BY <1>1, <1>4, <1>5, <1>6

(* One more is given.                                                       *)
LEMMA OneGiven ==
    ASSUME NEW s \in Seq(Int), NoOther(s), NEW n \in Int
    PROVE  /\ Append(s, n) \in Seq(Int) /\ Append(s, n) # <<>>
           /\ LastOnly(Append(s, n))
           /\ n # 354 => NoOther(Append(s, n))
<1>1. /\ Append(s, n) \in Seq(Int) /\ Append(s, n) # <<>>
      /\ Len(Append(s, n)) = Len(s) + 1
      /\ \A i \in 1 .. Len(s) : Append(s, n)[i] = s[i]
      /\ Append(s, n)[Len(s) + 1] = n
  BY AppendProperties
<1>2. Len(s) \in Nat
  BY LenProperties
<1>3. ASSUME NEW i \in 1 .. Len(s) + 1, i # Len(s) + 1
      PROVE  i \in 1 .. Len(s)
  BY <1>2, <1>3
<1>4. LastOnly(Append(s, n))
  BY <1>1, <1>3 DEF LastOnly, NoOther
<1>5. ASSUME n # 354 PROVE NoOther(Append(s, n))
  BY <1>1, <1>3, <1>5 DEF NoOther
<1> QED
  BY <1>1, <1>4, <1>5

(* A client that hears the oldest of the answers.                           *)
LEMMA HeardOne ==
    ASSUME NEW c, NEW s \in Seq(Int), s # <<>>, LastOnly(s), Hears(c, s)
    PROVE  /\ replies' \in Seq(Int) /\ LastOnly(replies)'
           /\ client' = "data" => NoOther(replies)'
           /\ NoOther(s) => client' = "command" /\ NoOther(replies)'
<1>1. replies' = Tail(s) /\ (client' = "data" => Head(s) = 354)
      /\ client' \in {"command", "data"}
  BY DEF Hears, SendsMail
<1> QED
  BY <1>1, OneRead DEF NoOther, LastOnly

LEMMA ViewType ==
    ASSUME TypeOK, NEW c \in Commands, NEW n
    PROVE  ViewAfter(c, n) \in Transaction
<1>1. [mail |-> TRUE, rcpt |-> {}] \in Transaction
  BY DEF Transaction
<1>2. ASSUME c.cmd = "RCPT" PROVE [view EXCEPT !.rcpt = @ \cup {c.rcpt}] \in Transaction
  <2>1. c.rcpt \in Recipients /\ view \in Transaction
    BY <1>2 DEF Commands, TypeOK
  <2> QED
    BY <2>1, OneMore
<1> QED
  BY <1>1, <1>2, NoMailIsTransaction, Zenon DEF ViewAfter, TypeOK

(* The lists of mails.                                                      *)
ListsType ==
    /\ sessions \in Nat /\ mails \in Seq(Sent) /\ accepted \in Seq(Taken)
    /\ acked \in SUBSET (Nat \X SUBSET Recipients)

(* A client that has nothing to read and writes commands.                   *)
LEMMA NothingUnread == replies = <<>> /\ client = "command" => Invited
<1> SUFFICES ASSUME replies = <<>>, client = "command" PROVE Invited
  OBVIOUS
<1>1. replies \in Seq(Int) /\ Len(replies) = 0
  BY EmptySeq
<1>2. 1 .. Len(replies) = {}
  BY <1>1
<1> QED
  BY <1>1, <1>2 DEF Invited, NoOther, LastOnly

(* The end of a session.                                                    *)
LEMMA ClosedStep ==
    ASSUME Closed, ListsType'
    PROVE  IInv'
<1>1. Invited'
  <2>1. (replies = <<>> /\ client = "command")'
    BY DEF Closed, NewClient
  <2> QED
    BY <2>1, NothingUnread, PTL
<1>2. TypeOK' /\ InStepInv'
  BY NewBackend, NoMailIsTransaction
     DEF ListsType, TypeOK, InStepInv, Closed, NewClient, At
<1> QED
  BY <1>1, <1>2 DEF IInv

(* The begin of one.                                                        *)
LEMMA NewClientStep ==
    ASSUME NEW a \in At \ {"data"}, backend' = Backend(a), session' \in {"idle", "command"},
           NewClient, ListsType'
    PROVE  IInv'
<1>1. backend' \in Backends /\ backend'.at # "data" /\ backend'.txn = NoMail
  BY NewBackend
<1>2. ClientInStep' /\ TypeOK'
  BY <1>1, NoMailIsTransaction DEF NewClient, ListsType, TypeOK, ClientInStep, Agreed
<1>3. Invited'
  <2>1. (replies = <<>> /\ client = "command")'
    BY DEF NewClient
  <2> QED
    BY <2>1, NothingUnread, PTL
<1> QED
  BY <1>1, <1>2, <1>3 DEF IInv, InStepInv

LEMMA InitInv == Init => IInv
<1> SUFFICES ASSUME Init PROVE IInv
  OBVIOUS
<1>1. mails \in Seq(Sent) /\ accepted \in Seq(Taken)
  BY EmptySeq DEF Init
<1>2. TypeOK /\ InStepInv
  BY <1>1, NewBackend, NoMailIsTransaction DEF Init, TypeOK, InStepInv, At
<1>3. Invited
  BY NothingUnread DEF Init
<1> QED
  BY <1>2, <1>3 DEF IInv

LEMMA OpenStep == IInv /\ Open => IInv'
<1> SUFFICES ASSUME IInv, Open PROVE IInv'
  OBVIOUS
<1>0. ListsType'
  BY DEF Open, IInv, TypeOK, ListsType
<1>1. ASSUME ~Closed PROVE IInv'
  <2>1. PICK a \in At \ {"data"} :
          session' = "command" /\ NewClient /\ backend' = Backend(a)
    BY <1>1 DEF Open, At
  <2> QED
    BY <1>0, <2>1, NewClientStep
<1> QED
  BY <1>0, <1>1, ClosedStep

(* The one answer of a proxy to a client that has read all others.          *)
LEMMA OneAnswer ==
    ASSUME NEW s, s = <<>>, NEW n
    PROVE  Head(Append(s, n)) = n /\ Tail(Append(s, n)) = <<>>
<1>1. Append(s, n) = <<n>>
  OBVIOUS
<1> QED
  BY <1>1

(* What the client knows after a command, whatever it reads.                *)
LEMMA Heard ==
    ASSUME TypeOK, NEW c \in Commands, NEW s, Hears(c, s)
    PROVE  view' \in Transaction /\ client' \in {"command", "data"}
  BY ViewType DEF Hears

LEMMA RequestStep ==
    ASSUME IInv, NEW c \in Commands, Request(c)
    PROVE  IInv'
<1>0. ListsType'
  BY DEF Request, IInv, TypeOK, ListsType
<1>1. ASSUME ~Closed PROVE IInv'
  <2>1. PICK r \in On(c) :
          /\ r[1] > 0 /\ c.cmd # "QUIT"
          /\ session' = IF TakesBody(c, r[1]) THEN "body" ELSE "command"
          /\ backend' = r[2]
          /\ Hears(c, Append(replies, r[1])) /\ typed' = typed
    BY <1>1, Zenon DEF Request
  <2>2. /\ session = "command" /\ TypeOK
        /\ backend.at # "data"
        /\ Cut \/ ClientInStep
    BY DEF Request, IInv, InStepInv
  <2>3. Same(c, r)
    BY <2>1, <2>2, CallbackStep
  <2>4. TypeOK'
    BY <1>0, <2>1, <2>2, <2>3, Heard DEF TypeOK, ListsType, Same
  <2>5. backend'.at # "gone" => (session' = "body") = (backend'.at = "data")
    BY <2>1, <2>3 DEF Same
  <2>6. Invited'
    <3> DEFINE n == r[1]
    <3>1. n \in Int /\ (n = 354 => c.cmd = "DATA")
      BY AnswerCode
    <3> HIDE DEF n
    <3>2. replies \in Seq(Int) /\ NoOther(replies)
      BY <2>2 DEF IInv, Invited
    <3> DEFINE s == Append(replies, n)
    <3>3. s \in Seq(Int) /\ s # <<>> /\ LastOnly(s) /\ (n # 354 => NoOther(s))
      BY <3>1, <3>2, OneGiven
    <3>4. Hears(c, s) /\ (session' # "body" => n # 354)
      BY <2>1, <3>1 DEF TakesBody, n
    <3> HIDE DEF s
    <3> QED
      BY <3>3, <3>4, HeardOne DEF Invited
  <2>7. CASE Cut
    <3>1. Cut'
      BY <2>7 DEF Request, Cut, CutShortBefore
    <3> QED
      BY <2>4, <2>5, <2>6, <3>1 DEF IInv, InStepInv
  <2>8. CASE ClientInStep
    <3>1. Head(Append(replies, r[1])) = r[1] /\ Tail(Append(replies, r[1])) = <<>>
      BY <2>8, OneAnswer DEF ClientInStep
    <3>2. /\ replies' = <<>> /\ typed' = 0
          /\ view' = ViewAfter(c, r[1])
          /\ client' = IF SendsMail(c, r[1]) THEN "data" ELSE "command"
      BY <2>1, <2>8, <3>1 DEF Hears, ClientInStep
    <3>3. (session' = "body") = (client' = "data")
      BY <2>1, <3>2 DEF SendsMail, TakesBody
    <3>4. Agreed'
      BY <2>1, <2>3, <2>8, <3>2 DEF Same, Agreed, ClientInStep
    <3>5. ClientInStep'
      BY <3>2, <3>3, <3>4 DEF ClientInStep
    <3> QED
      BY <2>4, <2>5, <2>6, <3>5 DEF IInv, InStepInv
  <2> QED
    BY <2>2, <2>7, <2>8
<1> QED
  BY <1>0, <1>1, ClosedStep

(* Only a client that is out of step reads old answers.                     *)
LEMMA MisreadStep ==
    ASSUME IInv, NEW c \in Commands, Misread(c)
    PROVE  IInv'
<1>1. Cut
  BY DEF Misread, IInv, InStepInv, ClientInStep
<1>2. Cut'
  BY <1>1 DEF Misread, Cut, CutShortBefore
<1>3. TypeOK'
  BY Heard DEF Misread, IInv, TypeOK
<1>4. Invited'
  <2>1. /\ replies \in Seq(Int) /\ replies # <<>> /\ LastOnly(replies)
        /\ Hears(c, replies) /\ session' = "body"
    BY DEF Misread, IInv, Invited
  <2> QED
    BY <2>1, HeardOne DEF Invited
<1> QED
  BY <1>2, <1>3, <1>4 DEF Misread, IInv, InStepInv

(* One more mail was sent.                                                  *)
LEMMA OneMoreMail ==
    ASSUME IInv, NEW b \in Bodies, Mail(b)
    PROVE  /\ mails' \in Seq(Sent) /\ Len(mails') = Len(mails) + 1 /\ Len(mails) \in Nat
           /\ mails'[Len(mails')] = [body |-> b, session |-> sessions]
           /\ \A k \in 1 .. Len(mails) : mails'[k] = mails[k]
           /\ DOMAIN mails = 1 .. Len(mails) /\ DOMAIN mails' = 1 .. Len(mails')
<1> DEFINE m == [body |-> b, session |-> sessions]
<1>1. mails \in Seq(Sent) /\ m \in Sent /\ mails' = Append(mails, m)
  BY DEF Mail, IInv, TypeOK, Sent
<1> HIDE DEF m
<1> QED
  BY <1>1, AppendProperties, LenProperties DEF m

(* Whether a mail was sent in step stays, and the new one was if no other   *)
(* on this connection was cut short.                                        *)
LEMMA SentSame ==
    ASSUME IInv, NEW b \in Bodies, Mail(b)
    PROVE  /\ \A n \in 1 .. Len(mails) : SentInStep(n)' => SentInStep(n)
           /\ \A n : n = Len(mails') /\ SentInStep(n)' => ~Cut
           /\ Cut \/ EndsInLonePeriod(b) => Cut'
<1>1. /\ Len(mails') = Len(mails) + 1 /\ Len(mails) \in Nat
      /\ mails'[Len(mails')] = [body |-> b, session |-> sessions]
      /\ \A k \in 1 .. Len(mails) : mails'[k] = mails[k]
      /\ DOMAIN mails = 1 .. Len(mails) /\ DOMAIN mails' = 1 .. Len(mails')
  BY OneMoreMail
<1>2. sessions' = sessions
  BY DEF Mail
<1> DEFINE n == Len(mails)
<1>3. ASSUME NEW k \in 1 .. n
      PROVE  k \in 1 .. Len(mails') /\ k < Len(mails') + 1 /\ k < n + 1 /\ mails'[k] = mails[k]
  BY <1>1
<1>4. ASSUME NEW i \in 1 .. n, SentInStep(i)'
      PROVE  SentInStep(i)
  <2> SUFFICES ASSUME CutShortBefore(i, mails[i].session)
               PROVE  CutShortBefore(i, mails[i].session)'
    BY <1>3, <1>4 DEF SentInStep
  <2> QED
    BY <1>1, <1>3 DEF CutShortBefore
<1>5. ASSUME NEW i, i = Len(mails'), SentInStep(i)' PROVE ~Cut
  <2> SUFFICES ASSUME Cut PROVE FALSE
    OBVIOUS
  <2>1. PICK k \in 1 .. n :
          mails[k].session = sessions /\ EndsInLonePeriod(mails[k].body)
    BY <1>1 DEF Cut, CutShortBefore
  <2>2. k < i /\ mails'[i].session = sessions
    BY <1>1, <1>5
  <2> QED
    BY <1>1, <1>3, <1>5, <2>1, <2>2 DEF SentInStep, CutShortBefore
<1>6. ASSUME Cut PROVE Cut'
  <2>1. PICK k \in 1 .. n :
          mails[k].session = sessions /\ EndsInLonePeriod(mails[k].body)
    BY <1>1, <1>6 DEF Cut, CutShortBefore
  <2> QED
    BY <1>1, <1>2, <1>3, <2>1 DEF Cut, CutShortBefore
<1>7. ASSUME EndsInLonePeriod(b) PROVE Cut'
  <2>1. Len(mails') \in DOMAIN mails' /\ Len(mails') < Len(mails') + 1
    BY <1>1
  <2> QED
    BY <1>1, <1>2, <1>7, <2>1 DEF Cut, CutShortBefore
<1> QED
  BY <1>4, <1>5, <1>6, <1>7

(* What a mail does to the lists.                                           *)
Took(b) == <<Len(mails'), Through(typed, b), backend.txn.rcpt>>

LEMMA MailLists ==
    ASSUME IInv, NEW b \in Bodies, Mail(b)
    PROVE  /\ ListsType'
           /\ Took(b) \in Taken
           /\ accepted' = accepted \/ accepted' = Append(accepted, Took(b))
           /\ acked' = acked \/ acked' = acked \cup {<<Len(mails'), view.rcpt>>}
           /\ ~Cut /\ acked' # acked =>
                accepted' = Append(accepted, Took(b)) /\ view.rcpt = backend.txn.rcpt
<1> DEFINE n == Len(mails')
           x == Through(typed, b)
           e == Took(b)
           left == [i \in DOMAIN Leftover(Written(typed, b)) |-> 500]
<1>1. mails' \in Seq(Sent) /\ n \in Nat
  <2>1. mails' \in Seq(Sent)
    BY OneMoreMail, Zenon
  <2> QED
    BY <2>1, LenProperties
<1>2. /\ backend.txn.rcpt \in SUBSET Recipients /\ view.rcpt \in SUBSET Recipients
      /\ accepted \in Seq(Taken) /\ typed \in Nat /\ sessions' \in Nat
      /\ acked \in SUBSET (Nat \X SUBSET Recipients)
  BY DEF Mail, IInv, TypeOK, Backends, Transaction
<1>3. x \in Arrived
  BY <1>2 DEF Arrived
<1>4. e \in Taken
  <2> HIDE DEF n, x
  <2>1. e = <<n, x, backend.txn.rcpt>>
    BY DEF Took, n, x
  <2> HIDE DEF e
  <2> QED
    BY <1>1, <1>2, <1>3, <2>1 DEF Taken
<1>a. PICK taken \in {FALSE, backend.at = "data"}, code \in {250, 550, 0, -1} :
        OnBody(b, taken, code)
  BY Zenon DEF Mail
<1>5. /\ code > 0 => backend.at = "data" /\ taken = (code = 250)
      /\ accepted' = IF taken THEN Append(accepted, e) ELSE accepted
      /\ \/ Closed /\ UNCHANGED acked
         \/ /\ code > 0
            /\ acked' = IF Head(Append(replies, code) \o left) = 250
                        THEN acked \cup {<<n, view.rcpt>>} ELSE acked
  BY <1>a, Zenon DEF OnBody, Answered, Through, Took
<1> HIDE DEF n, x, e, left
<1>6. accepted' = accepted \/ accepted' = Append(accepted, e)
  BY <1>5, Zenon
<1>7. acked' = acked \/ acked' = acked \cup {<<n, view.rcpt>>}
  BY <1>5, Zenon
<1>8. accepted' \in Seq(Taken)
  BY <1>2, <1>4, <1>6, AppendProperties
<1>9. acked' \in SUBSET (Nat \X SUBSET Recipients)
  BY <1>1, <1>2, <1>7
<1>10. ASSUME ~Cut, acked' # acked
       PROVE  accepted' = Append(accepted, e) /\ view.rcpt = backend.txn.rcpt
  <2>1. code > 0 /\ Head(Append(replies, code) \o left) = 250
    BY <1>5, <1>10, Zenon
  <2>2. backend.at = "data" /\ taken = (code = 250)
    BY <1>5, <2>1, Zenon
  <2>3. ClientInStep
    BY <1>10 DEF Mail, IInv, InStepInv
  <2>4. replies = <<>> /\ view.rcpt = backend.txn.rcpt
    BY <2>2, <2>3 DEF ClientInStep, Agreed
  <2>5. code = 250
    BY <2>1, <2>4
  <2>6. taken
    BY <2>2, <2>5, Zenon
  <2> QED
    BY <1>5, <2>4, <2>6, Zenon
<1> QED
  BY <1>1, <1>2, <1>4, <1>6, <1>7, <1>8, <1>9, <1>10, Zenon DEF ListsType, n, e

LEMMA MailStep ==
    ASSUME IInv, NEW b \in Bodies, Mail(b)
    PROVE  IInv'
<1>0. ListsType'
  BY MailLists
<1>1. ASSUME ~Closed PROVE IInv'
  <2>0. PICK taken \in {FALSE, backend.at = "data"}, code \in {250, 550, 0, -1} :
          OnBody(b, taken, code)
    BY Zenon DEF Mail
  <2>1. /\ session' = "command" /\ backend' = Backend("ready")
        /\ client' = "command" /\ view' = NoMail /\ typed' = 0
        /\ replies' = Tail(Append(replies, code)
                              \o [i \in DOMAIN Leftover(Written(typed, b)) |-> 500])
    BY <1>1, <2>0, Zenon DEF OnBody, Answered
  <2>2. backend' \in Backends /\ backend'.at = "ready" /\ backend'.txn = NoMail
    BY <2>1, NewBackend DEF At
  <2>3. TypeOK'
    BY <1>0, <2>1, <2>2, NoMailIsTransaction DEF ListsType, TypeOK
  <2>4. Cut' \/ ClientInStep'
    <3>1. CASE Cut \/ EndsInLonePeriod(b)
      BY <3>1, SentSame
    <3>2. CASE ~Cut /\ ~EndsInLonePeriod(b)
      <4>1. b \in Seq(Char)
        BY BodiesAssumption DEF Char
      <4>2. replies = <<>> /\ typed = 0
        BY <3>2 DEF Mail, IInv, InStepInv, ClientInStep
      <4>3. Leftover(Written(typed, b)) = <<>>
        BY <3>2, <4>1, <4>2, NothingLeft
      <4>5. [i \in DOMAIN Leftover(Written(typed, b)) |-> 500] = <<>>
        <5> DEFINE l == Leftover(Written(typed, b))
        <5>1. l = <<>>
          BY <4>3
        <5> HIDE DEF l
        <5>2. [i \in DOMAIN l |-> 500] = <<>>
          BY <5>1
        <5> QED
          BY <5>2 DEF l
      <4>6. replies' = Tail(Append(<<>>, code) \o <<>>)
        BY <2>1, <4>2, <4>5, Zenon
      <4>7. replies' = <<>>
        BY <4>6
      <4> QED
        BY <2>1, <2>2, <4>7 DEF ClientInStep, Agreed
    <3> QED
      BY <3>1, <3>2
  <2>5. Invited'
    <3> DEFINE l == Leftover(Written(typed, b))
               s == Append(replies, code)
               u == [i \in DOMAIN l |-> 500]
    <3>1. b \in Seq(Char) /\ typed \in Nat
      BY BodiesAssumption DEF IInv, TypeOK, Char
    <3>2. l \in Seq(Seq(Char))
      BY <3>1, LeftoverLines
    <3> HIDE DEF l
    <3>3. \A i \in 1 .. Len(l) : u[i] = 500
      BY <3>2, LenProperties
    <3>4. u = [i \in DOMAIN l |-> u[i]]
      OBVIOUS
    <3> HIDE DEF u
    <3>5. \A i \in 1 .. Len(l) : u[i] # 354
      BY <3>3
    <3>6. \A i \in 1 .. Len(l) : u[i] \in Int
      BY <3>3
    <3>7. u \in Seq(Int) /\ Len(u) = Len(l)
      BY <3>2, <3>4, <3>6, MapSeq, Zenon
    <3>8. NoOther(u)
      BY <3>5, <3>7, Zenon DEF NoOther
    <3>9. replies \in Seq(Int) /\ NoOther(replies) /\ code \in Int /\ code # 354
      BY DEF Mail, IInv, Invited
    <3>10. s \in Seq(Int) /\ s # <<>> /\ NoOther(s)
      BY <3>9, OneGiven
    <3> HIDE DEF s
    <3>11. s \o u \in Seq(Int) /\ NoOther(s \o u) /\ s \o u # <<>>
      BY <3>7, <3>8, <3>10, Others, ConcatEqualIffEmpty, ConcatEmptySeq, ConcatProperties, EmptySeq
    <3>12. replies' = Tail(s \o u)
      BY <2>1 DEF s, u, l
    <3>13. replies' \in Seq(Int) /\ NoOther(replies)'
      BY <3>11, <3>12, OneRead DEF NoOther
    <3> QED
      BY <2>1, <3>13 DEF Invited, NoOther, LastOnly
  <2> QED
    BY <2>1, <2>2, <2>3, <2>4, <2>5 DEF IInv, InStepInv
<1> QED
  BY <1>0, <1>1, ClosedStep

LEMMA StepInv == IInv /\ [Next]_vars => IInv'
<1> SUFFICES ASSUME IInv, [Next]_vars PROVE IInv'
  OBVIOUS
<1>1. CASE Open
  BY <1>1, OpenStep
<1>2. CASE ClientGone
  <2>1. Closed /\ ListsType'
    BY <1>2 DEF ClientGone, IInv, TypeOK, ListsType
  <2> QED
    BY <2>1, ClosedStep
<1>3. CASE BackendGone
  <2>1. backend' \in Backends /\ backend'.at = "gone"
    BY <1>3, NewBackend DEF BackendGone, At
  <2>2. TypeOK' /\ (Cut => Cut') /\ (ClientInStep => ClientInStep')
    BY <1>3, <2>1 DEF BackendGone, IInv, TypeOK, Cut, CutShortBefore, ClientInStep, Agreed
  <2>3. Invited'
    BY <1>3 DEF BackendGone, IInv, Invited, NoOther, LastOnly
  <2> QED
    BY <1>3, <2>1, <2>2, <2>3 DEF BackendGone, IInv, InStepInv
<1>4. ASSUME NEW c \in Commands, Request(c) \/ Misread(c) PROVE IInv'
  BY <1>4, RequestStep, MisreadStep
<1>5. ASSUME NEW b \in Bodies, Mail(b) PROVE IInv'
  BY <1>5, MailStep
<1>6. CASE UNCHANGED vars
  <2>1. TypeOK' /\ (Cut => Cut') /\ (ClientInStep => ClientInStep')
    BY <1>6 DEF vars, IInv, TypeOK, Cut, CutShortBefore, ClientInStep, Agreed
  <2>2. Invited'
    BY <1>6 DEF vars, IInv, Invited, NoOther, LastOnly
  <2> QED
    BY <1>6, <2>1, <2>2 DEF vars, IInv, InStepInv
<1> QED
  BY <1>1, <1>2, <1>3, <1>4, <1>5, <1>6 DEF Next

(* The proxy and its backend are in step: whatever is refused, fails or     *)
(* vanishes, a mail is never taken for commands, neither by the backend nor *)
(* by the proxy.  The client is in step with both, and its transaction is   *)
(* the backend's, until it sends a mail that ends in a lone period.         *)
THEOREM StaysInStep == Spec => []InStep
<1>1. IInv => InStep
  <2>1. ASSUME IInv, client = "data" PROVE session = "body"
    BY <2>1 DEF IInv, Invited
  <2> QED
    BY <2>1 DEF IInv, InStepInv, InStep, Cut, ClientInStep, Agreed
<1> QED
  BY <1>1, InitInv, StepInv, PTL DEF Spec

-----------------------------------------------------------------------------
(* The mails taken and acknowledged.                                        *)

Lists ==
    /\ \A i \in 1 .. Len(accepted) :
         /\ accepted[i][1] \in 1 .. Len(mails)
         /\ SentInStep(accepted[i][1]) =>
              accepted[i][2] = Through(0, mails[accepted[i][1]].body)
    /\ \A i, j \in 1 .. Len(accepted) : accepted[i][1] = accepted[j][1] => i = j
    /\ \A a \in acked :
         /\ a[1] \in 1 .. Len(mails)
         /\ SentInStep(a[1]) =>
              \E i \in 1 .. Len(accepted) : accepted[i][1] = a[1] /\ accepted[i][3] = a[2]

LEMMA ListsInit == Init => Lists
<1> SUFFICES ASSUME Init PROVE Lists
  OBVIOUS
<1>1. accepted = <<>> /\ acked = {} /\ Len(accepted) = 0
  BY DEF Init
<1> QED
  BY <1>1 DEF Lists

LEMMA ListsKept ==
    ASSUME Lists, UNCHANGED <<mails, accepted, acked>>
    PROVE  Lists'
  BY DEF Lists, SentInStep, CutShortBefore

(* What was sent before mail b stays, and if it was sent in step it had     *)
(* been sent in step before.                                                *)
LEMMA ListsSent ==
    ASSUME IInv, NEW b \in Bodies, Mail(b), NEW x \in 1 .. Len(mails)
    PROVE  /\ x \in 1 .. Len(mails') /\ x # Len(mails')
           /\ mails'[x] = mails[x]
           /\ SentInStep(x)' => SentInStep(x)
<1>1. /\ Len(mails') = Len(mails) + 1 /\ Len(mails) \in Nat
      /\ \A k \in 1 .. Len(mails) : mails'[k] = mails[k]
  BY OneMoreMail
<1>2. SentInStep(x)' => SentInStep(x)
  BY SentSame
<1> QED
  BY <1>1, <1>2

(* The new mail, if the backend takes it.                                   *)
LEMMA ListsTook ==
    ASSUME IInv, NEW b \in Bodies, Mail(b), NEW n, n = Len(mails')
    PROVE  /\ n \in 1 .. n
           /\ Took(b)[1] = n /\ Took(b)[3] = backend.txn.rcpt
           /\ SentInStep(n)' => ~Cut /\ Took(b)[2] = Through(0, mails'[n].body)
<1>1. n \in 1 .. n /\ mails'[n].body = b
  <2>1. Len(mails') = Len(mails) + 1 /\ Len(mails) \in Nat
    BY OneMoreMail, Zenon
  <2>2. mails'[Len(mails')] = [body |-> b, session |-> sessions]
    BY OneMoreMail, Zenon
  <2> QED
    BY <2>1, <2>2
<1>2. SentInStep(n)' => ~Cut
  BY SentSame
<1>3. ~Cut => typed = 0
  BY DEF Mail, IInv, InStepInv, ClientInStep
<1>4. Took(b)[1] = n /\ Took(b)[2] = Through(typed, b) /\ Took(b)[3] = backend.txn.rcpt
  BY DEF Took
<1> QED
  BY <1>1, <1>2, <1>3, <1>4

LEMMA ListsMail ==
    ASSUME IInv, Lists, NEW b \in Bodies, Mail(b)
    PROVE  Lists'
<1>0. PICK n : n = Len(mails')
  OBVIOUS
<1> DEFINE k == Len(accepted)
           e == Took(b)
<1>1. /\ n \in 1 .. n /\ e[1] = n /\ e[3] = backend.txn.rcpt
      /\ SentInStep(n)' => ~Cut /\ e[2] = Through(0, mails'[n].body)
  BY <1>0, ListsTook
<1>2. accepted \in Seq(Taken) /\ e \in Taken /\ k \in Nat
  BY MailLists, LenProperties DEF IInv, TypeOK
<1>3. /\ accepted' = accepted \/ accepted' = Append(accepted, e)
      /\ acked' = acked \/ acked' = acked \cup {<<n, view.rcpt>>}
      /\ ~Cut /\ acked' # acked =>
           accepted' = Append(accepted, e) /\ view.rcpt = backend.txn.rcpt
  BY <1>0, MailLists
<1> HIDE DEF e
<1> DEFINE q == Len(accepted')
<1>4. /\ \A i \in 1 .. k : i \in 1 .. q /\ accepted'[i] = accepted[i]
      /\ \A i \in 1 .. q : i \in 1 .. k \/ (accepted'[i] = e /\ i = k + 1)
      /\ k + 1 \notin 1 .. k
      /\ accepted' = Append(accepted, e) => k + 1 \in 1 .. q /\ accepted'[k + 1] = e
  BY <1>2, <1>3, AppendProperties
<1>5. ASSUME NEW i \in 1 .. k, NEW x, x = accepted[i][1]
      PROVE  /\ x \in 1 .. n /\ x # n
             /\ SentInStep(x)' => accepted[i][2] = Through(0, mails'[x].body)
  <2>1. /\ x \in 1 .. Len(mails)
        /\ SentInStep(x) => accepted[i][2] = Through(0, mails[x].body)
    BY <1>5 DEF Lists
  <2> QED
    BY <1>0, <2>1, ListsSent
<1> HIDE DEF k, q
<1>6. ASSUME NEW i \in 1 .. q, NEW x, x = accepted'[i][1]
      PROVE  /\ x \in 1 .. n
             /\ SentInStep(x)' => accepted'[i][2] = Through(0, mails'[x].body)
  <2>1. CASE i \in 1 .. k
    BY <1>4, <1>5, <1>6, <2>1
  <2>2. CASE accepted'[i] = e
    BY <1>1, <1>6, <2>2
  <2> QED
    BY <1>4, <2>1, <2>2
<1>7. ASSUME NEW i \in 1 .. q, NEW j \in 1 .. q, accepted'[i][1] = accepted'[j][1]
      PROVE  i = j
  <2>1. CASE i \in 1 .. k /\ j \in 1 .. k
    BY <1>4, <1>7, <2>1 DEF Lists, k
  <2>2. \A m \in 1 .. k : accepted'[m][1] # n
    BY <1>4, <1>5
  <2> QED
    BY <1>1, <1>4, <1>7, <2>1, <2>2, Zenon
<1>8. ASSUME NEW a \in acked', NEW x, x = a[1]
      PROVE  /\ x \in 1 .. n
             /\ SentInStep(x)' => \E i \in 1 .. q : accepted'[i][1] = x /\ accepted'[i][3] = a[2]
  <2>1. CASE a \in acked
    <3>1. /\ x \in 1 .. Len(mails)
          /\ SentInStep(x) => \E i \in 1 .. k : accepted[i][1] = x /\ accepted[i][3] = a[2]
      BY <1>8, <2>1 DEF Lists, k
    <3>2. x \in 1 .. n /\ (SentInStep(x)' => SentInStep(x))
      BY <1>0, <3>1, ListsSent
    <3> QED
      BY <1>4, <3>1, <3>2
  <2>2. CASE a = <<n, view.rcpt>> /\ a \notin acked
    <3>1. x = n /\ a[2] = view.rcpt /\ acked' # acked
      BY <1>8, <2>2
    <3>2. ASSUME SentInStep(x)'
          PROVE  \E i \in 1 .. q : accepted'[i][1] = x /\ accepted'[i][3] = a[2]
      <4>1. ~Cut
        BY <1>1, <3>1, <3>2
      <4>2. accepted' = Append(accepted, e) /\ view.rcpt = backend.txn.rcpt
        BY <1>3, <3>1, <4>1
      <4>3. /\ k + 1 \in 1 .. q /\ accepted'[k + 1][1] = x
            /\ accepted'[k + 1][3] = a[2]
        BY <1>1, <1>4, <3>1, <4>2
      <4> HIDE DEF q
      <4> QED
        BY <4>3
    <3> QED
      BY <1>1, <3>1, <3>2
  <2> QED
    BY <1>3, <2>1, <2>2
<1>9. /\ \A i \in 1 .. q :
           /\ accepted'[i][1] \in 1 .. n
           /\ SentInStep(accepted[i][1])' =>
                accepted'[i][2] = Through(0, mails'[accepted'[i][1]].body)
      /\ \A i, j \in 1 .. q : accepted'[i][1] = accepted'[j][1] => i = j
      /\ \A a \in acked' :
           /\ a[1] \in 1 .. n
           /\ SentInStep(a[1])' =>
                \E i \in 1 .. q : accepted'[i][1] = a[1] /\ accepted'[i][3] = a[2]
  <2>1. ASSUME NEW i \in 1 .. q
        PROVE  /\ accepted'[i][1] \in 1 .. n
               /\ SentInStep(accepted[i][1])' =>
                    accepted'[i][2] = Through(0, mails'[accepted'[i][1]].body)
    <3>1. PICK x : x = accepted'[i][1]
      OBVIOUS
    <3>2. x \in 1 .. n /\ (SentInStep(x)' => accepted'[i][2] = Through(0, mails'[x].body))
      BY <1>6, <3>1
    <3> QED
      BY <3>1, <3>2 DEF SentInStep, CutShortBefore
  <2>2. ASSUME NEW a \in acked'
        PROVE  /\ a[1] \in 1 .. n
               /\ SentInStep(a[1])' =>
                    \E i \in 1 .. q : accepted'[i][1] = a[1] /\ accepted'[i][3] = a[2]
    <3>1. PICK x : x = a[1]
      OBVIOUS
    <3>2. /\ x \in 1 .. n
          /\ SentInStep(x)' => \E i \in 1 .. q : accepted'[i][1] = x /\ accepted'[i][3] = a[2]
      BY <1>8, <3>1
    <3> QED
      BY <3>1, <3>2 DEF SentInStep, CutShortBefore
  <2> QED
    BY <1>7, <2>1, <2>2
<1> QED
  BY <1>0, <1>9 DEF Lists, q

LEMMA ListsNext == IInv /\ Lists /\ [Next]_vars => Lists'
<1> SUFFICES ASSUME IInv, Lists, [Next]_vars PROVE Lists'
  OBVIOUS
<1>1. ASSUME NEW b \in Bodies, Mail(b) PROVE Lists'
  BY <1>1, ListsMail
<1>2. CASE UNCHANGED <<mails, accepted, acked>>
  BY <1>2, ListsKept
<1>3. CASE Open \/ ClientGone \/ BackendGone \/ UNCHANGED vars
  BY <1>2, <1>3 DEF Open, ClientGone, BackendGone, vars
<1>4. ASSUME NEW c \in Commands, Request(c) \/ Misread(c) PROVE Lists'
  BY <1>2, <1>4 DEF Request, Misread
<1> QED
  BY <1>1, <1>3, <1>4 DEF Next

(* A mail acknowledged to a client in step was taken by the backend, for    *)
(* the client's recipients and with the content that was sent, whatever its *)
(* length and its lines, and none is taken twice.                           *)
THEOREM AcknowledgedAsSent == Spec => []AcceptedAsSent
<1>1. ASSUME IInv, Lists PROVE AcceptedAsSent
  <2>1. DOMAIN accepted = 1 .. Len(accepted) /\ mails \in Seq(Sent)
    BY <1>1, LenProperties DEF IInv, TypeOK
  <2>2. ASSUME NEW i \in 1 .. Len(accepted), SentInStep(accepted[i][1])
        PROVE  \/ EndsInPeriodLine(mails[accepted[i][1]].body)
               \/ accepted[i][2] = Content(mails[accepted[i][1]].body)
    <3>1. /\ accepted[i][1] \in 1 .. Len(mails)
          /\ accepted[i][2] = Through(0, mails[accepted[i][1]].body)
      BY <1>1, <2>2 DEF Lists
    <3>2. mails[accepted[i][1]].body \in Bodies
      <4>1. mails[accepted[i][1]] \in Sent
        BY <2>1, <3>1, ElementOfSeq, Zenon
      <4> QED
        BY <4>1 DEF Sent
    <3> QED
      BY <3>1, <3>2, MailComesThrough
  <2>3. ContentKept
    BY <2>1, <2>2 DEF ContentKept
  <2> QED
    BY <1>1, <2>1, <2>3, Zenon DEF Lists, AcceptedAsSent
<1>2. IInv /\ Lists => AcceptedAsSent
  BY <1>1
<1>3. Init => IInv /\ Lists
  BY InitInv, ListsInit
<1>4. (IInv /\ Lists) /\ [Next]_vars => (IInv /\ Lists)'
  BY StepInv, ListsNext
<1> QED
  BY <1>2, <1>3, <1>4, PTL DEF Spec
=============================================================================
