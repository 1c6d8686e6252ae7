-------------------------- MODULE PacketStream_proofs --------------------------
(***************************************************************************)
(* Proofs about PacketStream, for any messages and any serializer whose    *)
(* packets can be told apart in a stream, and about the compact            *)
(* serializer: its packets can be told apart, and are read as they were    *)
(* written.                                                                *)
(***************************************************************************)
EXTENDS PacketStream, CompactSerializer, SequenceTheorems, WellFoundedInduction, TLAPS

(* What the stream needs of the serializer: the length of a packet is known *)
(* from the packet whatever follows it, a packet that is not complete is    *)
(* not taken for one, and reading gives what was written.                   *)
Framing ==
    /\ PacketLength(<<>>) = 0
    /\ \A m \in Messages :
         /\ \A s \in Seq(Bytes) : PacketLength(Wire[m] \o s) = Len(Wire[m])
         /\ \A k \in 0 .. Len(Wire[m]) - 1 :
              LET n == PacketLength(SubSeq(Wire[m], 1, k)) IN n = 0 \/ ~(n <= k)
         /\ Read(Wire[m]) = Returned(m)

-----------------------------------------------------------------------------
(* Sequences.                                                               *)

LEMMA WireType ==
    ASSUME NEW m \in Messages
    PROVE  /\ Wire[m] \in Seq(Bytes) /\ Len(Wire[m]) \in Nat \ {0}
  BY WireAssumption, EmptySeq

LEMMA Prefix ==
    ASSUME NEW S, NEW s \in Seq(S), NEW n \in Nat, n <= Len(s)
    PROVE  /\ SubSeq(s, 1, n) \in Seq(S) /\ Len(SubSeq(s, 1, n)) = n
           /\ \A i \in 1 .. n : SubSeq(s, 1, n)[i] = s[i]
<1>1. Len(s) \in Nat /\ \A i \in 1 .. n : s[i] \in S
  BY ElementOfSeq, LenProperties
<1>2. /\ SubSeq(s, 1, n) \in Seq(S)
      /\ Len(SubSeq(s, 1, n)) = IF 1 <= n THEN n - 1 + 1 ELSE 0
      /\ \A i \in 1 .. n - 1 + 1 : SubSeq(s, 1, n)[i] = s[1 + i - 1]
  BY <1>1, SubSeqProperties
<1> QED
  BY <1>2

LEMMA Suffix ==
    ASSUME NEW S, NEW s \in Seq(S), NEW n \in Nat, n <= Len(s)
    PROVE  /\ SubSeq(s, n + 1, Len(s)) \in Seq(S)
           /\ Len(SubSeq(s, n + 1, Len(s))) = Len(s) - n
           /\ \A i \in 1 .. Len(s) - n : SubSeq(s, n + 1, Len(s))[i] = s[n + i]
<1>1. Len(s) \in Nat /\ \A i \in n + 1 .. Len(s) : s[i] \in S
  BY ElementOfSeq, LenProperties
<1>2. /\ SubSeq(s, n + 1, Len(s)) \in Seq(S)
      /\ Len(SubSeq(s, n + 1, Len(s))) = IF n + 1 <= Len(s) THEN Len(s) - (n + 1) + 1 ELSE 0
      /\ \A i \in 1 .. Len(s) - (n + 1) + 1 :
           SubSeq(s, n + 1, Len(s))[i] = s[n + 1 + i - 1]
  BY <1>1, SubSeqProperties
<1>3. \A i \in 1 .. Len(s) - n : i \in 1 .. Len(s) - (n + 1) + 1 /\ n + 1 + i - 1 = n + i
  BY <1>1
<1>4. Len(SubSeq(s, n + 1, Len(s))) = Len(s) - n
  BY <1>1, <1>2
<1> QED
  BY <1>2, <1>3, <1>4

(* A sequence is its first n elements and the others.                       *)
LEMMA Split ==
    ASSUME NEW S, NEW s \in Seq(S), NEW n \in Nat, n <= Len(s)
    PROVE  s = SubSeq(s, 1, n) \o SubSeq(s, n + 1, Len(s))
<1> DEFINE a == SubSeq(s, 1, n)
           b == SubSeq(s, n + 1, Len(s))
<1>1. /\ a \in Seq(S) /\ Len(a) = n /\ \A i \in 1 .. n : a[i] = s[i]
  BY Prefix
<1>2. /\ b \in Seq(S) /\ Len(b) = Len(s) - n /\ \A i \in 1 .. Len(s) - n : b[i] = s[n + i]
  BY Suffix
<1>3. Len(s) \in Nat
  BY LenProperties
<1> HIDE DEF a, b
<1>4. /\ a \o b \in Seq(S) /\ Len(a \o b) = Len(a) + Len(b)
      /\ \A i \in 1 .. Len(a) + Len(b) :
           (a \o b)[i] = IF i <= Len(a) THEN a[i] ELSE b[i - Len(a)]
  BY <1>1, <1>2, ConcatProperties
<1>5. Len(a \o b) = Len(s)
  BY <1>1, <1>2, <1>3, <1>4
<1>6. ASSUME NEW i \in 1 .. Len(s) PROVE s[i] = (a \o b)[i]
  <2>1. (a \o b)[i] = IF i <= n THEN a[i] ELSE b[i - n]
    BY <1>1, <1>2, <1>3, <1>4
  <2>2. CASE i <= n
    BY <1>1, <2>1, <2>2
  <2>3. CASE ~(i <= n)
    <3>1. i - n \in 1 .. Len(s) - n /\ n + (i - n) = i
      BY <1>3, <2>3
    <3> QED
      BY <1>2, <2>1, <2>3, <3>1
  <2> QED
    BY <2>2, <2>3
<1>7. s = a \o b
  BY <1>4, <1>5, <1>6, SeqEqual
<1> QED
  BY <1>7 DEF a, b

(* Two ways to cut a stream in two: what the longer first part begins with. *)
LEMMA LongerPart ==
    ASSUME NEW S, NEW a \in Seq(S), NEW b \in Seq(S), NEW c \in Seq(S), NEW d \in Seq(S),
           a \o b = c \o d, Len(c) <= Len(a)
    PROVE  SubSeq(a, 1, Len(c)) = c
<1> DEFINE n == Len(c)
           h == SubSeq(a, 1, n)
<1>1. n \in Nat /\ Len(a) \in Nat
  BY LenProperties
<1>2. h \in Seq(S) /\ Len(h) = n /\ \A i \in 1 .. n : h[i] = a[i]
  BY <1>1, Prefix
<1>3. \A i \in 1 .. n : (a \o b)[i] = a[i] /\ (c \o d)[i] = c[i]
  <2>1. \A i \in 1 .. n : i \in 1 .. Len(a) + Len(b) /\ i \in 1 .. Len(c) + Len(d) /\ i <= Len(a)
                         /\ i <= Len(c)
    <3>1. Len(b) \in Nat /\ Len(d) \in Nat
      BY LenProperties
    <3> QED
      BY <1>1, <3>1
  <2>2. \A i \in 1 .. Len(a) + Len(b) : (a \o b)[i] = IF i <= Len(a) THEN a[i] ELSE b[i - Len(a)]
    BY ConcatProperties
  <2>3. \A i \in 1 .. Len(c) + Len(d) : (c \o d)[i] = IF i <= Len(c) THEN c[i] ELSE d[i - Len(c)]
    BY ConcatProperties
  <2> HIDE DEF n
  <2> QED
    BY <2>1, <2>2, <2>3
<1>4. h = c
  <2>1. \A i \in 1 .. n : h[i] = c[i]
    BY <1>2, <1>3
  <2> HIDE DEF h
  <2> QED
    BY <1>2, <2>1, SeqEqual
<1> QED
  BY <1>4

LEMMA ShorterPart ==
    ASSUME NEW S, NEW a \in Seq(S), NEW b \in Seq(S), NEW c \in Seq(S), NEW d \in Seq(S),
           a \o b = c \o d, Len(a) <= Len(c)
    PROVE  a = SubSeq(c, 1, Len(a))
<1>1. \A x, y, z, w \in Seq(S) : x \o y = z \o w /\ Len(z) <= Len(x) => SubSeq(x, 1, Len(z)) = z
  <2> TAKE x, y, z, w \in Seq(S)
  <2> HAVE x \o y = z \o w /\ Len(z) <= Len(x)
  <2> QED
    BY LongerPart
<1> QED
  BY <1>1

LEMMA Associates ==
    ASSUME NEW S, NEW z \in Seq(S)
    PROVE  \A x, y \in Seq(S) : (x \o y) \o z = x \o (y \o z)
<1> TAKE x, y \in Seq(S)
<1> QED
  BY ConcatAssociative

(* A beginning of a beginning is a beginning.                               *)
LEMMA PrefixOfPrefix ==
    ASSUME NEW S, NEW s \in Seq(S), NEW n \in Nat, n <= Len(s), NEW k \in Nat, k <= n
    PROVE  SubSeq(SubSeq(s, 1, n), 1, k) = SubSeq(s, 1, k)
<1> DEFINE h == SubSeq(s, 1, n)
<1>1. Len(s) \in Nat /\ k <= Len(s)
  BY LenProperties
<1>2. h \in Seq(S) /\ Len(h) = n /\ \A i \in 1 .. n : h[i] = s[i]
  BY Prefix
<1> HIDE DEF h
<1> DEFINE p == SubSeq(h, 1, k)
           q == SubSeq(s, 1, k)
<1>3. p \in Seq(S) /\ Len(p) = k /\ \A i \in 1 .. k : p[i] = h[i]
  BY <1>2, Prefix
<1>4. q \in Seq(S) /\ Len(q) = k /\ \A i \in 1 .. k : q[i] = s[i]
  BY <1>1, Prefix
<1> HIDE DEF p, q
<1>5. \A i \in 1 .. k : i \in 1 .. n
  OBVIOUS
<1>6. \A i \in 1 .. k : p[i] = q[i]
  BY <1>2, <1>3, <1>4, <1>5
<1>7. p = q
  BY <1>3, <1>4, <1>6, SeqEqual
<1> QED
  BY <1>7 DEF p, q, h

-----------------------------------------------------------------------------
(* The stream.                                                              *)

(* The beginning of a packet that a write was stopped in.                   *)
Stump(t) ==
    \/ t = <<>>
    \/ \E m \in Messages : \E k \in 0 .. Len(Wire[m]) - 1 : t = SubSeq(Wire[m], 1, k)

(* The bytes b not read yet are the packets of the messages of s from the   *)
(* one after the r-th on, and of a stump at the end when w, the writer's    *)
(* stream being open, is false.  S[i] is what follows the i-th packet.      *)
Framed(S, s, r, b, w) ==
    /\ S \in [Nat -> Seq(Bytes)]
    /\ b = S[r]
    /\ \A i \in r .. Len(s) - 1 : S[i] = Wire[s[i + 1]] \o S[i + 1]
    /\ Stump(S[Len(s)])
    /\ w => S[Len(s)] = <<>>

(* A piece appended to the stream goes to the end of each S[i].             *)
LEMMA FramedWrite ==
    ASSUME NEW S, NEW s \in Seq(Messages), NEW r \in Nat, r <= Len(s), NEW b,
           Framed(S, s, r, b, TRUE), NEW m \in Messages
    PROVE  \E T : Framed(T, Append(s, m), r, b \o Wire[m], TRUE)
<1> DEFINE n == Len(s)
           s2 == Append(s, m)
           T == [i \in Nat |-> IF i <= n THEN S[i] \o Wire[m] ELSE <<>>]
<1>1. n \in Nat
  BY LenProperties
<1>2. Wire[m] \in Seq(Bytes)
  BY WireType
<1>3. /\ S \in [Nat -> Seq(Bytes)]
      /\ b = S[r]
      /\ \A i \in r .. n - 1 : S[i] = Wire[s[i + 1]] \o S[i + 1]
      /\ S[n] = <<>>
  BY DEF Framed
<1>4. /\ s2 \in Seq(Messages) /\ Len(s2) = n + 1
      /\ \A i \in 1 .. n : s2[i] = s[i]
      /\ s2[n + 1] = m
  BY AppendProperties
<1> HIDE DEF n, s2
<1>5. T \in [Nat -> Seq(Bytes)]
  <2>1. \A i \in Nat : S[i] \o Wire[m] \in Seq(Bytes)
    BY <1>2, <1>3, ConcatProperties
  <2> QED
    BY <2>1, EmptySeq
<1>6. b \o Wire[m] = T[r]
  BY <1>3 DEF n
<1>7. ASSUME NEW i \in r .. n PROVE T[i] = Wire[s2[i + 1]] \o T[i + 1]
  <2>0. i \in Nat /\ i + 1 \in Nat /\ i <= n
    BY <1>1
  <2>1. CASE i < n
    <3>1. i \in r .. n - 1 /\ i + 1 \in 1 .. n /\ i + 1 <= n
      BY <1>1, <2>0, <2>1
    <3>2. s[i + 1] \in Messages
      BY <3>1, ElementOfSeq DEF n
    <3>3. Wire[s[i + 1]] \in Seq(Bytes) /\ S[i + 1] \in Seq(Bytes)
      BY <1>3, <2>0, <3>2, WireType
    <3>4. (Wire[s[i + 1]] \o S[i + 1]) \o Wire[m] = Wire[s[i + 1]] \o (S[i + 1] \o Wire[m])
      <4>1. \A x, y \in Seq(Bytes) : (x \o y) \o Wire[m] = x \o (y \o Wire[m])
        BY <1>2, Associates
      <4> QED
        BY <3>3, <4>1, Zenon
    <3>5. T[i] = S[i] \o Wire[m] /\ T[i + 1] = S[i + 1] \o Wire[m]
      BY <2>0, <3>1
    <3>6. S[i] = Wire[s[i + 1]] \o S[i + 1] /\ s2[i + 1] = s[i + 1]
      BY <1>3, <1>4, <3>1
    <3> HIDE DEF T
    <3> QED
      BY <3>4, <3>5, <3>6
  <2>2. CASE i = n
    <3>1. T[i] = S[n] \o Wire[m] /\ T[i + 1] = <<>> /\ s2[i + 1] = m
      <4>1. n <= n /\ ~(n + 1 <= n) /\ n + 1 \in Nat
        BY <1>1
      <4>2. T[n] = S[n] \o Wire[m] /\ T[n + 1] = <<>>
        BY <1>1, <4>1
      <4> HIDE DEF T
      <4> QED
        BY <1>4, <2>2, <4>2
    <3>2. <<>> \o Wire[m] = Wire[m] /\ Wire[m] \o <<>> = Wire[m]
      BY <1>2, ConcatEmptySeq
    <3> HIDE DEF T
    <3> QED
      BY <1>3, <3>1, <3>2
  <2> HIDE DEF T
  <2>3. i < n \/ i = n
    BY <1>1, <2>0
  <2> QED
    BY <2>1, <2>2, <2>3
<1>8. T[n + 1] = <<>>
  BY <1>1
<1> HIDE DEF T
<1>9. Framed(T, s2, r, b \o Wire[m], TRUE)
  <2>1. \A i \in r .. Len(s2) - 1 : T[i] = Wire[s2[i + 1]] \o T[i + 1]
    <3>1. Len(s2) - 1 = n
      BY <1>1, <1>4
    <3>2. \A i \in r .. n : T[i] = Wire[s2[i + 1]] \o T[i + 1]
      BY <1>7
    <3> QED
      BY <3>1, <3>2, Zenon
  <2>2. T[Len(s2)] = <<>>
    BY <1>4, <1>8
  <2> QED
    BY <1>5, <1>6, <2>1, <2>2 DEF Framed, Stump
<1> QED
  BY <1>9 DEF s2

LEMMA FramedShort ==
    ASSUME NEW S, NEW s \in Seq(Messages), NEW r \in Nat, r <= Len(s), NEW b,
           Framed(S, s, r, b, TRUE), NEW m \in Messages, NEW k \in Nat, k < Len(Wire[m])
    PROVE  \E T : Framed(T, s, r, b \o SubSeq(Wire[m], 1, k), FALSE)
<1> DEFINE n == Len(s)
           p == SubSeq(Wire[m], 1, k)
           T == [i \in Nat |-> S[i] \o p]
<1>1. n \in Nat
  BY LenProperties
<1>2. p \in Seq(Bytes) /\ k \in 0 .. Len(Wire[m]) - 1
  BY WireType, Prefix
<1>3. /\ S \in [Nat -> Seq(Bytes)]
      /\ b = S[r]
      /\ \A i \in r .. n - 1 : S[i] = Wire[s[i + 1]] \o S[i + 1]
      /\ S[n] = <<>>
  BY DEF Framed
<1>4. Stump(p)
  BY <1>2 DEF Stump
<1> HIDE DEF n, p
<1>5. T \in [Nat -> Seq(Bytes)]
  <2>1. \A i \in Nat : S[i] \o p \in Seq(Bytes)
    BY <1>2, <1>3, ConcatProperties
  <2> QED
    BY <2>1
<1>6. b \o p = T[r]
  BY <1>3
<1>7. ASSUME NEW i \in r .. n - 1 PROVE T[i] = Wire[s[i + 1]] \o T[i + 1]
  <2>1. i \in Nat /\ i + 1 \in 1 .. n /\ i + 1 \in Nat
    BY <1>1
  <2>2. s[i + 1] \in Messages
    BY <2>1, ElementOfSeq DEF n
  <2>3. Wire[s[i + 1]] \in Seq(Bytes) /\ S[i + 1] \in Seq(Bytes)
    BY <1>3, <2>1, <2>2, WireType
  <2>4. (Wire[s[i + 1]] \o S[i + 1]) \o p = Wire[s[i + 1]] \o (S[i + 1] \o p)
    <3>1. \A x, y \in Seq(Bytes) : (x \o y) \o p = x \o (y \o p)
      BY <1>2, Associates
    <3> QED
      BY <2>3, <3>1, Zenon
  <2>5. T[i] = S[i] \o p /\ T[i + 1] = S[i + 1] \o p
    BY <2>1
  <2> HIDE DEF T
  <2> QED
    BY <1>3, <2>4, <2>5
<1>8. T[n] = p
  <2>1. T[n] = <<>> \o p
    BY <1>1, <1>3
  <2> QED
    BY <1>2, <2>1, ConcatEmptySeq
<1> HIDE DEF T
<1>9. Framed(T, s, r, b \o p, FALSE)
  BY <1>4, <1>5, <1>6, <1>7, <1>8 DEF Framed, n
<1> QED
  BY <1>9 DEF p

(* What packet_read takes for a whole packet.                               *)
Whole(a) == PacketLength(a) # 0 /\ PacketLength(a) <= Len(a)

LEMMA CutIsNotWhole ==
    ASSUME Framing, NEW m \in Messages, NEW k \in Nat, k < Len(Wire[m])
    PROVE  ~Whole(SubSeq(Wire[m], 1, k))
<1>1. Wire[m] \in Seq(Bytes) /\ Len(Wire[m]) \in Nat
  BY WireType
<1>2. Len(SubSeq(Wire[m], 1, k)) = k
  BY <1>1, Prefix
<1>3. k \in 0 .. Len(Wire[m]) - 1
  BY <1>1
<1>4. PacketLength(SubSeq(Wire[m], 1, k)) = 0 \/ ~(PacketLength(SubSeq(Wire[m], 1, k)) <= k)
  BY <1>3, Zenon DEF Framing
<1> QED
  BY <1>2, <1>4 DEF Whole

LEMMA StumpIsNotWhole ==
    ASSUME Framing, NEW a \in Seq(Bytes), NEW b \in Seq(Bytes), Stump(a \o b)
    PROVE  ~Whole(a)
<1>1. Len(a) \in Nat /\ Len(b) \in Nat /\ Len(a \o b) = Len(a) + Len(b)
  BY LenProperties, ConcatProperties
<1>2. CASE a \o b = <<>>
  <2>1. a = <<>>
    BY <1>2, ConcatSimplifications
  <2> QED
    BY <2>1 DEF Framing, Whole
<1>3. CASE \E m \in Messages : \E k \in 0 .. Len(Wire[m]) - 1 : a \o b = SubSeq(Wire[m], 1, k)
  <2>1. PICK m \in Messages : \E k \in 0 .. Len(Wire[m]) - 1 : a \o b = SubSeq(Wire[m], 1, k)
    BY <1>3
  <2>2. PICK k \in 0 .. Len(Wire[m]) - 1 : a \o b = SubSeq(Wire[m], 1, k)
    BY <2>1
  <2>3. Wire[m] \in Seq(Bytes) /\ Len(Wire[m]) \in Nat /\ k \in Nat /\ k < Len(Wire[m])
    BY WireType
  <2> DEFINE t == SubSeq(Wire[m], 1, k)
  <2>4. t \in Seq(Bytes) /\ Len(t) = k
    BY <2>3, Prefix
  <2>5. a \o b = t
    BY <2>2
  <2> HIDE DEF t
  <2>6. <<>> \in Seq(Bytes) /\ t \o <<>> = t
    BY <2>4, EmptySeq, ConcatEmptySeq
  <2>7. Len(a) <= k
    BY <1>1, <2>4, <2>5
  <2>8. a = SubSeq(t, 1, Len(a))
    BY <2>4, <2>5, <2>6, <2>7, ShorterPart
  <2>9. SubSeq(t, 1, Len(a)) = SubSeq(Wire[m], 1, Len(a))
    BY <1>1, <2>3, <2>7, PrefixOfPrefix DEF t
  <2>10. Len(a) < Len(Wire[m])
    BY <1>1, <2>3, <2>7
  <2>11. ~Whole(SubSeq(Wire[m], 1, Len(a)))
    BY <1>1, <2>10, CutIsNotWhole
  <2> QED
    BY <2>8, <2>9, <2>11
<1> QED
  BY <1>2, <1>3 DEF Stump

(* A whole packet at the head of the stream is that of the next message.    *)
LEMMA FramedRead ==
    ASSUME Framing, NEW S, NEW s \in Seq(Messages), NEW r \in Nat, r <= Len(s),
           NEW a \in Seq(Bytes), NEW b \in Seq(Bytes), NEW w, Framed(S, s, r, a \o b, w),
           Whole(a)
    PROVE  LET p == Wire[s[r + 1]]
               t == SubSeq(a, Len(p) + 1, Len(a))
           IN  /\ r < Len(s)
               /\ PacketLength(a) = Len(p)
               /\ SubSeq(a, 1, Len(p)) = p
               /\ t \in Seq(Bytes)
               /\ Framed(S, s, r + 1, t \o b, w)
<1> DEFINE n == Len(s)
           m == s[r + 1]
           p == Wire[m]
           t == SubSeq(a, Len(p) + 1, Len(a))
<1>1. n \in Nat /\ Len(a) \in Nat
  BY LenProperties
<1>2. /\ S \in [Nat -> Seq(Bytes)]
      /\ a \o b = S[r]
      /\ \A i \in r .. n - 1 : S[i] = Wire[s[i + 1]] \o S[i + 1]
      /\ Stump(S[n])
      /\ w => S[n] = <<>>
  BY DEF Framed
<1>3. r < n
  <2>1. r # n
    BY <1>2, StumpIsNotWhole
  <2> QED
    BY <1>1, <2>1
<1>4. m \in Messages
  <2>1. r + 1 \in 1 .. n
    BY <1>1, <1>3
  <2> QED
    BY <2>1, ElementOfSeq
<1>5. p \in Seq(Bytes) /\ Len(p) \in Nat
  BY <1>4, WireType
<1>6. S[r + 1] \in Seq(Bytes) /\ a \o b = p \o S[r + 1]
  <2>1. r \in r .. n - 1 /\ r + 1 \in Nat
    BY <1>1, <1>3
  <2> QED
    BY <1>2, <2>1
<1> DEFINE q == S[r + 1]
<1>7. q \in Seq(Bytes) /\ a \o b = p \o q
  BY <1>6
<1> HIDE DEF p, q
<1>8. Len(p) <= Len(a)
  <2>1. SUFFICES ASSUME Len(a) < Len(p) PROVE FALSE
    BY <1>1, <1>5
  <2>2. Len(a) <= Len(p)
    BY <1>1, <1>5, <2>1
  <2>3. a = SubSeq(p, 1, Len(a))
    BY <1>5, <1>7, <2>2, ShorterPart
  <2>4. ~Whole(SubSeq(p, 1, Len(a)))
    BY <1>1, <1>4, <2>1, CutIsNotWhole DEF p
  <2> QED
    BY <2>3, <2>4
<1>9. SubSeq(a, 1, Len(p)) = p
  BY <1>5, <1>7, <1>8, LongerPart
<1>10. t \in Seq(Bytes) /\ a = p \o t
  <2>1. /\ t \in Seq(Bytes)
        /\ a = SubSeq(a, 1, Len(p)) \o t
    BY <1>5, <1>8, Suffix, Split
  <2> HIDE DEF t
  <2> QED
    BY <1>9, <2>1
<1> HIDE DEF t
<1>11. t \o b = q
  <2>0. b \in Seq(Bytes)
    OBVIOUS
  <2>a. \A x, y \in Seq(Bytes) : (x \o y) \o b = x \o (y \o b)
    BY <2>0, Associates
  <2>1. (p \o t) \o b = p \o (t \o b)
    BY <1>5, <1>10, <2>a, Zenon
  <2>2. p \o (t \o b) = p \o q
    BY ONLY <1>7, <1>10, <2>1
  <2>3. t \o b \in Seq(Bytes)
    BY <1>10, ConcatProperties
  <2> QED
    BY <1>5, <1>7, <2>2, <2>3, ConcatSimplifications
<1>12. PacketLength(p \o t) = Len(p)
  BY <1>4, <1>10, Zenon DEF Framing, p
<1>13. PacketLength(a) = Len(p)
  BY <1>10, <1>12
<1>14. Framed(S, s, r + 1, t \o b, w)
  <2>1. t \o b = S[r + 1]
    BY <1>11 DEF q
  <2>2. \A i \in r + 1 .. n - 1 : S[i] = Wire[s[i + 1]] \o S[i + 1]
    <3>1. \A i \in r + 1 .. n - 1 : i \in r .. n - 1
      BY <1>1
    <3> QED
      BY <1>2, <3>1, Zenon
  <2> QED
    BY <1>2, <2>1, <2>2 DEF Framed
<1> QED
  BY <1>3, <1>9, <1>10, <1>13, <1>14 DEF t, p

-----------------------------------------------------------------------------
(* The invariant.                                                           *)

Results == {Read(s) : s \in Seq(Bytes)}

(* While the reader's stream is open, what is in its buffer and on the way  *)
(* is the packets of the messages not read yet, and a stump.                *)
Stream ==
    reading => \E S : Framed(S, sent, Len(received), read_buffer \o transit, writing)

IInv == TypeOK /\ DeliveredExactly /\ Stream

LEMMA InitInv == Init => IInv
<1> SUFFICES ASSUME Init PROVE IInv
  OBVIOUS
<1>1. TypeOK
  BY EmptySeq DEF Init, TypeOK
<1>2. DeliveredExactly
  BY EmptySeq DEF Init, DeliveredExactly
<1>3. Stream
  <2> DEFINE S == [i \in Nat |-> <<>>]
  <2>1. S \in [Nat -> Seq(Bytes)] /\ S[0] = <<>>
    BY EmptySeq
  <2>2. Len(<<>>) = 0 /\ <<>> \o <<>> = <<>>
    BY EmptySeq, ConcatEmptySeq
  <2>3. \A i \in 0 .. 0 - 1 : FALSE
    OBVIOUS
  <2> HIDE DEF S
  <2>4. Framed(S, <<>>, 0, <<>>, TRUE)
    BY <2>1, <2>2, <2>3 DEF Framed, Stump
  <2>5. \E T : Framed(T, sent, Len(received), read_buffer \o transit, writing)
    BY <2>2, <2>4 DEF Init
  <2> QED
    BY <2>5 DEF Stream
<1> QED
  BY <1>1, <1>2, <1>3 DEF IInv

(* What a write leaves as it was, and what it appends.                      *)
LEMMA WriteStep ==
    ASSUME IInv, NEW m \in Messages, Write(m)
    PROVE  IInv'
<1>0. Wire[m] \in Seq(Bytes)
  BY WireType
<1>1. /\ sent' = Append(sent, m) /\ transit' = transit \o Wire[m]
      /\ writing /\ UNCHANGED <<writing, reading, read_buffer, received>>
  BY DEF Write
<1>2. /\ Len(sent) \in Nat /\ Len(sent') = Len(sent) + 1
      /\ \A i \in 1 .. Len(sent) : sent'[i] = sent[i]
      /\ sent' \in Seq(Messages)
  BY <1>1, AppendProperties, LenProperties DEF IInv, TypeOK
<1>3. TypeOK'
  <2>1. transit' \in Seq(Bytes)
    BY <1>0, <1>1, ConcatProperties DEF IInv, TypeOK
  <2> QED
    BY <1>1, <1>2, <2>1 DEF IInv, TypeOK
<1>4. Len(received) \in Nat /\ Len(received) <= Len(sent)
  BY LenProperties DEF IInv, TypeOK, DeliveredExactly
<1>5. DeliveredExactly'
  <2>1. \A i \in 1 .. Len(received) : i \in 1 .. Len(sent)
    BY <1>2, <1>4
  <2>2. \A i \in 1 .. Len(received) : received[i] = Returned(sent'[i])
    BY <1>2, <2>1 DEF IInv, DeliveredExactly
  <2>3. Len(received) <= Len(sent')
    BY <1>2, <1>4
  <2> QED
    BY <1>1, <2>2, <2>3 DEF DeliveredExactly
<1>6. Stream'
  <2> SUFFICES ASSUME reading PROVE Stream'
    BY <1>1 DEF Stream
  <2>1. writing = TRUE
    BY <1>1 DEF IInv, TypeOK
  <2>2. PICK S : Framed(S, sent, Len(received), read_buffer \o transit, TRUE)
    BY <2>1 DEF IInv, Stream
  <2>3. sent \in Seq(Messages) /\ read_buffer \in Seq(Bytes) /\ transit \in Seq(Bytes)
    BY DEF IInv, TypeOK
  <2>4. \E T : Framed(T, Append(sent, m), Len(received), (read_buffer \o transit) \o Wire[m], TRUE)
    BY <1>4, <2>2, <2>3, FramedWrite
  <2>5. (read_buffer \o transit) \o Wire[m] = read_buffer \o (transit \o Wire[m])
    <3>1. \A x, y \in Seq(Bytes) : (x \o y) \o Wire[m] = x \o (y \o Wire[m])
      BY <1>0, Associates
    <3> QED
      BY <2>3, <3>1, Zenon
  <2>6. \E T : Framed(T, sent', Len(received'), read_buffer' \o transit', writing')
    BY <1>1, <2>1, <2>4, <2>5
  <2> QED
    BY <2>6 DEF Stream
<1> QED
  BY <1>3, <1>5, <1>6 DEF IInv

LEMMA ShortWriteStep ==
    ASSUME IInv, NEW m \in Messages, NEW n \in CutPoints(m), ShortWrite(m, n)
    PROVE  IInv'
<1>1. n \in Nat /\ n < Len(Wire[m])
  BY WireType DEF ShortWrite, CutPoints
<1> DEFINE p == SubSeq(Wire[m], 1, n)
<1>2. p \in Seq(Bytes)
  BY <1>1, WireType, Prefix
<1>3. /\ transit' = transit \o p /\ writing /\ writing' = FALSE
      /\ UNCHANGED <<sent, reading, read_buffer, received>>
  BY DEF ShortWrite, AfterShortWrite
<1>4. TypeOK'
  <2>1. transit' \in Seq(Bytes)
    BY <1>2, <1>3, ConcatProperties DEF IInv, TypeOK
  <2> HIDE DEF p
  <2> QED
    BY <1>3, <2>1 DEF IInv, TypeOK
<1>5. DeliveredExactly'
  BY <1>3 DEF IInv, DeliveredExactly
<1>6. Stream'
  <2> SUFFICES ASSUME reading PROVE Stream'
    BY <1>3 DEF Stream
  <2>1. writing = TRUE
    BY <1>3 DEF IInv, TypeOK
  <2>2. PICK S : Framed(S, sent, Len(received), read_buffer \o transit, TRUE)
    BY <2>1 DEF IInv, Stream
  <2>3. /\ sent \in Seq(Messages) /\ read_buffer \in Seq(Bytes) /\ transit \in Seq(Bytes)
        /\ Len(received) \in Nat /\ Len(received) <= Len(sent)
    BY LenProperties DEF IInv, TypeOK, DeliveredExactly
  <2>4. \E T : Framed(T, sent, Len(received), (read_buffer \o transit) \o p, FALSE)
    BY <1>1, <2>2, <2>3, FramedShort
  <2> HIDE DEF p
  <2>5. (read_buffer \o transit) \o p = read_buffer \o (transit \o p)
    BY <1>2, <2>3, ConcatAssociative
  <2>6. \E T : Framed(T, sent', Len(received'), read_buffer' \o transit', writing')
    BY <1>3, <2>4, <2>5
  <2> QED
    BY <2>6 DEF Stream
<1> QED
  BY <1>4, <1>5, <1>6 DEF IInv

LEMMA CloseStep == IInv /\ Close => IInv'
<1> SUFFICES ASSUME IInv, Close PROVE IInv'
  OBVIOUS
<1>1. writing' = FALSE /\ UNCHANGED <<sent, transit, reading, read_buffer, received>>
  BY DEF Close
<1>2. TypeOK' /\ DeliveredExactly'
  BY <1>1 DEF IInv, TypeOK, DeliveredExactly
<1>3. Stream'
  <2> SUFFICES ASSUME reading PROVE Stream'
    BY <1>1 DEF Stream
  <2>1. PICK S : Framed(S, sent, Len(received), read_buffer \o transit, writing)
    BY DEF IInv, Stream
  <2>2. Framed(S, sent, Len(received), read_buffer \o transit, FALSE)
    BY <2>1 DEF Framed
  <2>3. \E T : Framed(T, sent', Len(received'), read_buffer' \o transit', writing')
    BY <1>1, <2>2
  <2> QED
    BY <2>3 DEF Stream
<1> QED
  BY <1>2, <1>3 DEF IInv

(* packet_read takes the packet of the next message.                        *)
LEMMA ReadStep == Framing /\ IInv /\ PacketRead => IInv'
<1> SUFFICES ASSUME Framing, IInv, PacketRead PROVE IInv'
  OBVIOUS
<1> DEFINE r == Len(received)
           p == Wire[sent[r + 1]]
           t == SubSeq(read_buffer, Len(p) + 1, Len(read_buffer))
<1>1. /\ sent \in Seq(Messages) /\ read_buffer \in Seq(Bytes) /\ transit \in Seq(Bytes)
      /\ received \in Seq(Results)
      /\ r \in Nat /\ r <= Len(sent) /\ Len(sent) \in Nat
  BY LenProperties DEF IInv, TypeOK, DeliveredExactly, Results
<1>2. reading /\ Whole(read_buffer)
  BY DEF PacketRead, Complete, Whole
<1>3. PICK S : Framed(S, sent, r, read_buffer \o transit, writing)
  BY <1>2 DEF IInv, Stream
<1>4. /\ r < Len(sent)
      /\ PacketLength(read_buffer) = Len(p)
      /\ SubSeq(read_buffer, 1, Len(p)) = p
      /\ t \in Seq(Bytes)
      /\ Framed(S, sent, r + 1, t \o transit, writing)
  BY <1>1, <1>2, <1>3, FramedRead
<1>5. sent[r + 1] \in Messages
  <2>1. r + 1 \in 1 .. Len(sent)
    BY <1>1, <1>4
  <2> QED
    BY <1>1, <2>1, ElementOfSeq
<1>6. p \in Seq(Bytes)
  BY <1>5, WireType
<1>7. /\ received' = Append(received, Read(p)) /\ read_buffer' = t
      /\ UNCHANGED <<sent, writing, transit, reading>>
  BY <1>4 DEF PacketRead
<1>8. Read(p) = Returned(sent[r + 1])
  BY <1>5, Zenon DEF Framing
<1>9. /\ received' \in Seq(Results)
      /\ Len(received') = r + 1
      /\ \A i \in 1 .. r : received'[i] = received[i]
      /\ received'[r + 1] = Read(p)
  <2>1. Read(p) \in Results
    BY <1>6 DEF Results
  <2> HIDE DEF p
  <2> QED
    BY <1>1, <1>7, <2>1, AppendProperties
<1> HIDE DEF p, t, r
<1>10. TypeOK'
  BY <1>4, <1>7, <1>9 DEF IInv, TypeOK, Results
<1>11. DeliveredExactly'
  <2>1. \A i \in 1 .. r : received[i] = Returned(sent[i])
    BY DEF IInv, DeliveredExactly, r
  <2>2. \A i \in 1 .. r + 1 : i \in 1 .. r \/ i = r + 1
    BY <1>1
  <2>3. \A i \in 1 .. r + 1 : received'[i] = Returned(sent[i])
    BY <1>8, <1>9, <2>1, <2>2
  <2>4. r + 1 <= Len(sent)
    BY <1>1, <1>4
  <2> QED
    BY <1>7, <1>9, <2>3, <2>4 DEF DeliveredExactly
<1>12. Stream'
  <2>1. Framed(S, sent', Len(received'), read_buffer' \o transit', writing')
    BY <1>4, <1>7, <1>9
  <2> QED
    BY <2>1 DEF Stream
<1> QED
  BY <1>10, <1>11, <1>12 DEF IInv

LEMMA ReadMoreStep == \A n \in Nat : IInv /\ ReadMore(n) => IInv'
<1> SUFFICES ASSUME NEW n \in Nat, IInv, ReadMore(n) PROVE IInv'
  OBVIOUS
<1> DEFINE x == SubSeq(transit, 1, n)
           y == SubSeq(transit, n + 1, Len(transit))
<1>1. read_buffer \in Seq(Bytes) /\ transit \in Seq(Bytes) /\ n <= Len(transit)
  BY DEF IInv, TypeOK, ReadMore
<1>2. x \in Seq(Bytes) /\ y \in Seq(Bytes) /\ transit = x \o y
  BY <1>1, Prefix, Suffix, Split
<1>3. /\ read_buffer' = read_buffer \o x /\ transit' = y
      /\ UNCHANGED <<sent, writing, reading, received>>
  BY DEF ReadMore
<1> HIDE DEF x, y
<1>4. read_buffer' \o transit' = read_buffer \o transit
  <2>1. (read_buffer \o x) \o y = read_buffer \o (x \o y)
    BY <1>1, <1>2, ConcatAssociative
  <2> QED
    BY <1>2, <1>3, <2>1
<1>5. TypeOK'
  <2>1. read_buffer' \in Seq(Bytes) /\ transit' \in Seq(Bytes)
    BY <1>1, <1>2, <1>3, ConcatProperties
  <2> QED
    BY <1>3, <2>1 DEF IInv, TypeOK
<1>6. DeliveredExactly'
  BY <1>3 DEF IInv, DeliveredExactly
<1>7. Stream'
  BY <1>3, <1>4, Zenon DEF IInv, Stream
<1> QED
  BY <1>5, <1>6, <1>7 DEF IInv

LEMMA StepInv == Framing /\ IInv /\ [Next]_vars => IInv'
<1> SUFFICES ASSUME Framing, IInv, [Next]_vars PROVE IInv'
  OBVIOUS
<1>1. CASE \E m \in Messages : Write(m)
  BY <1>1, WriteStep
<1>2. CASE \E m \in Messages : \E n \in CutPoints(m) : ShortWrite(m, n)
  BY <1>2, ShortWriteStep
<1>3. CASE Close
  BY <1>3, CloseStep
<1>4. CASE PacketRead
  BY <1>4, ReadStep
<1>5. CASE ReadSome
  <2>1. PICK n \in ReadSizes \cup {Len(transit)} : n > 0 /\ ReadMore(n)
    BY <1>5 DEF ReadSome
  <2>2. n \in Nat
    <3>1. Len(transit) \in Nat
      BY LenProperties DEF IInv, TypeOK
    <3> QED
      BY <2>1, <3>1, BoundsAssumption
  <2> QED
    BY <2>1, <2>2, ReadMoreStep
<1>6. CASE ReadFails
  <2>1. /\ reading' = FALSE /\ read_buffer' = <<>>
        /\ UNCHANGED <<sent, writing, transit, received>>
    BY <1>6 DEF ReadFails
  <2>2. TypeOK'
    BY <2>1, EmptySeq DEF IInv, TypeOK
  <2>3. DeliveredExactly' /\ Stream'
    BY <2>1 DEF IInv, DeliveredExactly, Stream
  <2> QED
    BY <2>2, <2>3 DEF IInv
<1>7. CASE UNCHANGED vars
  BY <1>7 DEF vars, IInv, TypeOK, DeliveredExactly, Stream
<1> QED
  BY <1>1, <1>2, <1>3, <1>4, <1>5, <1>6, <1>7 DEF Next

-----------------------------------------------------------------------------
(* With a serializer whose packets can be told apart, every variable keeps  *)
(* its type.                                                                *)
THEOREM StreamTypeCorrect == Framing => (Spec => []TypeOK)
<1> SUFFICES ASSUME Framing PROVE Spec => []TypeOK
  OBVIOUS
<1>1. Init => IInv
  BY InitInv
<1>2. IInv /\ [Next]_vars => IInv'
  BY StepInv
<1>3. IInv => TypeOK
  BY DEF IInv
<1> QED
  BY <1>1, <1>2, <1>3, PTL DEF Spec

(* With such a serializer, the messages that packet_read returns are the    *)
(* ones written, in order, whole and once, wherever the socket breaks the   *)
(* packets, and wherever a write stops.                                     *)
THEOREM PacketsAreExact == Framing => (Spec => []DeliveredExactly)
<1> SUFFICES ASSUME Framing PROVE Spec => []DeliveredExactly
  OBVIOUS
<1>1. Init => IInv
  BY InitInv
<1>2. IInv /\ [Next]_vars => IInv'
  BY StepInv
<1>3. IInv => DeliveredExactly
  BY DEF IInv
<1> QED
  BY <1>1, <1>2, <1>3, PTL DEF Spec

-----------------------------------------------------------------------------
(* The headers of the compact serializer.                                   *)

(* Bound: three bytes of length.                                            *)
LengthLimit == 16777216

(* The length field of n data bytes is read back as n.                      *)
LEMMA LengthField ==
    ASSUME NEW n \in Nat, 0 < n, n < LengthLimit
    PROVE  /\ UnsignedBytes(n) \in Seq(Byte)
           /\ Len(UnsignedBytes(n)) \in 1 .. 3
           /\ UnsignedValue(UnsignedBytes(n)) = n
<1> DEFINE x == n % 256
           y == n \div 256
           u == y % 256
           z == n \div 65536
<1>1. CASE n < 256
  <2>1. UnsignedBytes(n) = <<n>>
    BY <1>1, SMT DEF UnsignedBytes
  <2> QED
    BY <1>1, <2>1, SMT DEF UnsignedValue, Byte
<1>2. CASE 256 <= n /\ n < 65536
  <2>1. UnsignedBytes(n) = <<x, y>>
    BY <1>2, SMT DEF UnsignedBytes
  <2>2. x \in 0 .. 255 /\ y \in 0 .. 255 /\ n = x + 256 * y
    BY <1>2, SMT
  <2> HIDE DEF x, y
  <2>3. Len(<<x, y>>) = 2 /\ <<x, y>> \in Seq(Byte)
    BY <2>2, SMT DEF Byte
  <2>4. UnsignedValue(<<x, y>>) = x + 256 * y + 65536 * 0
    BY <2>2, SMT DEF UnsignedValue
  <2> QED
    BY <2>1, <2>2, <2>3, <2>4, SMT
<1>3. CASE 65536 <= n
  <2>1. UnsignedBytes(n) = <<x, u, z>>
    BY <1>3, SMT DEF UnsignedBytes
  <2>2. x \in 0 .. 255 /\ u \in 0 .. 255 /\ z \in 0 .. 255
    BY <1>3, SMT DEF LengthLimit
  <2>3. n = x + 256 * u + 65536 * z
    BY <1>3, SMT
  <2> HIDE DEF x, u, z
  <2>4. Len(<<x, u, z>>) = 3 /\ <<x, u, z>> \in Seq(Byte)
    BY <2>2, SMT DEF Byte
  <2>5. UnsignedValue(<<x, u, z>>) = x + 256 * u + 65536 * z
    BY <2>2, SMT DEF UnsignedValue
  <2> QED
    BY <2>1, <2>3, <2>4, <2>5, SMT
<1> QED
  BY <1>1, <1>2, <1>3, SMT

LEMMA OneByte ==
    ASSUME NEW x \in Byte
    PROVE  <<x>> \in Seq(Byte) /\ Len(<<x>>) = 1 /\ <<x>>[1] = x
  OBVIOUS

(* A tag before data.                                                       *)
IsTagged(p, x, b) ==
    /\ p \in Seq(Byte) /\ Len(p) = 1 + Len(b) /\ p[1] = x
    /\ \A i \in 1 .. Len(b) : p[i + 1] = b[i]

LEMMA Tagged ==
    ASSUME NEW x \in Byte, NEW b \in Seq(Byte)
    PROVE  IsTagged(<<x>> \o b, x, b)
<1> DEFINE p == <<x>> \o b
<1>1. Len(b) \in Nat
  BY LenProperties
<1>2. <<x>> \in Seq(Byte) /\ Len(<<x>>) = 1 /\ <<x>>[1] = x
  BY OneByte
<1>3. /\ p \in Seq(Byte)
      /\ Len(p) = 1 + Len(b)
      /\ \A i \in 1 .. 1 + Len(b) : p[i] = IF i <= 1 THEN <<x>>[i] ELSE b[i - 1]
  BY <1>2, ConcatProperties
<1>4. 1 \in 1 .. 1 + Len(b)
  BY <1>1
<1>5. \A i \in 1 .. Len(b) : i + 1 \in 1 .. 1 + Len(b) /\ ~(i + 1 <= 1) /\ i + 1 - 1 = i
  BY <1>1
<1> HIDE DEF p
<1>6. /\ p \in Seq(Byte) /\ Len(p) = 1 + Len(b) /\ p[1] = x
      /\ \A i \in 1 .. Len(b) : p[i + 1] = b[i]
  BY <1>2, <1>3, <1>4, <1>5
<1> QED
  BY <1>6 DEF IsTagged, p

-----------------------------------------------------------------------------
(* A packet in the short form is a tag and its data.                        *)
LEMMA ShortShape ==
    ASSUME NEW b \in Seq(Byte), Len(b) <= 31
    PROVE  LET p == ShortForm(128, b)
           IN  p \in Seq(Byte) /\ Len(p) = 1 + Len(b) /\ p[1] = 128 + Len(b)
<1>1. Len(b) \in Nat
  BY LenProperties
<1>2. \A n \in Nat : n <= 31 => n % 32 = n /\ 128 + n \in Byte
  BY SMT DEF Byte
<1>3. Len(b) % 32 = Len(b) /\ 128 + Len(b) \in Byte
  BY <1>1, <1>2
<1>4. ShortForm(128, b) = <<128 + Len(b)>> \o b
  BY <1>3 DEF ShortForm
<1>5. IsTagged(<<128 + Len(b)>> \o b, 128 + Len(b), b)
  BY <1>3, Tagged
<1> QED
  BY <1>4, <1>5 DEF IsTagged

(* One in the long form is a tag, the length field and the data.            *)
LongShaped(p, ll, f, n) ==
    /\ p \in Seq(Byte) /\ Len(p) = 1 + ll + n /\ p[1] = 224 + ll
    /\ Len(f) = ll /\ UnsignedValue(f) = n
    /\ \A i \in 1 .. ll : p[i + 1] = f[i]

LEMMA LongShape ==
    ASSUME NEW b \in Seq(Byte), 31 < Len(b), Len(b) < LengthLimit
    PROVE  \E ll \in 1 .. 3 : \E f \in Seq(Byte) : LongShaped(LongForm(128, b), ll, f, Len(b))
<1>1. Len(b) \in Nat /\ 0 < Len(b)
  BY LenProperties
<1>2. PICK f : f = UnsignedBytes(Len(b))
  OBVIOUS
<1>3. f \in Seq(Byte) /\ Len(f) \in 1 .. 3 /\ UnsignedValue(f) = Len(b)
  BY <1>1, <1>2, LengthField
<1>4. \A l \in 1 .. 3 : 192 + (128 \div 4) + (l % 8) = 224 + l /\ 224 + l \in Byte
  <2>1. 128 \div 4 = 32 /\ \A l \in 1 .. 3 : l % 8 = l
    BY SMT
  <2> QED
    BY <2>1 DEF Byte
<1>5. PICK head : head = <<224 + Len(f)>> \o f
  OBVIOUS
<1>6. /\ head \in Seq(Byte) /\ Len(head) = 1 + Len(f) /\ head[1] = 224 + Len(f)
      /\ \A i \in 1 .. Len(f) : head[i + 1] = f[i]
  <2>1. 224 + Len(f) \in Byte
    BY <1>3, <1>4
  <2>2. IsTagged(<<224 + Len(f)>> \o f, 224 + Len(f), f)
    BY <1>3, <2>1, Tagged
  <2> QED
    BY <1>5, <2>2 DEF IsTagged
<1>7. PICK p : p = head \o b
  OBVIOUS
<1>8. LongForm(128, b) = p
  <2>1. 192 + (128 \div 4) + (Len(f) % 8) = 224 + Len(f)
    BY <1>3, <1>4
  <2> QED
    BY <1>2, <1>5, <1>7, <2>1 DEF LongForm
<1>9. /\ p \in Seq(Byte)
      /\ Len(p) = 1 + Len(f) + Len(b)
      /\ \A i \in 1 .. Len(head) + Len(b) :
           p[i] = IF i <= Len(head) THEN head[i] ELSE b[i - Len(head)]
  <2>1. /\ head \o b \in Seq(Byte)
        /\ Len(head \o b) = Len(head) + Len(b)
        /\ \A i \in 1 .. Len(head) + Len(b) :
             (head \o b)[i] = IF i <= Len(head) THEN head[i] ELSE b[i - Len(head)]
    <3>1. head \in Seq(Byte)
      BY <1>6
    <3> QED
      BY <3>1, ConcatProperties
  <2>2. Len(head) = 1 + Len(f)
    BY <1>6
  <2> QED
    BY <1>7, <2>1, <2>2
<1>10. p[1] = 224 + Len(f) /\ \A i \in 1 .. Len(f) : p[i + 1] = f[i]
  <2>1. 1 \in 1 .. Len(head) + Len(b) /\ 1 <= Len(head)
    BY <1>1, <1>3, <1>6
  <2>2. \A i \in 1 .. Len(f) : i + 1 \in 1 .. Len(head) + Len(b) /\ i + 1 <= Len(head)
    BY <1>1, <1>3, <1>6
  <2> QED
    BY <1>6, <1>9, <2>1, <2>2
<1>11. PICK ll \in 1 .. 3 : ll = Len(f)
  BY <1>3
<1>12. LongShaped(p, ll, f, Len(b))
  BY <1>3, <1>9, <1>10, <1>11 DEF LongShaped
<1> QED
  BY <1>3, <1>8, <1>12, Zenon

-----------------------------------------------------------------------------
(* The beginning of a packet: q does not differ from p before its end.      *)
Agrees(q, p) == \A i \in 1 .. Len(q) : i <= Len(p) => q[i] = p[i]

(* What GetLength says of bytes that agree with the packet p.               *)
Known(q, p) ==
    /\ GetLength(q) \in {0, Len(p)}
    /\ Len(p) <= Len(q) => GetLength(q) = Len(p)

LEMMA EmptyKnown ==
    ASSUME NEW p \in Seq(Byte), 0 < Len(p)
    PROVE  Known(<<>>, p)
<1>1. GetLength(<<>>) = 0 /\ Len(<<>>) = 0 /\ Len(p) \in Nat
  BY LenProperties, EmptySeq DEF GetLength
<1> QED
  BY <1>1 DEF Known

LEMMA ShortKnown ==
    ASSUME NEW n \in Nat, n <= 31, NEW p \in Seq(Byte), Len(p) = 1 + n, p[1] = 128 + n,
           NEW q \in Seq(Byte), q # <<>>, Agrees(q, p)
    PROVE  Known(q, p)
<1>1. Len(q) \in Nat \ {0}
  BY EmptySeq
<1>2. 1 \in 1 .. Len(q) /\ 1 <= Len(p)
  BY <1>1
<1>3. q[1] = 128 + n
  BY <1>2 DEF Agrees
<1>4. (128 + n) % 32 = n
  BY SMT
<1>5. 128 + n < 192 /\ ~(128 + n >= 240)
  OBVIOUS
<1> DEFINE x == q[1]
<1>6. GetLength(q) = IF x >= 240 THEN 1
                     ELSE IF x < 192 THEN (x % 32) + 1
                     ELSE IF Len(q) - 1 < x % 8 THEN 0
                     ELSE UnsignedValue(SubSeq(q, 2, (x % 8) + 1)) + (x % 8) + 1
  BY Zenon DEF GetLength
<1>7. x < 192 /\ ~(x >= 240) /\ x % 32 = n
  BY <1>3, <1>4, <1>5
<1> HIDE DEF x
<1>8. GetLength(q) = n + 1
  BY <1>6, <1>7
<1> QED
  BY <1>1, <1>8 DEF Known

LEMMA LongKnown ==
    ASSUME NEW n \in Nat, NEW ll \in 1 .. 3, NEW f \in Seq(Byte),
           NEW p \in Seq(Byte), LongShaped(p, ll, f, n),
           NEW q \in Seq(Byte), q # <<>>, Agrees(q, p)
    PROVE  Known(q, p)
<1> USE DEF LongShaped
<1>1. Len(q) \in Nat \ {0}
  BY EmptySeq
<1>2. q[1] = 224 + ll
  <2>1. 1 \in 1 .. Len(q) /\ 1 <= Len(p)
    BY <1>1
  <2> QED
    BY <2>1 DEF Agrees
<1>3. (224 + ll) % 8 = ll /\ ~(224 + ll < 192) /\ ~(224 + ll >= 240)
  BY SMT
<1>4. GetLength(q) = IF Len(q) - 1 < ll THEN 0 ELSE UnsignedValue(SubSeq(q, 2, ll + 1)) + ll + 1
  <2> DEFINE x == q[1]
  <2>1. GetLength(q) = IF x >= 240 THEN 1
                       ELSE IF x < 192 THEN (x % 32) + 1
                       ELSE IF Len(q) - 1 < x % 8 THEN 0
                       ELSE UnsignedValue(SubSeq(q, 2, (x % 8) + 1)) + (x % 8) + 1
    BY Zenon DEF GetLength
  <2>2. ~(x < 192) /\ ~(x >= 240) /\ x % 8 = ll
    BY <1>2, <1>3
  <2> HIDE DEF x
  <2> QED
    BY <2>1, <2>2
<1>5. CASE Len(q) - 1 < ll
  BY <1>1, <1>4, <1>5 DEF Known
<1>6. CASE ~(Len(q) - 1 < ll)
  <2>1. PICK g : g = SubSeq(q, 2, ll + 1)
    OBVIOUS
  <2>2. \A i \in 2 .. ll + 1 : q[i] \in Byte
    BY <1>1, <1>6, ElementOfSeq
  <2>3. /\ g \in Seq(Byte)
        /\ Len(g) = IF 2 <= ll + 1 THEN ll + 1 - 2 + 1 ELSE 0
        /\ \A i \in 1 .. ll + 1 - 2 + 1 : g[i] = q[2 + i - 1]
    BY <2>1, <2>2, SubSeqProperties
  <2>4. ll + 1 - 2 + 1 = ll /\ \A i \in 1 .. ll : 2 + i - 1 = i + 1
    OBVIOUS
  <2>5. Len(g) = ll /\ \A i \in 1 .. ll : g[i] = q[i + 1]
    BY <2>3, <2>4
  <2>6. \A i \in 1 .. ll : i + 1 \in 1 .. Len(q) /\ i + 1 <= Len(p)
    BY <1>1, <1>6
  <2>7. \A i \in 1 .. ll : q[i + 1] = p[i + 1]
    BY <2>6 DEF Agrees
  <2>8. \A i \in 1 .. ll : g[i] = f[i]
    BY <2>5, <2>7
  <2>9. g = f
    BY <2>3, <2>5, <2>8, SeqEqual
  <2>10. GetLength(q) = n + ll + 1
    BY <1>4, <1>6, <2>1, <2>9
  <2> QED
    BY <1>1, <2>10 DEF Known
<1> QED
  BY <1>5, <1>6

LEMMA PacketKnown ==
    ASSUME NEW b \in Seq(Byte), Len(b) < LengthLimit
    PROVE  LET p == Form(128, b)
           IN  /\ p \in Seq(Byte)
               /\ \A q \in Seq(Byte) : Agrees(q, p) => Known(q, p)
<1>1. PICK p : p = Form(128, b)
  OBVIOUS
<1>2. Len(b) \in Nat
  BY LenProperties
<1>3. CASE Len(b) <= 31
  <2>1. p \in Seq(Byte) /\ Len(p) = 1 + Len(b) /\ p[1] = 128 + Len(b)
    BY <1>1, <1>3, ShortShape DEF Form, FitsShort
  <2>2. ASSUME NEW q \in Seq(Byte), Agrees(q, p) PROVE Known(q, p)
    <3>1. CASE q = <<>>
      BY <1>2, <2>1, <3>1, EmptyKnown
    <3>2. CASE q # <<>>
      BY <1>2, <1>3, <2>1, <2>2, <3>2, ShortKnown
    <3> QED
      BY <3>1, <3>2
  <2> QED
    BY <1>1, <2>1, <2>2
<1>4. CASE 31 < Len(b)
  <2>1. p = LongForm(128, b)
    BY <1>1, <1>2, <1>4 DEF Form, FitsShort
  <2>2. PICK ll \in 1 .. 3 : \E f \in Seq(Byte) : LongShaped(p, ll, f, Len(b))
    BY <1>4, <2>1, LongShape, Zenon
  <2>3. PICK f \in Seq(Byte) : LongShaped(p, ll, f, Len(b))
    BY <2>2, Zenon
  <2>p. p \in Seq(Byte) /\ 0 < Len(p)
    BY <1>2, <2>3 DEF LongShaped
  <2>4. ASSUME NEW q \in Seq(Byte), Agrees(q, p) PROVE Known(q, p)
    <3>1. CASE q = <<>>
      BY <2>p, <3>1, EmptyKnown
    <3>2. CASE q # <<>>
      BY <1>2, <2>p, <2>3, <2>4, <3>2, LongKnown, Zenon
    <3> QED
      BY <3>1, <3>2
  <2> QED
    BY <1>1, <2>p, <2>4
<1> QED
  BY <1>2, <1>3, <1>4

(* The bytes of a packet tell its length whatever follows them, and no part *)
(* of a packet is taken for a whole one, for any data below the limit: the  *)
(* hypotheses on PacketLength that PacketStream_proofs needs.               *)
THEOREM PacketsAreFramed ==
    ASSUME NEW b \in Seq(Byte), Len(b) < LengthLimit
    PROVE  LET p == Form(128, b)
           IN  /\ GetLength(<<>>) = 0
               /\ \A s \in Seq(Byte) : GetLength(p \o s) = Len(p)
               /\ \A k \in 0 .. Len(p) - 1 :
                    LET n == GetLength(SubSeq(p, 1, k)) IN n = 0 \/ ~(n <= k)
<1> DEFINE p == Form(128, b)
<1>1. p \in Seq(Byte) /\ Len(p) \in Nat
  BY PacketKnown, LenProperties
<1>2. \A q \in Seq(Byte) : Agrees(q, p) => Known(q, p)
  BY PacketKnown
<1>3. GetLength(<<>>) = 0
  BY DEF GetLength
<1> HIDE DEF p
<1>4. ASSUME NEW s \in Seq(Byte) PROVE GetLength(p \o s) = Len(p)
  <2>1. /\ p \o s \in Seq(Byte)
        /\ Len(p \o s) = Len(p) + Len(s) /\ Len(s) \in Nat
        /\ \A i \in 1 .. Len(p) + Len(s) : (p \o s)[i] = IF i <= Len(p) THEN p[i] ELSE s[i - Len(p)]
    BY <1>1, ConcatProperties, LenProperties
  <2>2. Agrees(p \o s, p)
    BY <2>1 DEF Agrees
  <2>3. Len(p) <= Len(p \o s)
    BY <1>1, <2>1
  <2> QED
    BY <1>2, <2>1, <2>2, <2>3 DEF Known
<1>5. ASSUME NEW k \in 0 .. Len(p) - 1
      PROVE  GetLength(SubSeq(p, 1, k)) = 0 \/ ~(GetLength(SubSeq(p, 1, k)) <= k)
  <2> DEFINE q == SubSeq(p, 1, k)
  <2>1. k \in Nat /\ k < Len(p) /\ \A i \in 1 .. k : p[i] \in Byte
    BY <1>1, ElementOfSeq
  <2>2. /\ q \in Seq(Byte)
        /\ Len(q) = IF 1 <= k THEN k - 1 + 1 ELSE 0
        /\ \A i \in 1 .. k - 1 + 1 : q[i] = p[1 + i - 1]
    BY <2>1, SubSeqProperties
  <2> HIDE DEF q
  <2>3. Len(q) = k /\ \A i \in 1 .. k : q[i] = p[i]
    BY <2>1, <2>2
  <2>4. Agrees(q, p)
    BY <2>3 DEF Agrees
  <2>5. GetLength(q) \in {0, Len(p)}
    BY <1>2, <2>2, <2>4 DEF Known
  <2>6. GetLength(q) = 0 \/ ~(GetLength(q) <= k)
    BY <1>1, <2>1, <2>5
  <2> QED
    BY <2>6 DEF q
<1> QED
  BY <1>3, <1>4, <1>5 DEF p

-----------------------------------------------------------------------------
(* Induction over numbers, as a fact about a set.                           *)

LEMMA Least ==
    ASSUME NEW T, T \subseteq Nat, T # {}
    PROVE  \E x \in T : \A y \in T : x <= y
<1> DEFINE R == OpToRel(<, Nat)
<1>1. IsWellFoundedOn(R, Nat)
  BY NatLessThanWellFounded
<1>2. R = {ss \in Nat \X Nat : ss[1] < ss[2]}
  BY DEF OpToRel
<1> HIDE DEF R
<1>3. PICK x \in T : \A y \in T : ~(<<y, x>> \in R)
  BY <1>1, WFMin
<1>4. ASSUME NEW y \in T
      PROVE  x <= y
  <2>1. x \in Nat /\ y \in Nat
    OBVIOUS
  <2>2. ~(y < x)
    BY <1>2, <1>3, <2>1
  <2> QED
    BY <2>1, <2>2
<1> QED
  BY <1>4

LEMMA Induction ==
    ASSUME NEW S, 0 \in S, \A n \in Nat : n \in S => n + 1 \in S
    PROVE  Nat \subseteq S
<1> SUFFICES ASSUME \E n \in Nat : n \notin S PROVE FALSE
  OBVIOUS
<1> DEFINE T == {n \in Nat : n \notin S}
<1>1. T \subseteq Nat /\ T # {}
  OBVIOUS
<1>2. PICK x \in T : \A y \in T : x <= y
  <2> HIDE DEF T
  <2> QED
    BY <1>1, Least
<1>3. x \in Nat /\ x # 0 /\ x \notin S
  BY <1>2
<1>4. x - 1 \in Nat /\ (x - 1) + 1 = x /\ ~(x <= x - 1)
  BY <1>3
<1>5. x - 1 \in S
  BY <1>2, <1>4
<1> QED
  BY <1>3, <1>4, <1>5

-----------------------------------------------------------------------------
(* FlattenSeq                                                               *)

(* The first elements of ss, joined.                                        *)
IsJoin(f, ss, n) == f[0] = <<>> /\ \A i \in 1 .. n : f[i] = f[i - 1] \o ss[i]

LEMMA JoinExists ==
    ASSUME NEW C, NEW ss \in Seq(Seq(C)), NEW m \in Nat
    PROVE  m <= Len(ss) => \E f \in [0 .. m -> Seq(C)] : IsJoin(f, ss, m)
<1> DEFINE S == {n \in Nat : n <= Len(ss) => \E f \in [0 .. n -> Seq(C)] : IsJoin(f, ss, n)}
<1>1. 0 \in S
  <2> DEFINE f == [i \in 0 .. 0 |-> <<>>]
  <2>1. f \in [0 .. 0 -> Seq(C)] /\ IsJoin(f, ss, 0)
    BY EmptySeq DEF IsJoin
  <2> QED
    BY <2>1
<1>2. ASSUME NEW n \in Nat, n \in S
      PROVE  n + 1 \in S
  <2> SUFFICES ASSUME n + 1 <= Len(ss)
               PROVE  \E f \in [0 .. n + 1 -> Seq(C)] : IsJoin(f, ss, n + 1)
    OBVIOUS
  <2>l. Len(ss) \in Nat
    BY LenProperties
  <2>1. PICK f \in [0 .. n -> Seq(C)] : IsJoin(f, ss, n)
    BY <1>2, <2>l
  <2>2. ss[n + 1] \in Seq(C) /\ f[n] \in Seq(C)
    BY <2>l, ElementOfSeq
  <2> DEFINE x == f[n] \o ss[n + 1]
             g == [i \in 0 .. n + 1 |-> IF i = n + 1 THEN x ELSE f[i]]
  <2>3. x \in Seq(C)
    BY <2>2, ConcatProperties
  <2> HIDE DEF x
  <2>4. g \in [0 .. n + 1 -> Seq(C)]
    BY <2>3
  <2>5. g[n + 1] = x /\ \A i \in 0 .. n : g[i] = f[i]
    OBVIOUS
  <2> HIDE DEF g
  <2>6. ASSUME NEW i \in 1 .. n + 1
        PROVE  g[i] = g[i - 1] \o ss[i]
    <3>1. CASE i = n + 1
      <4>1. i - 1 = n /\ n \in 0 .. n
        BY <3>1
      <4> QED
        BY <3>1, <4>1, <2>5 DEF x
    <3>2. CASE i # n + 1
      <4>1. i \in 1 .. n /\ i \in 0 .. n /\ i - 1 \in 0 .. n
        BY <3>2
      <4> QED
        BY <4>1, <2>1, <2>5 DEF IsJoin
    <3> QED
      BY <3>1, <3>2
  <2>7. g[0] = <<>>
    BY <2>1, <2>5 DEF IsJoin
  <2> QED
    BY <2>4, <2>6, <2>7 DEF IsJoin
<1> HIDE DEF S
<1>3. Nat \subseteq S
  BY <1>1, <1>2, Induction
<1> QED
  BY <1>3 DEF S

LEMMA Flattened ==
    ASSUME NEW C, NEW ss \in Seq(Seq(C))
    PROVE  \E f \in [0 .. Len(ss) -> Seq(C)] : IsJoin(f, ss, Len(ss)) /\ FlattenSeq(ss) = f[Len(ss)]
<1> DEFINE n == Len(ss)
<1>1. n \in Nat
  BY LenProperties
<1>2. PICK f \in [0 .. n -> Seq(C)] : IsJoin(f, ss, n)
  BY <1>1, JoinExists
<1>3. CASE n = 0
  <2>1. FlattenSeq(ss) = ss
    BY <1>3 DEF FlattenSeq
  <2>2. ss = <<>>
    BY <1>3, EmptySeq
  <2> QED
    BY <1>2, <1>3, <2>1, <2>2 DEF IsJoin
<1>4. CASE n # 0
  <2> DEFINE Rule(e) == [i \in 1 .. n |-> IF i = 1 THEN ss[i] ELSE e[i - 1] \o ss[i]]
             e == CHOOSE e : e = Rule(e)
             g == [i \in 1 .. n |-> f[i]]
  <2>1. FlattenSeq(ss) = e[n]
    BY <1>4 DEF FlattenSeq
  <2>2. g = Rule(g)
    <3>1. ASSUME NEW i \in 1 .. n
          PROVE  f[i] = IF i = 1 THEN ss[i] ELSE g[i - 1] \o ss[i]
      <4>1. f[i] = f[i - 1] \o ss[i] /\ f[0] = <<>>
        BY <1>2 DEF IsJoin
      <4>2. CASE i = 1
        <5>1. ss[i] \in Seq(C) /\ i - 1 = 0
          BY <4>2, ElementOfSeq
        <5>2. f[i] = <<>> \o ss[i]
          BY <4>1, <5>1
        <5> QED
          BY <4>2, <5>1, <5>2, ConcatEmptySeq
      <4>3. CASE i # 1
        <5>1. i - 1 \in 1 .. n
          BY <1>1, <4>3
        <5> QED
          BY <4>1, <4>3, <5>1
      <4> QED
        BY <4>2, <4>3
    <3> QED
      BY <3>1
  <2>3. e = Rule(e)
    <3> HIDE DEF g
    <3> QED
      BY <2>2
  <2> HIDE DEF e
  <2> DEFINE S == {k \in Nat : k + 1 <= n => e[k + 1] = f[k + 1]}
  <2>4. \A i \in 1 .. n : e[i] = IF i = 1 THEN ss[i] ELSE e[i - 1] \o ss[i]
    BY <2>3
  <2> HIDE DEF Rule
  <2>5. \A i \in 1 .. n : f[i] = f[i - 1] \o ss[i]
    BY <1>2 DEF IsJoin
  <2>6. 0 \in S
    <3>1. 1 \in 1 .. n
      BY <1>1, <1>4
    <3>2. ss[1] \in Seq(C)
      BY <3>1, ElementOfSeq
    <3>3. f[1] = <<>> \o ss[1]
      <4>1. f[1] = f[1 - 1] \o ss[1]
        BY <2>5, <3>1, Zenon
      <4>2. f[0] = <<>>
        BY <1>2 DEF IsJoin
      <4>3. 1 - 1 = 0
        OBVIOUS
      <4> QED
        BY <4>1, <4>2, <4>3, Zenon
    <3>4. f[1] = ss[1]
      BY <3>2, <3>3, ConcatEmptySeq
    <3> QED
      BY <3>1, <3>4, <2>4
  <2>7. ASSUME NEW k \in Nat, k \in S
        PROVE  k + 1 \in S
    <3> SUFFICES ASSUME (k + 1) + 1 <= n
                 PROVE  e[(k + 1) + 1] = f[(k + 1) + 1]
      OBVIOUS
    <3>1. /\ (k + 1) + 1 \in 1 .. n /\ (k + 1) + 1 # 1 /\ ((k + 1) + 1) - 1 = k + 1
          /\ k + 1 <= n
      BY <1>1
    <3>2. e[k + 1] = f[k + 1]
      BY <2>7, <3>1
    <3> DEFINE i == (k + 1) + 1
    <3>3. i \in 1 .. n /\ i # 1 /\ i - 1 = k + 1
      BY <3>1
    <3> HIDE DEF i
    <3>4. e[i] = e[k + 1] \o ss[i] /\ f[i] = f[k + 1] \o ss[i]
      BY <2>4, <2>5, <3>3
    <3>5. e[i] = f[i]
      BY <3>2, <3>4
    <3> QED
      BY <3>5 DEF i
  <2> HIDE DEF S
  <2>8. Nat \subseteq S
    BY <2>6, <2>7, Induction
  <2>9. n - 1 \in Nat /\ (n - 1) + 1 = n
    BY <1>1, <1>4
  <2>10. e[n] = f[n]
    <3>1. n - 1 \in S /\ (n - 1) + 1 <= n
      BY <1>1, <2>8, <2>9
    <3>2. e[(n - 1) + 1] = f[(n - 1) + 1]
      BY <3>1 DEF S
    <3> QED
      BY <3>2, <2>9
  <2> QED
    BY <1>2, <2>1, <2>10
<1> QED
  BY <1>3, <1>4

(* The place of the i-th sequence in all of them.                           *)
Placed(f, C, i) ==
    /\ Len(f[i]) = Len(f[i - 1]) + Len(C[i])
    /\ Len(f[i - 1]) \in Nat /\ Len(f[i]) <= Len(f[Len(C)])
    /\ \A k \in 1 .. Len(C[i]) : f[Len(C)][Len(f[i - 1]) + k] = C[i][k]

LEMMA JoinPlaces ==
    ASSUME NEW T, NEW C \in Seq(Seq(T)), NEW f \in [0 .. Len(C) -> Seq(T)], IsJoin(f, C, Len(C)),
           NEW i \in 1 .. Len(C)
    PROVE  Placed(f, C, i)
<1> DEFINE n == Len(C)
           b == f[n]
<1>1. n \in Nat
  BY LenProperties
<1>2. ASSUME NEW j \in 1 .. n
      PROVE  /\ f[j] \in Seq(T) /\ f[j - 1] \in Seq(T) /\ C[j] \in Seq(T)
             /\ Len(f[j]) = Len(f[j - 1]) + Len(C[j])
             /\ \A k \in 1 .. Len(f[j - 1]) + Len(C[j]) :
                  f[j][k] = IF k <= Len(f[j - 1]) THEN f[j - 1][k] ELSE C[j][k - Len(f[j - 1])]
  <2>1. f[j] \in Seq(T) /\ f[j - 1] \in Seq(T) /\ C[j] \in Seq(T)
    <3>1. j \in 0 .. n /\ j - 1 \in 0 .. n
      BY <1>1
    <3> QED
      BY <3>1, ElementOfSeq
  <2>2. f[j] = f[j - 1] \o C[j]
    BY DEF IsJoin
  <2> DEFINE u == f[j - 1]
             v == C[j]
  <2> HIDE DEF u, v
  <2>3. u \in Seq(T) /\ v \in Seq(T) /\ f[j] = u \o v
    BY <2>1, <2>2 DEF u, v
  <2>4. /\ Len(u \o v) = Len(u) + Len(v)
        /\ \A k \in 1 .. Len(u) + Len(v) :
             (u \o v)[k] = IF k <= Len(u) THEN u[k] ELSE v[k - Len(u)]
    BY <2>3, ConcatProperties
  <2> QED
    BY <2>1, <2>3, <2>4 DEF u, v
<1> DEFINE S == {d \in Nat : d <= n => /\ f[n - d] \in Seq(T) /\ Len(f[n - d]) <= Len(b)
                                       /\ \A k \in 1 .. Len(f[n - d]) : b[k] = f[n - d][k]}
<1>3. 0 \in S
  <2>1. b \in Seq(T) /\ n - 0 = n
    <3>1. n \in 0 .. n /\ n - 0 = n
      BY <1>1
    <3> QED
      BY <3>1
  <2>2. Len(b) \in Nat
    BY <2>1, LenProperties
  <2> QED
    BY <2>1, <2>2
<1>4. ASSUME NEW d \in Nat, d \in S
      PROVE  d + 1 \in S
  <2> SUFFICES ASSUME d + 1 <= n
               PROVE  /\ f[n - (d + 1)] \in Seq(T) /\ Len(f[n - (d + 1)]) <= Len(b)
                      /\ \A k \in 1 .. Len(f[n - (d + 1)]) : b[k] = f[n - (d + 1)][k]
    OBVIOUS
  <2> DEFINE j == n - d
  <2>1. j \in 1 .. n /\ j - 1 = n - (d + 1) /\ d <= n
    BY <1>1
  <2>2. Len(f[j]) <= Len(b) /\ \A k \in 1 .. Len(f[j]) : b[k] = f[j][k]
    BY <1>4, <2>1
  <2> HIDE DEF j, b
  <2>3. /\ f[j] \in Seq(T) /\ f[j - 1] \in Seq(T) /\ C[j] \in Seq(T)
        /\ Len(f[j]) = Len(f[j - 1]) + Len(C[j])
        /\ \A k \in 1 .. Len(f[j - 1]) + Len(C[j]) :
             f[j][k] = IF k <= Len(f[j - 1]) THEN f[j - 1][k] ELSE C[j][k - Len(f[j - 1])]
    BY <1>2, <2>1
  <2> DEFINE o == Len(f[j - 1])
             h == Len(C[j])
             q == Len(f[j])
             z == Len(b)
  <2>4. o \in Nat /\ h \in Nat /\ q = o + h /\ q <= z /\ z \in Nat
    <3>1. o \in Nat
      BY <2>3, LenProperties
    <3>2. h \in Nat
      BY <2>3, LenProperties
    <3>3. f[n] \in Seq(T)
      <4>1. n \in 0 .. n
        BY <1>1
      <4> QED
        BY <4>1
    <3>4. z \in Nat
      BY <3>3, LenProperties DEF b
    <3> QED
      BY <2>2, <2>3, <3>1, <3>2, <3>4
  <2>5. \A k \in 1 .. o + h : f[j][k] = IF k <= o THEN f[j - 1][k] ELSE C[j][k - o]
    BY <2>3
  <2>c. \A k \in 1 .. q : b[k] = f[j][k]
    BY <2>2
  <2> HIDE DEF o, h, q, z
  <2>6. o <= z
    BY <2>4
  <2>7. ASSUME NEW k \in 1 .. o
        PROVE  b[k] = f[j - 1][k]
    <3>1. k \in 1 .. o + h /\ k <= o /\ k \in 1 .. q
      BY <2>4
    <3>2. f[j][k] = f[j - 1][k]
      BY <2>5, <3>1
    <3> QED
      BY <2>c, <3>1, <3>2
  <2> QED
    BY <2>1, <2>3, <2>6, <2>7 DEF o, z
<1> HIDE DEF S
<1>5. Nat \subseteq S
  BY <1>3, <1>4, Induction
<1>6. Len(f[i]) <= Len(b) /\ \A k \in 1 .. Len(f[i]) : b[k] = f[i][k]
  <2>1. n - i \in Nat /\ n - i <= n /\ n - (n - i) = i
    BY <1>1
  <2>2. n - i \in S
    BY <1>5, <2>1
  <2>3. /\ Len(f[n - (n - i)]) <= Len(b)
        /\ \A k \in 1 .. Len(f[n - (n - i)]) : b[k] = f[n - (n - i)][k]
    BY <2>1, <2>2 DEF S
  <2> QED
    BY <2>1, <2>3
<1> HIDE DEF b
<1>7. /\ f[i] \in Seq(T) /\ f[i - 1] \in Seq(T) /\ C[i] \in Seq(T)
      /\ Len(f[i]) = Len(f[i - 1]) + Len(C[i])
      /\ \A k \in 1 .. Len(f[i - 1]) + Len(C[i]) :
           f[i][k] = IF k <= Len(f[i - 1]) THEN f[i - 1][k] ELSE C[i][k - Len(f[i - 1])]
  BY <1>2
<1>8. Len(f[i - 1]) \in Nat /\ Len(C[i]) \in Nat
  BY <1>7, LenProperties
<1> DEFINE o == Len(f[i - 1])
           h == Len(C[i])
           q == Len(f[i])
<1>c. /\ q = o + h /\ o \in Nat /\ h \in Nat
      /\ \A k \in 1 .. o + h : f[i][k] = IF k <= o THEN f[i - 1][k] ELSE C[i][k - o]
      /\ \A k \in 1 .. q : b[k] = f[i][k]
  BY <1>6, <1>7, <1>8
<1> HIDE DEF o, h, q
<1>9. ASSUME NEW k \in 1 .. h
      PROVE  b[o + k] = C[i][k]
  <2> DEFINE p == o + k
  <2>1. p \in 1 .. o + h /\ ~(p <= o) /\ p - o = k /\ p \in 1 .. q
    BY <1>c
  <2> HIDE DEF p
  <2>2. f[i][p] = C[i][p - o]
    BY <1>c, <2>1
  <2>3. b[p] = C[i][k]
    BY <1>c, <2>1, <2>2
  <2> QED
    BY <2>3 DEF p
<1> QED
  BY <1>6, <1>7, <1>8, <1>9 DEF b, o, h, Placed

-----------------------------------------------------------------------------
(* Reading one token after the other.                                       *)

(* The list f[i] of all values from i on: val[i], and what follows nxt[i].  *)
Chain(f, L, val, nxt) ==
    \A i \in 1 .. L + 1 : f[i] = IF i > L THEN <<>> ELSE <<val[i]>> \o f[nxt[i]]

(* There is such a list when nxt always goes on.                            *)
IsChain(f, L, val, nxt) ==
    f = [i \in 1 .. L + 1 |-> IF i > L THEN <<>> ELSE <<val[i]>> \o f[nxt[i]]]

LEMMA ChainExists ==
    ASSUME NEW L \in Nat, NEW val, NEW nxt \in [1 .. L -> Nat],
           \A i \in 1 .. L : nxt[i] \in i + 1 .. L + 1
    PROVE  \E f : IsChain(f, L, val, nxt)
<1> DEFINE Step(f, i) == IF i > L THEN <<>> ELSE <<val[i]>> \o f[nxt[i]]
           From(n) == (L + 1) - n .. L + 1
           S == {n \in Nat : n <= L => \E f : \A i \in From(n) : f[i] = Step(f, i)}
<1>1. 0 \in S
  <2> DEFINE f == [i \in From(0) |-> <<>>]
  <2>1. ASSUME NEW i \in From(0)
        PROVE  f[i] = Step(f, i)
    <3>1. i > L
      OBVIOUS
    <3> QED
      BY <3>1
  <2> HIDE DEF f
  <2> QED
    BY <2>1
<1>2. ASSUME NEW n \in Nat, n \in S
      PROVE  n + 1 \in S
  <2> SUFFICES ASSUME n + 1 <= L
               PROVE  \E f : \A i \in From(n + 1) : f[i] = Step(f, i)
    OBVIOUS
  <2>0. n <= L
    OBVIOUS
  <2>1. PICK f : \A i \in From(n) : f[i] = Step(f, i)
    <3> HIDE DEF Step, From
    <3> QED
      BY <1>2, <2>0
  <2> DEFINE j == (L + 1) - (n + 1)
             x == Step(f, j)
             g == [i \in From(n + 1) |-> IF i = j THEN x ELSE f[i]]
  <2>2. j \in 1 .. L /\ ~(j > L) /\ From(n + 1) = {j} \cup From(n) /\ j \notin From(n)
    OBVIOUS
  <2>3. nxt[j] \in From(n)
    BY <2>2
  <2>4. ASSUME NEW i \in From(n + 1), i # j, ~(i > L)
        PROVE  nxt[i] \in From(n)
    <3>1. i \in From(n)
      BY <2>2, <2>4, Zenon
    <3>2. i \in 1 .. L /\ i >= (L + 1) - n
      BY <3>1, <2>4
    <3>3. nxt[i] \in i + 1 .. L + 1
      BY <3>2
    <3> QED
      BY <3>2, <3>3
  <2> HIDE DEF From, j, x
  <2>5. g[j] = x /\ \A i \in From(n) : g[i] = f[i]
    BY <2>2
  <2> HIDE DEF g
  <2>6. ASSUME NEW i \in From(n + 1)
        PROVE  g[i] = Step(g, i)
    <3>1. CASE i = j
      <4>1. g[nxt[j]] = f[nxt[j]]
        BY <2>3, <2>5
      <4> QED
        BY <3>1, <4>1, <2>5 DEF x
    <3>2. CASE i # j
      <4>1. g[i] = f[i] /\ f[i] = Step(f, i)
        BY <2>1, <2>2, <2>5, <3>2
      <4>2. CASE i > L
        BY <4>1, <4>2
      <4>3. CASE ~(i > L)
        <5>1. g[nxt[i]] = f[nxt[i]]
          BY <2>4, <2>5, <3>2, <4>3
        <5> QED
          BY <4>1, <5>1
      <4> QED
        BY <4>2, <4>3
    <3> QED
      BY <3>1, <3>2
  <2> QED
    BY <2>6
<1> HIDE DEF S
<1>3. Nat \subseteq S
  BY <1>1, <1>2, Induction
<1>4. From(L) = 1 .. L + 1
  OBVIOUS
<1>5. \E f : \A i \in From(L) : f[i] = Step(f, i)
  <2>1. L \in S /\ L <= L
    BY <1>3
  <2> HIDE DEF Step, From
  <2> QED
    BY <2>1 DEF S
<1>6. PICK f : \A i \in 1 .. L + 1 : f[i] = Step(f, i)
  BY <1>4, <1>5
<1> DEFINE g == [i \in 1 .. L + 1 |-> f[i]]
<1>7. ASSUME NEW i \in 1 .. L + 1
      PROVE  g[i] = Step(g, i)
  <2>1. CASE i > L
    BY <1>6, <2>1
  <2>2. CASE ~(i > L)
    <3>1. i \in 1 .. L
      BY <2>2
    <3>2. nxt[i] \in 1 .. L + 1
      <4>1. nxt[i] \in i + 1 .. L + 1
        BY <3>1
      <4> QED
        BY <3>1, <4>1
    <3> QED
      BY <1>6, <2>2, <3>2
  <2> QED
    BY <2>1, <2>2
<1>8. g = [i \in 1 .. L + 1 |-> g[i]]
  OBVIOUS
<1> HIDE DEF g
<1>9. g = [i \in 1 .. L + 1 |-> Step(g, i)]
  BY <1>7, <1>8
<1> QED
  BY <1>9 DEF IsChain

Stands(L, val, nxt, r, p) ==
    \A i \in 1 .. Len(r) :
      p[i - 1] \in 1 .. L /\ val[p[i - 1]] = r[i] /\ nxt[p[i - 1]] = p[i]

(* If the values stand one behind the other, the chain is all of them.      *)
LEMMA Walk ==
    ASSUME NEW L \in Nat, NEW val, NEW nxt, NEW f, Chain(f, L, val, nxt),
           NEW T, NEW r \in Seq(T), NEW p \in [0 .. Len(r) -> Nat], p[Len(r)] = L + 1,
           Stands(L, val, nxt, r, p)
    PROVE  f[p[0]] = r
<1> DEFINE n == Len(r)
           S == {d \in Nat : d <= n => f[p[n - d]] = SubSeq(r, (n - d) + 1, n)}
<1>1. n \in Nat
  BY LenProperties
<1>2. 0 \in S
  <2>1. n - 0 = n /\ L + 1 \in 1 .. L + 1 /\ L + 1 > L /\ n < n + 1
    BY <1>1
  <2>2. f[L + 1] = <<>>
    BY <2>1 DEF Chain
  <2>3. SubSeq(r, n + 1, n) = <<>>
    BY <1>1, <2>1, SubSeqEmpty
  <2> QED
    BY <2>1, <2>2, <2>3
<1>3. ASSUME NEW d \in Nat, d \in S
      PROVE  d + 1 \in S
  <2> SUFFICES ASSUME d + 1 <= n
               PROVE  f[p[n - (d + 1)]] = SubSeq(r, (n - (d + 1)) + 1, n)
    OBVIOUS
  <2> DEFINE i == n - d
             j == p[i - 1]
  <2>1. i \in 1 .. n /\ i - 1 = n - (d + 1) /\ (n - (d + 1)) + 1 = i /\ d <= n
    BY <1>1
  <2>2. f[p[i]] = SubSeq(r, i + 1, n)
    BY <1>3, <2>1
  <2> HIDE DEF i
  <2>3. j \in 1 .. L /\ val[j] = r[i] /\ nxt[j] = p[i]
    BY <2>1 DEF Stands
  <2>4. j \in 1 .. L + 1 /\ ~(j > L)
    BY <2>3
  <2>5. f[j] = <<val[j]>> \o f[nxt[j]]
    <3> HIDE DEF j
    <3> QED
      BY <2>4 DEF Chain
  <2>6. SubSeq(r, i, n) = <<r[i]>> \o SubSeq(r, i + 1, n)
    <3>1. n \in i .. n
      BY <1>1, <2>1
    <3> QED
      BY <2>1, <3>1, SubSeqRecursiveFirst
  <2>7. f[j] = SubSeq(r, i, n)
    BY <2>2, <2>3, <2>5, <2>6
  <2> QED
    BY <2>1, <2>7
<1> HIDE DEF S
<1>4. Nat \subseteq S
  BY <1>2, <1>3, Induction
<1>5. f[p[0]] = SubSeq(r, 1, n)
  <2>1. n \in S /\ n - n = 0 /\ 0 + 1 = 1 /\ n <= n
    BY <1>1, <1>4
  <2>2. f[p[n - n]] = SubSeq(r, (n - n) + 1, n)
    BY <2>1 DEF S
  <2> QED
    BY <2>1, <2>2
<1> QED
  BY <1>5, SubSeqFull

-----------------------------------------------------------------------------
(* Headers.                                                                 *)

(* The bytes b stand in s behind the first o.                               *)
Behind(s, o, b) ==
    /\ o + Len(b) <= Len(s)
    /\ \A k \in 1 .. Len(b) : s[o + k] = b[k]

LEMMA BehindIs ==
    ASSUME NEW s \in Seq(Byte), NEW o \in Nat, NEW b \in Seq(Byte), Behind(s, o, b)
    PROVE  SubSeq(s, o + 1, o + Len(b)) = b
<1> DEFINE n == Len(b)
           l == Len(s)
           r == SubSeq(s, o + 1, o + n)
<1>1. n \in Nat /\ l \in Nat /\ o + n <= l /\ \A k \in 1 .. n : s[o + k] = b[k]
  BY LenProperties DEF Behind
<1>2. \A i \in o + 1 .. o + n : s[i] \in Byte
  <2>1. \A i \in o + 1 .. o + n : i \in 1 .. l
    BY <1>1
  <2> QED
    BY <2>1, ElementOfSeq
<1>3. /\ r \in Seq(Byte)
      /\ Len(r) = IF o + 1 <= o + n THEN (o + n) - (o + 1) + 1 ELSE 0
      /\ \A i \in 1 .. (o + n) - (o + 1) + 1 : r[i] = s[(o + 1) + i - 1]
  <2> HIDE DEF n
  <2>1. o + 1 \in Int /\ o + n \in Int
    BY <1>1
  <2> QED
    BY <1>2, <2>1, SubSeqProperties
<1> HIDE DEF n, l, r
<1>4. Len(r) = n /\ (o + n) - (o + 1) + 1 = n
  BY <1>1, <1>3
<1>5. ASSUME NEW i \in 1 .. n
      PROVE  r[i] = b[i]
  <2>1. (o + 1) + i - 1 = o + i
    BY <1>1
  <2>2. r[i] = s[(o + 1) + i - 1]
    BY <1>3, <1>4
  <2> QED
    BY <1>1, <2>1, <2>2
<1>6. r = b
  BY <1>3, <1>4, <1>5, SeqEqual DEF n
<1> QED
  BY <1>6 DEF r, n

(* The second part of bytes that stand there.                               *)
LEMMA BehindSplit ==
    ASSUME NEW s \in Seq(Byte), NEW o \in Nat, NEW a \in Seq(Byte), NEW b \in Seq(Byte),
           Behind(s, o, a \o b)
    PROVE  Behind(s, o, a) /\ Behind(s, o + Len(a), b)
<1> DEFINE c == a \o b
           m == Len(a)
           n == Len(b)
           l == Len(s)
<1>1. /\ Len(c) = m + n
      /\ \A i \in 1 .. m + n : c[i] = IF i <= m THEN a[i] ELSE b[i - m]
  BY ConcatProperties
<1>2. m \in Nat /\ n \in Nat /\ l \in Nat
  BY LenProperties
<1>3. o + Len(c) <= l /\ \A k \in 1 .. Len(c) : s[o + k] = c[k]
  BY DEF Behind
<1> HIDE DEF c, m, n, l
<1>4. o + m <= l /\ (o + m) + n <= l
  BY <1>1, <1>2, <1>3
<1>5. ASSUME NEW k \in 1 .. m
      PROVE  s[o + k] = a[k]
  <2>1. k \in 1 .. m + n /\ k <= m
    BY <1>2
  <2> QED
    BY <1>1, <1>3, <2>1
<1>6. ASSUME NEW k \in 1 .. n
      PROVE  s[(o + m) + k] = b[k]
  <2> DEFINE j == m + k
  <2>1. j \in 1 .. m + n /\ ~(j <= m) /\ j - m = k /\ o + j = (o + m) + k
    BY <1>2
  <2> HIDE DEF j
  <2>2. c[j] = b[j - m]
    BY <1>1, <2>1
  <2>3. s[o + j] = c[j]
    BY <1>1, <1>3, <2>1
  <2> QED
    BY <2>1, <2>2, <2>3
<1> QED
  BY <1>4, <1>5, <1>6 DEF Behind, m, n, l

LEMMA BehindOne ==
    ASSUME NEW s \in Seq(Byte), NEW o \in Nat, NEW x \in Byte, NEW b \in Seq(Byte),
           Behind(s, o, <<x>> \o b)
    PROVE  /\ o + 1 \in 1 .. Len(s) /\ s[o + 1] = x
           /\ Behind(s, o + 1, b)
<1> DEFINE t == <<x>>
<1>1. t \in Seq(Byte) /\ Len(t) = 1 /\ t[1] = x
  OBVIOUS
<1> HIDE DEF t
<1>2. Behind(s, o, t) /\ Behind(s, o + Len(t), b)
  BY <1>1, BehindSplit DEF t
<1>3. o + 1 <= Len(s) /\ s[o + 1] = x /\ Len(s) \in Nat
  <2>1. 1 \in 1 .. 1
    OBVIOUS
  <2> QED
    BY <1>1, <1>2, <2>1, LenProperties DEF Behind
<1> QED
  BY <1>1, <1>2, <1>3

LEMMA ShortNumbers ==
    ASSUME NEW t \in {0, 32, 64, 96, 128}, NEW n \in Nat, n <= 31
    PROVE  /\ t + n < 192 /\ t + n \in Byte
           /\ (t + n) % 32 = n /\ n % 32 = n /\ ((t + n) \div 32) * 32 = t
<1>1. CASE t = 0
  BY <1>1, SMT DEF Byte
<1>2. CASE t = 32
  BY <1>2, SMT DEF Byte
<1>3. CASE t = 64
  BY <1>3, SMT DEF Byte
<1>4. CASE t = 96
  BY <1>4, SMT DEF Byte
<1>5. CASE t = 128
  BY <1>5, SMT DEF Byte
<1> QED
  BY <1>1, <1>2, <1>3, <1>4, <1>5

LongTag(x, t, l) ==
    /\ x \in 192 .. 239 /\ x \in Byte /\ x % 8 = l /\ l % 8 = l
    /\ (((x * 4) % 256) \div 32) * 32 = t

LEMMA LongNumbers ==
    ASSUME NEW t \in {96, 128}, NEW l \in 1 .. 3
    PROVE  LongTag(192 + (t \div 4) + l, t, l)
<1>1. l = 1 \/ l = 2 \/ l = 3
  OBVIOUS
<1>2. CASE t = 96
  BY <1>1, <1>2, SMT DEF LongTag, Byte
<1>3. CASE t = 128
  BY <1>1, <1>3, SMT DEF LongTag, Byte
<1> QED
  BY <1>2, <1>3

LEMMA Concat ==
    ASSUME NEW S, NEW a \in Seq(S), NEW b \in Seq(S)
    PROVE  a \o b \in Seq(S) /\ Len(a \o b) = Len(a) + Len(b)
  BY ONLY ConcatProperties, a \in Seq(S), b \in Seq(S)

LEMMA ShortIs ==
    ASSUME NEW s, NEW i, s[i] < 192
    PROVE  Header(s, i) = [typetag |-> (s[i] \div 32) * 32, first |-> i + 0 + 1, last |-> i + 0 + (s[i] % 32)]
  BY DEF Header

LEMMA LongIs ==
    ASSUME NEW s, NEW i, ~(s[i] < 192)
    PROVE  Header(s, i) = [typetag |-> (((s[i] * 4) % 256) \div 32) * 32, first |-> i + (s[i] % 8) + 1,
          last |-> i + (s[i] % 8) + UnsignedValue(SubSeq(s, i + 1, i + (s[i] % 8)))]
  BY DEF Header

LEMMA ConcatOne == ASSUME NEW x \in Byte, NEW b \in Seq(Byte) PROVE <<x>> \o b \in Seq(Byte) /\ Len(<<x>> \o b) = 1 + Len(b)
<1> DEFINE a == <<x>>
<1>1. a \in Seq(Byte) /\ Len(a) = 1
  OBVIOUS
<1> HIDE DEF a
<1>2. a \o b \in Seq(Byte) /\ Len(a \o b) = Len(a) + Len(b)
  BY <1>1, Concat
<1> QED
  BY <1>1, <1>2 DEF a

LEMMA ShortHeader ==
    ASSUME NEW s \in Seq(Byte), NEW o \in Nat, NEW t \in {0, 32, 64, 96, 128},
           NEW b \in Seq(Byte), Len(b) <= 31, Behind(s, o, ShortForm(t, b))
    PROVE  /\ Header(s, o + 1) = [typetag |-> t, first |-> o + 2, last |-> o + 1 + Len(b)]
           /\ s[o + 1] < 192 /\ o + 1 + Len(b) <= Len(s)
           /\ SubSeq(s, o + 2, o + 1 + Len(b)) = b
           /\ ShortForm(t, b) \in Seq(Byte) /\ Len(ShortForm(t, b)) = 1 + Len(b)
<1> DEFINE n == Len(b)
           x == t + n
<1>1. n \in Nat
  BY LenProperties
<1>2. x < 192 /\ x \in Byte /\ x % 32 = n /\ n % 32 = n /\ (x \div 32) * 32 = t
  BY <1>1, ShortNumbers
<1>3. ShortForm(t, b) = <<x>> \o b
  <2>1. t + (Len(b) % 32) = x
    BY <1>2
  <2> QED
    BY <2>1, Zenon DEF ShortForm
<1> HIDE DEF x
<1>4. s[o + 1] = x /\ Behind(s, o + 1, b)
  BY <1>2, <1>3, BehindOne
<1>5. SubSeq(s, (o + 1) + 1, (o + 1) + n) = b /\ (o + 1) + n <= Len(s)
  <2>1. o + 1 \in Nat
    OBVIOUS
  <2> QED
    BY <1>4, <2>1, BehindIs DEF Behind
<1>6. <<x>> \o b \in Seq(Byte) /\ Len(<<x>> \o b) = 1 + n
  BY <1>2, ConcatOne
<1> HIDE DEF n
<1>7. (o + 1) + 1 = o + 2 /\ (o + 1) + 0 + 1 = o + 2 /\ (o + 1) + 0 + n = o + 1 + n /\ (o + 1) + n = o + 1 + n
  BY <1>1
<1>8. Header(s, o + 1) = [typetag |-> (x \div 32) * 32, first |-> (o + 1) + 0 + 1,
                          last |-> (o + 1) + 0 + (x % 32)]
  BY <1>2, <1>4, ShortIs
<1>9. Header(s, o + 1) = [typetag |-> t, first |-> o + 2, last |-> o + 1 + n]
  BY <1>2, <1>7, <1>8
<1> QED
  BY <1>2, <1>3, <1>4, <1>5, <1>6, <1>7, <1>9 DEF n

(* f is the length field of n bytes.                                        *)
IsLength(f, n) == f = UnsignedBytes(n) /\ Len(f) \in 1 .. 3 /\ UnsignedValue(f) = n

LongHeaderAt(s, o, t, b, f) ==
    LET e == o + 1 + Len(f)
    IN  /\ Header(s, o + 1) = [typetag |-> t, first |-> e + 1, last |-> e + Len(b)]
        /\ s[o + 1] >= 192 /\ s[o + 1] < 240 /\ e + Len(b) <= Len(s)
        /\ SubSeq(s, e + 1, e + Len(b)) = b
        /\ LongForm(t, b) \in Seq(Byte) /\ Len(LongForm(t, b)) = 1 + Len(f) + Len(b)

LEMMA LongHeader ==
    ASSUME NEW s \in Seq(Byte), NEW o \in Nat, NEW t \in {96, 128},
           NEW b \in Seq(Byte), NEW f \in Seq(Byte), IsLength(f, Len(b)),
           Behind(s, o, LongForm(t, b))
    PROVE  LongHeaderAt(s, o, t, b, f)
<1> DEFINE n == Len(b)
           l == Len(f)
           x == 192 + (t \div 4) + l
           e == o + 1 + l
<1>1. n \in Nat /\ l \in 1 .. 3
  BY LenProperties DEF IsLength
<1> HIDE DEF n, l
<1>0. LongTag(x, t, l)
  BY <1>1, LongNumbers, Zenon
<1>2. x \in 192 .. 239 /\ x \in Byte /\ x % 8 = l /\ l % 8 = l /\ (((x * 4) % 256) \div 32) * 32 = t
  BY <1>0, Zenon DEF LongTag
<1>3. LongForm(t, b) = <<x>> \o f \o b
  BY <1>2 DEF LongForm, IsLength, n, l
<1> HIDE DEF x
<1> DEFINE a == <<x>>
<1>4. a \in Seq(Byte) /\ Len(a) = 1
  BY <1>2
<1> HIDE DEF a
<1>5. /\ a \o f \in Seq(Byte) /\ Len(a \o f) = 1 + l
      /\ (a \o f) \o b \in Seq(Byte) /\ Len((a \o f) \o b) = 1 + l + n
  <2>1. a \o f \in Seq(Byte) /\ Len(a \o f) = 1 + Len(f)
    BY <1>2, ConcatOne DEF a
  <2>2. (a \o f) \o b \in Seq(Byte) /\ Len((a \o f) \o b) = Len(a \o f) + Len(b)
    BY <2>1, Concat
  <2> QED
    BY <1>4, <2>1, <2>2 DEF n, l
<1>6. Behind(s, o, a \o f) /\ Behind(s, o + (1 + l), b)
  <2> DEFINE c == a \o f
  <2>1. c \in Seq(Byte) /\ LongForm(t, b) = c \o b
    BY <1>3, <1>5 DEF a
  <2> HIDE DEF c
  <2>2. Behind(s, o, c) /\ Behind(s, o + Len(c), b)
    BY <2>1, BehindSplit
  <2> QED
    BY <1>5, <2>2 DEF c
<1>7. s[o + 1] = x /\ Behind(s, o + 1, f)
  BY <1>2, <1>6, BehindOne DEF a
<1>8. SubSeq(s, (o + 1) + 1, (o + 1) + l) = f
  <2>1. o + 1 \in Nat
    OBVIOUS
  <2> QED
    BY <1>7, <2>1, BehindIs DEF l
<1>9. SubSeq(s, (o + (1 + l)) + 1, (o + (1 + l)) + n) = b /\ (o + (1 + l)) + n <= Len(s)
  <2>1. o + (1 + l) \in Nat
    BY <1>1
  <2> QED
    BY <1>6, <2>1, BehindIs DEF Behind, n
<1> HIDE DEF e
<1>10. /\ o + (1 + l) = e /\ (o + 1) + l + 1 = e + 1 /\ (o + 1) + l + n = e + n
       /\ ~(x < 192) /\ x >= 192 /\ x < 240
  BY <1>1, <1>2 DEF e
<1>11. Header(s, o + 1) =
         [typetag |-> (((x * 4) % 256) \div 32) * 32, first |-> (o + 1) + (x % 8) + 1,
          last |-> (o + 1) + (x % 8) + UnsignedValue(SubSeq(s, (o + 1) + 1, (o + 1) + (x % 8)))]
  BY <1>7, <1>10, LongIs
<1>12. Header(s, o + 1) = [typetag |-> t, first |-> e + 1, last |-> e + n]
  <2>1. UnsignedValue(SubSeq(s, (o + 1) + 1, (o + 1) + (x % 8))) = n
    BY <1>2, <1>8 DEF n, IsLength
  <2> QED
    BY <1>2, <1>10, <1>11, <2>1
<1> QED
  BY <1>3, <1>5, <1>7, <1>9, <1>10, <1>12 DEF LongHeaderAt, n, l, e, a

-----------------------------------------------------------------------------
(* Numbers.                                                                 *)

(* Above the first m, b has only bytes that repeat the sign.                *)
SignAbove(b, m, n) == \A q \in m + 1 .. n : b[q] = IF b[m] >= 128 THEN 255 ELSE 0

LEMMA FirstBytes ==
    ASSUME NEW n \in Nat, NEW b \in [1 .. n -> Byte], NEW m \in 1 .. n
    PROVE  /\ SubSeq(b, 1, m) \in Seq(Byte) /\ Len(SubSeq(b, 1, m)) = m
           /\ \A i \in 1 .. m : SubSeq(b, 1, m)[i] = b[i]
           /\ SubSeq(b, 1, m) = [i \in 1 .. m |-> b[i]]
<1> DEFINE c == SubSeq(b, 1, m)
<1>1. \A i \in 1 .. m : b[i] \in Byte
  <2>1. \A i \in 1 .. m : i \in 1 .. n
    OBVIOUS
  <2> QED
    BY <2>1
<1>2. /\ c \in Seq(Byte)
      /\ Len(c) = IF 1 <= m THEN m - 1 + 1 ELSE 0
      /\ \A i \in 1 .. m - 1 + 1 : c[i] = b[1 + i - 1]
  <2>1. 1 \in Int /\ m \in Int
    OBVIOUS
  <2> QED
    BY <1>1, <2>1, SubSeqProperties
<1> HIDE DEF c
<1>3. Len(c) = m /\ \A i \in 1 .. m : c[i] = b[i]
  BY <1>2
<1>4. c = [i \in 1 .. m |-> b[i]]
  <2>1. c = [i \in 1 .. Len(c) |-> c[i]]
    BY <1>2
  <2> QED
    BY <1>3, <2>1
<1> QED
  BY <1>2, <1>3, <1>4 DEF c

LEMMA BySign ==
    ASSUME NEW x, NEW y, NEW z \in 0 .. 255
    PROVE  /\ x = (IF z >= 128 THEN 255 ELSE 0) /\ (y = z \/ y = IF z >= 128 THEN 255 ELSE 0)
                => (x = 255 /\ y >= 128) \/ (x = 0 /\ y < 128)
           /\ ((x = 255 /\ y >= 128) \/ (x = 0 /\ y < 128)) /\ (y = z \/ y = IF z >= 128 THEN 255 ELSE 0)
                => x = IF z >= 128 THEN 255 ELSE 0
<1>1. CASE z >= 128
  BY <1>1
<1>2. CASE ~(z >= 128)
  BY <1>2
<1> QED
  BY <1>1, <1>2

(* The bytes that byte_length_signed_little_endian leaves: the fewest above *)
(* which b only repeats the sign.                                           *)
LEMMA MinimalIs ==
    ASSUME NEW n \in Nat \ {0}, NEW b \in [1 .. n -> Byte]
    PROVE  \E m \in 1 .. n : /\ Minimal(b) = SubSeq(b, 1, m)
                             /\ SignAbove(b, m, n)
                             /\ \A k \in 1 .. n : SignAbove(b, k, n) => m <= k
<1> DEFINE Droppable(p) ==
             \A q \in (n - p + 1) .. n :
                 \/ b[q] = 255 /\ b[q - 1] >= 128
                 \/ b[q] = 0 /\ b[q - 1] < 128
           D == {p \in 0 .. n - 1 : Droppable(p)}
           T == {m \in 1 .. n : n - m \in D}
<1>1. Minimal(b) = SubSeq(b, 1, n - Max(D))
  <2>1. Len(b) = n
    OBVIOUS
  <2> QED
    BY <2>1 DEF Minimal
<1>2. n \in T
  <2>1. n - n = 0 /\ 0 \in 0 .. n - 1 /\ (n - 0 + 1) .. n = {}
    OBVIOUS
  <2>2. Droppable(0)
    BY <2>1
  <2> QED
    BY <2>1, <2>2
<1>3. \A k \in 1 .. n : SignAbove(b, k, n) => k \in T
  <2> SUFFICES ASSUME NEW k \in 1 .. n, SignAbove(b, k, n)
               PROVE  n - k \in D
    OBVIOUS
  <2>1. n - k \in 0 .. n - 1 /\ n - (n - k) + 1 = k + 1
    OBVIOUS
  <2>2. ASSUME NEW q \in k + 1 .. n
        PROVE  (b[q] = 255 /\ b[q - 1] >= 128) \/ (b[q] = 0 /\ b[q - 1] < 128)
    <3>1. b[q] = IF b[k] >= 128 THEN 255 ELSE 0
      BY DEF SignAbove
    <3>2. b[k] \in 0 .. 255
      BY DEF Byte
    <3>3. CASE q = k + 1
      <4>1. b[q - 1] = b[k]
        BY <3>3
      <4>2. PICK z \in 0 .. 255 : z = b[k]
        BY <3>2
      <4>3. PICK x : x = b[q]
        OBVIOUS
      <4>4. x = IF z >= 128 THEN 255 ELSE 0
        BY <3>1, <4>2, <4>3
      <4>5. (x = 255 /\ z >= 128) \/ (x = 0 /\ z < 128)
        BY ONLY <4>4, z \in 0 .. 255
      <4> QED
        BY <4>1, <4>2, <4>3, <4>5
    <3>4. CASE q # k + 1
      <4>1. q - 1 \in k + 1 .. n
        BY <3>4
      <4>2. b[q - 1] = IF b[k] >= 128 THEN 255 ELSE 0
        BY <4>1 DEF SignAbove
      <4>3. PICK z \in 0 .. 255 : z = b[k]
        BY <3>2
      <4>4. PICK x, y : x = b[q] /\ y = b[q - 1]
        OBVIOUS
      <4>5. x = IF z >= 128 THEN 255 ELSE 0
        BY <3>1, <4>3, <4>4
      <4>6. y = IF z >= 128 THEN 255 ELSE 0
        BY <4>2, <4>3, <4>4
      <4>7. (x = 255 /\ y >= 128) \/ (x = 0 /\ y < 128)
        BY ONLY <4>5, <4>6, z \in 0 .. 255
      <4> QED
        BY <4>4, <4>7
    <3> QED
      BY <3>3, <3>4
  <2> QED
    BY <2>1, <2>2
<1>4. PICK m \in T : \A y \in T : m <= y
  <2>1. T \subseteq Nat /\ T # {}
    <3> HIDE DEF D
    <3> QED
      BY <1>2
  <2> HIDE DEF T
  <2> QED
    BY <2>1, Least
<1>5. m \in 1 .. n /\ n - m \in D /\ n - m \in 0 .. n - 1 /\ Droppable(n - m)
  BY <1>4
<1>d. \A q \in (n - (n - m) + 1) .. n : (b[q] = 255 /\ b[q - 1] >= 128) \/ (b[q] = 0 /\ b[q - 1] < 128)
  <2> HIDE DEF T, D
  <2> QED
    BY <1>5, Zenon
<1>6. \A p \in D : p \in 0 .. n - 1 /\ n - p \in T
  OBVIOUS
<1>7. \A p \in D : n - m >= p
  <2> SUFFICES ASSUME NEW p \in D PROVE n - m >= p
    OBVIOUS
  <2>1. p \in 0 .. n - 1 /\ n - p \in T
    BY <1>6
  <2> HIDE DEF T, D
  <2>2. m <= n - p
    BY <1>4, <2>1
  <2> QED
    BY <1>5, <2>1, <2>2
<1>8. Max(D) = n - m
  <2>1. \A x, y \in D : (\A p \in D : x >= p) /\ (\A p \in D : y >= p) => x = y
    <3> SUFFICES ASSUME NEW x \in D, NEW y \in D, x >= y, y >= x PROVE x = y
      OBVIOUS
    <3> QED
      OBVIOUS
  <2> HIDE DEF D
  <2> QED
    BY <1>5, <1>7, <2>1 DEF Max
<1>9. SignAbove(b, m, n)
  <2> DEFINE S == {d \in Nat : (m + 1) + d <= n => b[(m + 1) + d] = IF b[m] >= 128 THEN 255 ELSE 0}
  <2>1. \A q \in m + 1 .. n : (b[q] = 255 /\ b[q - 1] >= 128) \/ (b[q] = 0 /\ b[q - 1] < 128)
    <3>1. n - (n - m) + 1 = m + 1
      BY <1>5
    <3> QED
      BY <1>d, <3>1, Zenon
  <2> HIDE DEF T, D
  <2>2. b[m] \in 0 .. 255
    BY <1>5 DEF Byte
  <2>3. 0 \in S
    <3> SUFFICES ASSUME m + 1 <= n PROVE b[m + 1] = IF b[m] >= 128 THEN 255 ELSE 0
      BY <1>5
    <3>1. m + 1 \in m + 1 .. n /\ (m + 1) - 1 = m
      BY <1>5
    <3>2. (b[m + 1] = 255 /\ b[m] >= 128) \/ (b[m + 1] = 0 /\ b[m] < 128)
      <4>1. (b[m + 1] = 255 /\ b[(m + 1) - 1] >= 128) \/ (b[m + 1] = 0 /\ b[(m + 1) - 1] < 128)
        BY <2>1, <3>1
      <4> QED
        BY <3>1, <4>1
    <3>3. PICK z \in 0 .. 255 : z = b[m]
      BY <2>2
    <3>4. PICK x : x = b[m + 1]
      OBVIOUS
    <3>5. (x = 255 /\ z >= 128) \/ (x = 0 /\ z < 128)
      BY <3>2, <3>3, <3>4
    <3>6. x = IF z >= 128 THEN 255 ELSE 0
      BY ONLY <3>5, z \in 0 .. 255
    <3> QED
      BY <3>3, <3>4, <3>6
  <2>4. ASSUME NEW d \in Nat, d \in S
        PROVE  d + 1 \in S
    <3> DEFINE q == (m + 1) + (d + 1)
               r == (m + 1) + d
    <3> SUFFICES ASSUME q <= n PROVE b[q] = IF b[m] >= 128 THEN 255 ELSE 0
      OBVIOUS
    <3>1. q \in m + 1 .. n /\ q - 1 = r /\ r <= n
      BY <1>5
    <3>2. b[r] = IF b[m] >= 128 THEN 255 ELSE 0
      BY <2>4, <3>1
    <3> HIDE DEF q, r
    <3>3. (b[q] = 255 /\ b[r] >= 128) \/ (b[q] = 0 /\ b[r] < 128)
      BY <2>1, <3>1
    <3> QED
      BY <2>2, <3>2, <3>3, BySign
  <2> HIDE DEF S
  <2>5. Nat \subseteq S
    BY <2>3, <2>4, Induction
  <2> SUFFICES ASSUME NEW q \in m + 1 .. n
               PROVE  b[q] = IF b[m] >= 128 THEN 255 ELSE 0
    BY DEF SignAbove
  <2>6. q - (m + 1) \in Nat /\ (m + 1) + (q - (m + 1)) = q /\ q <= n
    BY <1>5
  <2>7. q - (m + 1) \in S
    BY <2>5, <2>6
  <2> QED
    BY <2>6, <2>7 DEF S
<1>10. n - Max(D) = m
  <2> HIDE DEF D
  <2> QED
    BY <1>5, <1>8
<1> HIDE DEF D
<1> QED
  <2> HIDE DEF T
  <2>1. \A k \in 1 .. n : SignAbove(b, k, n) => m <= k
    BY <1>3, <1>4
  <2> QED
    BY <1>1, <1>5, <1>9, <1>10, <2>1

(* The first k bytes of b.                                                  *)
Firsts(b, k) == [i \in 1 .. k |-> b[i]]

(* The bytes that are left, read again.                                     *)
LEMMA ExtendedBack ==
    ASSUME NEW n \in Nat \ {0}, NEW b \in [1 .. n -> Byte], NEW m \in 1 .. n, SignAbove(b, m, n),
           NEW k \in m .. n
    PROVE  Extended(SubSeq(b, 1, m), k) = Firsts(b, k)
<1> DEFINE c == SubSeq(b, 1, m)
<1>1. Len(c) = m /\ \A i \in 1 .. m : c[i] = b[i]
  BY FirstBytes
<1> HIDE DEF c
<1>2. Negative(c) <=> b[m] >= 128
  BY <1>1 DEF Negative, Last
<1>3. ASSUME NEW i \in 1 .. k
      PROVE  (IF i <= m THEN c[i] ELSE IF Negative(c) THEN 255 ELSE 0) = b[i]
  <2>1. CASE i <= m
    BY <1>1, <2>1
  <2>2. CASE ~(i <= m)
    <3>1. i \in m + 1 .. n
      BY <2>2
    <3> QED
      BY <1>2, <2>2, <3>1 DEF SignAbove
  <2> QED
    BY <2>1, <2>2
<1>4. Extended(c, k) = [i \in 1 .. k |-> IF i <= m THEN c[i] ELSE IF Negative(c) THEN 255 ELSE 0]
  BY <1>1 DEF Extended
<1>5. Extended(c, k) = [i \in 1 .. k |-> b[i]]
  BY <1>3, <1>4
<1> QED
  BY <1>5 DEF c, Firsts

IntBytes == [1 .. IntSize -> Byte]
LongBytes == [1 .. LongSize -> Byte]

(* An int is read as it was written.                                        *)
LEMMA IntBack ==
    ASSUME NEW b \in IntBytes
    PROVE  /\ Minimal(b) \in Seq(Byte) /\ Len(Minimal(b)) \in 1 .. 8
           /\ ReadInt(Minimal(b)) = IntV(b)
<1>1. b \in [1 .. 4 -> Byte] /\ 4 \in Nat \ {0}
  BY DEF IntBytes, IntSize
<1>2. PICK m \in 1 .. 4 : Minimal(b) = SubSeq(b, 1, m) /\ SignAbove(b, m, 4)
  BY <1>1, MinimalIs
<1> DEFINE c == SubSeq(b, 1, m)
<1>3. c \in Seq(Byte) /\ Len(c) = m
  BY <1>1, FirstBytes
<1>4. Extended(c, 4) = b
  <2>1. 4 \in m .. 4
    OBVIOUS
  <2>2. Extended(c, 4) = Firsts(b, 4)
    BY <1>1, <1>2, <2>1, ExtendedBack
  <2> QED
    BY <1>1, <2>2 DEF Firsts
<1> HIDE DEF c
<1>5. ReadInt(c) = IntV(b)
  <2>1. c # <<>> /\ Len(c) \in 1 .. IntSize /\ ~(Len(c) > LongSize)
    BY <1>3 DEF IntSize, LongSize
  <2>2. ReadInt(c) = IntV(Extended(c, IntSize))
    BY <2>1, Zenon DEF ReadInt
  <2> QED
    BY <1>4, <2>2 DEF IntSize
<1> QED
  BY <1>2, <1>3, <1>5 DEF c

LEMMA SubSeqFour ==
    ASSUME NEW b \in [1 .. 8 -> Byte], NEW m \in 1 .. 4, SignAbove(b, m, 8)
    PROVE  /\ b = Extended(SubSeq(b, 1, 4), 8)
           /\ Extended(SubSeq(b, 1, m), 4) = SubSeq(b, 1, 4)
<1>1. 8 \in Nat \ {0} /\ m \in 1 .. 8 /\ 4 \in 1 .. 8 /\ 4 \in m .. 8 /\ 8 \in 4 .. 8
  OBVIOUS
<1>2. SubSeq(b, 1, 4) = [i \in 1 .. 4 |-> b[i]]
  BY <1>1, FirstBytes
<1>3. Extended(SubSeq(b, 1, m), 4) = Firsts(b, 4)
  BY <1>1, ExtendedBack
<1>4. SignAbove(b, 4, 8)
  <2>1. CASE m = 4
    BY <2>1
  <2>2. CASE m # 4
    <3>1. \A q \in m + 1 .. 8 : b[q] = IF b[m] >= 128 THEN 255 ELSE 0
      BY DEF SignAbove
    <3>2. 4 \in m + 1 .. 8 /\ \A q \in 4 + 1 .. 8 : q \in m + 1 .. 8
      BY <2>2
    <3>3. b[4] = IF b[m] >= 128 THEN 255 ELSE 0
      BY <3>1, <3>2
    <3>4. (b[4] >= 128) <=> (b[m] >= 128)
      BY <3>3
    <3>5. \A q \in 4 + 1 .. 8 : b[q] = IF b[4] >= 128 THEN 255 ELSE 0
      BY <3>1, <3>2, <3>4
    <3> QED
      BY <3>5 DEF SignAbove
  <2> QED
    BY <2>1, <2>2
<1>5. Extended(SubSeq(b, 1, 4), 8) = Firsts(b, 8)
  BY <1>1, <1>4, ExtendedBack
<1> QED
  BY <1>2, <1>3, <1>5 DEF Firsts

(* A long is read as it was written, and as an int when it is a small one.  *)
LEMMA LongBack ==
    ASSUME NEW b \in LongBytes
    PROVE  /\ Minimal(b) \in Seq(Byte) /\ Len(Minimal(b)) \in 1 .. 8
           /\ ReadInt(Minimal(b)) = Normal(LongV(b))
           /\ Extended(Minimal(b), LongSize) = b
<1>1. b \in [1 .. 8 -> Byte] /\ 8 \in Nat \ {0}
  BY DEF LongBytes, LongSize
<1>2. PICK m \in 1 .. 8 : /\ Minimal(b) = SubSeq(b, 1, m) /\ SignAbove(b, m, 8)
                          /\ \A k \in 1 .. 8 : SignAbove(b, k, 8) => m <= k
  BY <1>1, MinimalIs
<1> DEFINE c == SubSeq(b, 1, m)
           d == SubSeq(b, 1, 4)
<1>3. c \in Seq(Byte) /\ Len(c) = m
  BY <1>1, FirstBytes
<1>4. Extended(c, 8) = b
  <2>1. 8 \in m .. 8
    OBVIOUS
  <2>2. Extended(c, 8) = Firsts(b, 8)
    BY <1>1, <1>2, <2>1, ExtendedBack
  <2> QED
    BY <1>1, <2>2 DEF Firsts
<1>n. Normal(LongV(b)) = IF b = Extended(d, 8) THEN IntV(d) ELSE LongV(b)
  <2>1. LongV(b).t = "long" /\ LongV(b).b = b
    BY DEF LongV
  <2> HIDE DEF d
  <2> DEFINE v == LongV(b)
  <2> HIDE DEF v
  <2>2. v.t = "long" /\ v.b = b
    BY <2>1 DEF v
  <2>3. Normal(v) = IF b = Extended(SubSeq(b, 1, 4), 8) THEN IntV(SubSeq(b, 1, 4)) ELSE v
    BY <2>2 DEF Normal, IntSize, LongSize
  <2> QED
    BY <2>3 DEF v, d
<1>5. CASE m <= 4
  <2>1. m \in 1 .. 4
    BY <1>5
  <2>2. b = Extended(d, 8) /\ Extended(c, 4) = d
    BY <1>1, <1>2, <2>1, SubSeqFour
  <2> HIDE DEF c, d
  <2>3. c # <<>> /\ Len(c) \in 1 .. IntSize /\ ~(Len(c) > LongSize)
    BY <1>3, <2>1 DEF IntSize, LongSize
  <2>4. ReadInt(c) = IntV(Extended(c, IntSize))
    BY <2>3, Zenon DEF ReadInt
  <2>5. ReadInt(c) = Normal(LongV(b))
    BY <1>n, <2>2, <2>4 DEF IntSize
  <2> QED
    BY <1>2, <1>3, <1>4, <2>5 DEF c, LongSize
<1>6. CASE ~(m <= 4)
  <2>1. b # Extended(d, 8)
    <3> SUFFICES ASSUME b = Extended(d, 8) PROVE FALSE
      OBVIOUS
    <3>1. Len(d) = 4 /\ \A i \in 1 .. 4 : d[i] = b[i]
      <4>1. 4 \in 1 .. 8
        OBVIOUS
      <4> QED
        BY <1>1, <4>1, FirstBytes
    <3> DEFINE x == Extended(d, 8)
    <3>2. \A i \in 1 .. 8 : x[i] = IF i <= 4 THEN d[i] ELSE IF Negative(d) THEN 255 ELSE 0
      <4> HIDE DEF d
      <4> QED
        BY <3>1 DEF Extended
    <3> HIDE DEF x, d
    <3>3. Negative(d) <=> b[4] >= 128
      BY <3>1 DEF Negative, Last
    <3>x. b = x
      BY DEF x
    <3>4. \A q \in 4 + 1 .. 8 : b[q] = IF b[4] >= 128 THEN 255 ELSE 0
      <4>1. \A q \in 4 + 1 .. 8 : q \in 1 .. 8 /\ ~(q <= 4)
        OBVIOUS
      <4>2. \A q \in 4 + 1 .. 8 : x[q] = IF Negative(d) THEN 255 ELSE 0
        BY <3>2, <4>1
      <4> QED
        BY <3>x, <3>3, <4>2
    <3>5. SignAbove(b, 4, 8) /\ 4 \in 1 .. 8
      BY <3>4 DEF SignAbove
    <3> QED
      BY <1>2, <1>6, <3>5
  <2> HIDE DEF c, d
  <2>2. c # <<>> /\ ~(Len(c) \in 1 .. IntSize) /\ ~(Len(c) > LongSize)
    BY <1>3, <1>6 DEF IntSize, LongSize
  <2>3. ReadInt(c) = LongV(Extended(c, LongSize))
    BY <2>2, Zenon DEF ReadInt
  <2>4. ReadInt(c) = Normal(LongV(b))
    BY <1>n, <1>4, <2>1, <2>3 DEF LongSize
  <2> QED
    BY <1>2, <1>3, <1>4, <2>4 DEF c, LongSize
<1> QED
  BY <1>5, <1>6

-----------------------------------------------------------------------------
(* Tokens.                                                                  *)

(* The variants a message is made of.                                       *)
Texts == {b \in Seq(Byte) : Len(b) < LengthLimit}
Token ==
    {Void, ArrayBegin, ArrayEnd, AssocBegin, AssocEnd}
    \cup {Bool(v) : v \in BOOLEAN}
    \cup {IntV(b) : b \in IntBytes} \cup {LongV(b) : b \in LongBytes}
    \cup {Double(b) : b \in LongBytes} \cup {String(b) : b \in Texts}
    \cup {ObjectRef(remote, id) : remote \in BOOLEAN, id \in LongBytes}

(* Written bytes w that are read as v wherever they stand.                  *)
ReadsAs(w, v) ==
    /\ w \in Seq(Byte) /\ Len(w) \in Nat \ {0}
    /\ \A s \in Seq(Byte), o \in Nat :
         Behind(s, o, w) => /\ o + 1 \in 1 .. Len(s)
                            /\ ReadToken(s, o + 1) = <<v, o + 1 + Len(w)>>

(* Data with a one-byte header.                                             *)
LEMMA ReadsShort ==
    ASSUME NEW t \in {0, 32, 64, 96}, NEW b \in Seq(Byte), Len(b) <= 31
    PROVE  ReadsAs(ShortForm(t, b), ReadData(t, b))
<1> DEFINE w == ShortForm(t, b)
           n == Len(b)
           v == ReadData(t, b)
<1>1. n \in Nat
  BY LenProperties
<1>2. w \in Seq(Byte) /\ Len(w) = 1 + n
  <2>1. t + n \in Byte /\ n % 32 = n
    BY <1>1, ShortNumbers
  <2>2. w = <<t + n>> \o b
    BY <2>1 DEF ShortForm
  <2> HIDE DEF w, n
  <2> QED
    BY <2>1, <2>2, ConcatOne DEF n
<1>3. ASSUME NEW s \in Seq(Byte), NEW o \in Nat, Behind(s, o, w)
      PROVE  o + 1 \in 1 .. Len(s) /\ ReadToken(s, o + 1) = <<v, o + 1 + Len(w)>>
  <2>1. /\ Header(s, o + 1) = [typetag |-> t, first |-> o + 2, last |-> o + 1 + n]
        /\ s[o + 1] < 192 /\ o + 1 + n <= Len(s)
        /\ SubSeq(s, o + 2, o + 1 + n) = b
    BY <1>3, ShortHeader
  <2> DEFINE h == Header(s, o + 1)
  <2>2. h.typetag = t /\ h.first = o + 2 /\ h.last = o + 1 + n
    BY <2>1
  <2>b. s[o + 1] \in 0 .. 255
    <3>1. o + 1 \in 1 .. Len(s)
      BY <1>1, <2>1, LenProperties
    <3> QED
      BY <3>1, ElementOfSeq DEF Byte
  <2>3. /\ ~(s[o + 1] >= 240) /\ ~(h.first > Len(s) + 1) /\ ~(h.last > Len(s))
        /\ o + 1 \in 1 .. Len(s) /\ h.last + 1 = o + 1 + Len(w)
    <3> HIDE DEF h, n, w
    <3>1. Len(s) \in Nat
      BY LenProperties
    <3>2. ~(s[o + 1] >= 240)
      <4> DEFINE x == s[o + 1]
      <4> HIDE DEF x
      <4>1. x \in 0 .. 255 /\ x < 192
        BY <2>1, <2>b DEF x
      <4>2. ~(x >= 240)
        BY <4>1
      <4> QED
        BY <4>2 DEF x
    <3> DEFINE y == h.first
               z == h.last
               u == Len(w)
    <3> HIDE DEF y, z, u
    <3>3. ~(y > Len(s) + 1) /\ ~(z > Len(s)) /\ z + 1 = o + 1 + u
      BY <1>1, <1>2, <2>1, <2>2, <3>1 DEF y, z, u
    <3>4. o + 1 \in 1 .. Len(s)
      BY <1>1, <2>1, <3>1
    <3> QED
      BY <3>2, <3>3, <3>4 DEF y, z, u
  <2>4. ReadToken(s, o + 1) = <<ReadData(h.typetag, SubSeq(s, h.first, h.last)), h.last + 1>>
    <3> HIDE DEF n, w
    <3> QED
      BY <2>3, Zenon DEF ReadToken
  <2> HIDE DEF h, w, n, v
  <2>5. SubSeq(s, h.first, h.last) = b
    BY <2>1, <2>2
  <2>6. ReadToken(s, o + 1) = <<v, o + 1 + Len(w)>>
    BY <2>2, <2>3, <2>4, <2>5 DEF v
  <2> QED
    BY <2>3, <2>6
<1> QED
  <2> HIDE DEF n, w, v
  <2>1. Len(w) \in Nat \ {0}
    BY <1>1, <1>2
  <2>2. ReadsAs(w, v)
    BY <1>2, <1>3, <2>1 DEF ReadsAs
  <2> QED
    BY <2>2 DEF w, v

(* Data with a length field.                                                *)
LEMMA ReadsLong ==
    ASSUME NEW b \in Seq(Byte), NEW f \in Seq(Byte), IsLength(f, Len(b))
    PROVE  ReadsAs(LongForm(96, b), ReadData(96, b))
<1> DEFINE w == LongForm(96, b)
           n == Len(b)
           l == Len(f)
           v == ReadData(96, b)
<1>1. n \in Nat /\ l \in 1 .. 3
  BY LenProperties DEF IsLength
<1>2. w \in Seq(Byte) /\ Len(w) = 1 + l + n
  <2> DEFINE x == 192 + (96 \div 4) + l
  <2>0. LongTag(x, 96, l)
    BY <1>1, LongNumbers, Zenon
  <2>1. x \in Byte /\ l % 8 = l
    BY <2>0, Zenon DEF LongTag
  <2>2. w = <<x>> \o f \o b
    BY <2>1 DEF LongForm, IsLength
  <2> HIDE DEF x, w, n
  <2>3. <<x>> \o f \in Seq(Byte) /\ Len(<<x>> \o f) = 1 + l
    BY <2>1, ConcatOne
  <2> DEFINE a == <<x>> \o f
  <2> HIDE DEF a
  <2>4. a \o b \in Seq(Byte) /\ Len(a \o b) = Len(a) + Len(b)
    BY <2>3, Concat DEF a
  <2> QED
    BY <2>2, <2>3, <2>4 DEF a, n
<1>3. ASSUME NEW s \in Seq(Byte), NEW o \in Nat, Behind(s, o, w)
      PROVE  o + 1 \in 1 .. Len(s) /\ ReadToken(s, o + 1) = <<v, o + 1 + Len(w)>>
  <2> DEFINE e == o + 1 + l
  <2>1. /\ Header(s, o + 1) = [typetag |-> 96, first |-> e + 1, last |-> e + n]
        /\ s[o + 1] >= 192 /\ s[o + 1] < 240 /\ e + n <= Len(s)
        /\ SubSeq(s, e + 1, e + n) = b
    <3>1. LongHeaderAt(s, o, 96, b, f)
      BY <1>3, LongHeader, Zenon
    <3> QED
      BY <3>1 DEF LongHeaderAt
  <2> DEFINE h == Header(s, o + 1)
  <2>2. h.typetag = 96 /\ h.first = e + 1 /\ h.last = e + n
    BY <2>1
  <2>b. s[o + 1] \in 0 .. 255
    <3>1. o + 1 \in 1 .. Len(s)
      BY <1>1, <2>1, LenProperties
    <3> QED
      BY <3>1, ElementOfSeq DEF Byte
  <2>3. /\ ~(s[o + 1] >= 240) /\ ~(h.first > Len(s) + 1) /\ ~(h.last > Len(s))
        /\ o + 1 \in 1 .. Len(s) /\ h.last + 1 = o + 1 + Len(w)
    <3> HIDE DEF h, n, w, l
    <3>1. Len(s) \in Nat
      BY LenProperties
    <3>2. ~(s[o + 1] >= 240)
      <4> DEFINE x == s[o + 1]
      <4> HIDE DEF x
      <4>1. x \in 0 .. 255 /\ x < 240
        BY <2>1, <2>b DEF x
      <4>2. ~(x >= 240)
        BY <4>1
      <4> QED
        BY <4>2 DEF x
    <3> DEFINE y == h.first
               z == h.last
               u == Len(w)
    <3> HIDE DEF y, z, u
    <3>3. ~(y > Len(s) + 1) /\ ~(z > Len(s)) /\ z + 1 = o + 1 + u
      BY <1>1, <1>2, <2>1, <2>2, <3>1 DEF y, z, u
    <3>4. o + 1 \in 1 .. Len(s)
      BY <1>1, <2>1, <3>1
    <3> QED
      BY <3>2, <3>3, <3>4 DEF y, z, u
  <2>4. ReadToken(s, o + 1) = <<ReadData(h.typetag, SubSeq(s, h.first, h.last)), h.last + 1>>
    <3> HIDE DEF n, w, l
    <3> QED
      BY <2>3, Zenon DEF ReadToken
  <2> HIDE DEF h, w, n, v, e
  <2>5. SubSeq(s, h.first, h.last) = b
    BY <2>1, <2>2
  <2>6. ReadToken(s, o + 1) = <<v, o + 1 + Len(w)>>
    BY <2>2, <2>3, <2>4, <2>5 DEF v
  <2> QED
    BY <2>3, <2>6
<1> QED
  <2> HIDE DEF n, w, v, l
  <2>1. Len(w) \in Nat \ {0}
    BY <1>1, <1>2
  <2>2. ReadsAs(w, v)
    BY <1>2, <1>3, <2>1 DEF ReadsAs
  <2> QED
    BY <2>2 DEF w, v

LEMMA ReadsImmediate ==
    ASSUME NEW x \in 240 .. 255
    PROVE  ReadsAs(<<x>>, Immediate(x))
<1> DEFINE w == <<x>>
           v == Immediate(x)
<1>1. w \in Seq(Byte) /\ Len(w) = 1 /\ w[1] = x
  BY DEF Byte
<1>2. ASSUME NEW s \in Seq(Byte), NEW o \in Nat, Behind(s, o, w)
      PROVE  o + 1 \in 1 .. Len(s) /\ ReadToken(s, o + 1) = <<v, o + 1 + Len(w)>>
  <2>1. o + 1 \in 1 .. Len(s) /\ s[o + 1] = x
    <3>1. o + 1 <= Len(s) /\ \A k \in 1 .. 1 : s[o + k] = w[k]
      BY <1>1, <1>2 DEF Behind
    <3>2. s[o + 1] = w[1]
      BY <3>1
    <3> QED
      BY <1>1, <3>1, <3>2, LenProperties
  <2>2. s[o + 1] >= 240
    BY <2>1
  <2>3. ReadToken(s, o + 1) = <<Immediate(s[o + 1]), (o + 1) + 1>>
    BY <2>2, Zenon DEF ReadToken
  <2> HIDE DEF w, v
  <2> QED
    BY <1>1, <2>1, <2>3 DEF v
<1> QED
  <2> HIDE DEF w, v
  <2>1. Len(w) \in Nat \ {0}
    BY <1>1
  <2>2. ReadsAs(w, v)
    BY <1>1, <1>2, <2>1 DEF ReadsAs
  <2> QED
    BY <2>2 DEF w, v

LEMMA BytesAreSeq ==
    ASSUME NEW n \in Nat, NEW b \in [1 .. n -> Byte]
    PROVE  b \in Seq(Byte) /\ Len(b) = n
<1>1. Len(b) = n
  OBVIOUS
<1>2. b \in Seq(Byte)
  BY SeqDef
<1> QED
  BY <1>1, <1>2

LEMMA NormalIs ==
    ASSUME NEW v, v.t # "long"
    PROVE  Normal(v) = v
  BY DEF Normal

(* Every token is read as it was written.                                   *)
LEMMA TokenReads ==
    ASSUME NEW v \in Token
    PROVE  ReadsAs(WriteToken(v), Normal(v))
<1>v. CASE v = Void
  <2>1. v.t = "void"
    BY <1>v DEF Void
  <2>2. WriteToken(v) = <<240>> /\ Normal(v) = v
    BY <2>1, NormalIs DEF WriteToken
  <2>3. Immediate(240) = Void
    BY DEF Immediate
  <2> QED
    BY <1>v, <2>2, <2>3, ReadsImmediate
<1>b. ASSUME NEW x \in BOOLEAN, v = Bool(x)
      PROVE  ReadsAs(WriteToken(v), Normal(v))
  <2>1. v.t = "bool" /\ v.v = x
    BY <1>b DEF Bool
  <2>2. Normal(v) = v
    BY <2>1, NormalIs
  <2>3. CASE x = TRUE
    <3>1. WriteToken(v) = <<243>>
      BY <2>1, <2>3 DEF WriteToken
    <3>2. Immediate(243) = v
      <4>1. Immediate(243) = Bool(243 = 243)
        BY DEF Immediate
      <4>2. (243 = 243) = x
        BY <2>3
      <4> QED
        BY <1>b, <4>1, <4>2, Zenon
    <3> QED
      BY <2>2, <3>1, <3>2, ReadsImmediate
  <2>4. CASE x = FALSE
    <3>1. WriteToken(v) = <<242>>
      BY <2>1, <2>4 DEF WriteToken
    <3>2. Immediate(242) = v
      BY <1>b, <2>4 DEF Immediate, Bool
    <3> QED
      BY <2>2, <3>1, <3>2, ReadsImmediate
  <2> QED
    BY <2>3, <2>4
<1>a. CASE v = ArrayBegin
  <2>1. v.t = "array"
    BY <1>a DEF ArrayBegin
  <2>2. WriteToken(v) = <<244>> /\ Normal(v) = v
    BY <2>1, NormalIs DEF WriteToken
  <2>3. Immediate(244) = ArrayBegin
    BY DEF Immediate
  <2> QED
    BY <1>a, <2>2, <2>3, ReadsImmediate
<1>c. CASE v = ArrayEnd
  <2>1. v.t = "end_array"
    BY <1>c DEF ArrayEnd
  <2>2. WriteToken(v) = <<245>> /\ Normal(v) = v
    BY <2>1, NormalIs DEF WriteToken
  <2>3. Immediate(245) = ArrayEnd
    BY DEF Immediate
  <2> QED
    BY <1>c, <2>2, <2>3, ReadsImmediate
<1>d. CASE v = AssocBegin
  <2>1. v.t = "assoc"
    BY <1>d DEF AssocBegin
  <2>2. WriteToken(v) = <<246>> /\ Normal(v) = v
    BY <2>1, NormalIs DEF WriteToken
  <2>3. Immediate(246) = AssocBegin
    BY DEF Immediate
  <2> QED
    BY <1>d, <2>2, <2>3, ReadsImmediate
<1>e. CASE v = AssocEnd
  <2>1. v.t = "end_assoc"
    BY <1>e DEF AssocEnd
  <2>2. WriteToken(v) = <<247>> /\ Normal(v) = v
    BY <2>1, NormalIs DEF WriteToken
  <2>3. Immediate(247) = AssocEnd
    BY DEF Immediate
  <2> QED
    BY <1>e, <2>2, <2>3, ReadsImmediate
<1>i. ASSUME NEW b \in IntBytes, v = IntV(b)
      PROVE  ReadsAs(WriteToken(v), Normal(v))
  <2>1. v.t = "int" /\ v.b = b
    BY <1>i DEF IntV
  <2>2. WriteToken(v) = ShortForm(0, Minimal(b)) /\ Normal(v) = v
    BY <2>1, NormalIs DEF WriteToken
  <2>3. Minimal(b) \in Seq(Byte) /\ Len(Minimal(b)) <= 31 /\ ReadInt(Minimal(b)) = v
    <3>1. Minimal(b) \in Seq(Byte) /\ Len(Minimal(b)) \in 1 .. 8 /\ ReadInt(Minimal(b)) = IntV(b)
      BY IntBack
    <3>2. \A x \in 1 .. 8 : x <= 31
      OBVIOUS
    <3> QED
      BY <1>i, <3>1, <3>2
  <2>4. ReadData(0, Minimal(b)) = v
    BY <2>3 DEF ReadData
  <2>5. ReadsAs(ShortForm(0, Minimal(b)), ReadData(0, Minimal(b)))
    BY <2>3, ReadsShort
  <2> QED
    BY <2>2, <2>4, <2>5
<1>l. ASSUME NEW b \in LongBytes, v = LongV(b)
      PROVE  ReadsAs(WriteToken(v), Normal(v))
  <2>1. v.t = "long" /\ v.b = b
    BY <1>l DEF LongV
  <2>2. WriteToken(v) = ShortForm(0, Minimal(b))
    BY <2>1 DEF WriteToken
  <2>3. Minimal(b) \in Seq(Byte) /\ Len(Minimal(b)) <= 31 /\ ReadInt(Minimal(b)) = Normal(v)
    <3>1. Minimal(b) \in Seq(Byte) /\ Len(Minimal(b)) \in 1 .. 8 /\ ReadInt(Minimal(b)) = Normal(LongV(b))
      BY LongBack
    <3>2. \A x \in 1 .. 8 : x <= 31
      OBVIOUS
    <3> QED
      BY <1>l, <3>1, <3>2
  <2>4. ReadData(0, Minimal(b)) = Normal(v)
    BY <2>3 DEF ReadData
  <2>5. ReadsAs(ShortForm(0, Minimal(b)), ReadData(0, Minimal(b)))
    BY <2>3, ReadsShort
  <2> QED
    BY <2>2, <2>4, <2>5
<1>f. ASSUME NEW b \in LongBytes, v = Double(b)
      PROVE  ReadsAs(WriteToken(v), Normal(v))
  <2>1. v.t = "double" /\ v.b = b
    BY <1>f DEF Double
  <2>2. WriteToken(v) = ShortForm(32, b) /\ Normal(v) = v
    BY <2>1, NormalIs DEF WriteToken
  <2>3. b \in Seq(Byte) /\ Len(b) = 8 /\ Len(b) <= 31
    <3>1. b \in [1 .. 8 -> Byte]
      BY DEF LongBytes, LongSize
    <3>2. 8 \in Nat /\ \A x : x = 8 => x <= 31
      OBVIOUS
    <3>3. b \in Seq(Byte) /\ Len(b) = 8
      BY <3>1, <3>2, BytesAreSeq
    <3> QED
      BY <3>2, <3>3
  <2>4. ReadData(32, b) = v
    BY <1>f, <2>3 DEF ReadData, ReadDouble, LongSize
  <2>5. ReadsAs(ShortForm(32, b), ReadData(32, b))
    BY <2>3, ReadsShort
  <2> QED
    BY <2>2, <2>4, <2>5
<1>s. ASSUME NEW b \in Texts, v = String(b)
      PROVE  ReadsAs(WriteToken(v), Normal(v))
  <2>1. v.t = "string" /\ v.b = b
    BY <1>s DEF String
  <2>2. WriteToken(v) = Form(96, b) /\ Normal(v) = v
    BY <2>1, NormalIs DEF WriteToken
  <2>3. ReadData(96, b) = v
    BY <1>s DEF ReadData
  <2>4. b \in Seq(Byte) /\ Len(b) < LengthLimit /\ Len(b) \in Nat
    BY LenProperties DEF Texts
  <2>5. CASE Len(b) <= 31
    <3>1. Form(96, b) = ShortForm(96, b)
      BY <2>5 DEF Form, FitsShort
    <3>2. ReadsAs(ShortForm(96, b), ReadData(96, b))
      BY <2>4, <2>5, ReadsShort
    <3> QED
      BY <2>2, <2>3, <3>1, <3>2
  <2>6. CASE ~(Len(b) <= 31)
    <3>1. Form(96, b) = LongForm(96, b)
      BY <2>6 DEF Form, FitsShort
    <3>2. IsLength(UnsignedBytes(Len(b)), Len(b)) /\ UnsignedBytes(Len(b)) \in Seq(Byte)
      <4>1. 0 < Len(b)
        BY <2>4, <2>6
      <4> QED
        BY <2>4, <4>1, LengthField DEF IsLength
    <3>3. ReadsAs(LongForm(96, b), ReadData(96, b))
      BY <2>4, <3>2, ReadsLong
    <3> QED
      BY <2>2, <2>3, <3>1, <3>3
  <2> QED
    BY <2>5, <2>6
<1>o. ASSUME NEW remote \in BOOLEAN, NEW id \in LongBytes, v = ObjectRef(remote, id)
      PROVE  ReadsAs(WriteToken(v), Normal(v))
  <2> DEFINE x == IF remote THEN 255 ELSE 0
             c == Minimal(id)
             b == <<x>> \o c
  <2>1. v.t = "object" /\ v.remote = remote /\ v.id = id
    BY <1>o DEF ObjectRef
  <2>2. WriteToken(v) = ShortForm(64, b) /\ Normal(v) = v
    BY <2>1, NormalIs DEF WriteToken, WriteObjectRef
  <2>3. c \in Seq(Byte) /\ Len(c) \in 1 .. 8 /\ Extended(c, LongSize) = id
    BY LongBack
  <2>4. x \in Byte /\ ((x # 0) = remote)
    BY DEF Byte
  <2> HIDE DEF c, x
  <2>5. b \in Seq(Byte) /\ Len(b) = 1 + Len(c) /\ b[1] = x /\ Tail(b) = c
    <3> DEFINE a == <<x>>
    <3>1. a \in Seq(Byte) /\ Len(a) = 1 /\ a[1] = x
      BY <2>4
    <3> HIDE DEF a
    <3> DEFINE d == a \o c
               n == Len(c)
    <3>n. n \in Nat
      BY <2>3
    <3>2. /\ d \in Seq(Byte) /\ Len(d) = 1 + n
          /\ \A i \in 1 .. 1 + n : d[i] = IF i <= 1 THEN a[i] ELSE c[i - 1]
      <4>1. /\ d \in Seq(Byte) /\ Len(d) = Len(a) + Len(c)
            /\ \A i \in 1 .. Len(a) + Len(c) : d[i] = IF i <= Len(a) THEN a[i] ELSE c[i - Len(a)]
        BY <2>3, <3>1, ConcatProperties
      <4> HIDE DEF d
      <4> QED
        BY <3>1, <4>1
    <3> HIDE DEF d, n
    <3>3. d[1] = x
      BY <3>1, <3>2, <3>n
    <3>4. Tail(d) \in Seq(Byte) /\ Len(Tail(d)) = n /\ \A i \in 1 .. n : Tail(d)[i] = d[i + 1]
      <4>1. d # <<>>
        BY <3>2, <3>n
      <4>2. /\ Tail(d) \in Seq(Byte) /\ Len(Tail(d)) = Len(d) - 1
            /\ \A i \in 1 .. Len(Tail(d)) : Tail(d)[i] = d[i + 1]
        BY <3>2, <4>1, HeadTailProperties
      <4> QED
        BY <3>2, <3>n, <4>2
    <3>5. \A i \in 1 .. n : d[i + 1] = c[i]
      <4> SUFFICES ASSUME NEW i \in 1 .. n PROVE d[i + 1] = c[i]
        OBVIOUS
      <4> DEFINE j == i + 1
      <4>1. j \in 1 .. 1 + n /\ ~(j <= 1) /\ j - 1 = i
        BY <3>n
      <4> HIDE DEF j
      <4>2. d[j] = c[i]
        BY <3>2, <4>1
      <4> QED
        BY <4>2 DEF j
    <3>6. Tail(d) = c
      <4> DEFINE e == Tail(d)
      <4>1. e \in Seq(Byte) /\ Len(e) = Len(c) /\ \A i \in 1 .. Len(e) : e[i] = c[i]
        BY <3>4, <3>5 DEF n
      <4> HIDE DEF e
      <4>2. e = c
        BY <2>3, <4>1, SeqEqual
      <4> QED
        BY <4>2 DEF e
    <3> QED
      BY <3>2, <3>3, <3>6 DEF a, d, n
  <2> HIDE DEF b
  <2>n. Len(b) \in 2 .. 9
    <3> DEFINE n == Len(c)
               l == Len(b)
    <3>1. n \in 1 .. 8 /\ l = 1 + n
      BY <2>3, <2>5
    <3> HIDE DEF n, l
    <3>2. l \in 2 .. 9
      BY <3>1
    <3> QED
      BY <3>2 DEF l
  <2>6. ReadObject(b) = ObjectRef(x # 0, Extended(c, LongSize))
    <3>1. ~(b = <<>> \/ Len(b) - 1 > LongSize) /\ Len(b) # 1
      BY <2>5, <2>n DEF LongSize
    <3>2. ReadObject(b) = ObjectRef(b[1] # 0, Extended(Tail(b), LongSize))
      BY <3>1, Zenon DEF ReadObject
    <3> QED
      BY <2>5, <3>2
  <2>7. ReadData(64, b) = v
    <3>1. ReadData(64, b) = ReadObject(b)
      BY DEF ReadData
    <3> QED
      BY <1>o, <2>3, <2>4, <2>6, <3>1
  <2>8. ReadsAs(ShortForm(64, b), ReadData(64, b))
    <3>1. Len(b) <= 31
      <4>1. \A y \in 2 .. 9 : y <= 31
        OBVIOUS
      <4> QED
        BY <2>n, <4>1
    <3> QED
      BY <2>5, <3>1, ReadsShort
  <2> QED
    BY <2>2, <2>7, <2>8
<1> QED
  BY <1>v, <1>b, <1>a, <1>c, <1>d, <1>e, <1>i, <1>l, <1>f, <1>s, <1>o DEF Token

-----------------------------------------------------------------------------
(* Messages.                                                                *)

LEMMA ValueIsNat ==
    ASSUME NEW b \in Seq(Byte)
    PROVE  UnsignedValue(b) \in Nat
<1> DEFINE at(i) == IF i \in DOMAIN b THEN b[i] ELSE 0
<1>1. UnsignedValue(b) = at(1) + 256 * at(2) + 65536 * at(3)
  BY DEF UnsignedValue
<1>2. \A i \in Nat : at(i) \in 0 .. 255
  <2>1. DOMAIN b = 1 .. Len(b)
    BY LenProperties
  <2>2. \A i \in 1 .. Len(b) : b[i] \in 0 .. 255
    BY ElementOfSeq DEF Byte
  <2> QED
    BY <2>1, <2>2
<1>3. at(1) \in Nat /\ at(2) \in Nat /\ at(3) \in Nat
  <2>1. 1 \in Nat /\ 2 \in Nat /\ 3 \in Nat /\ \A y \in 0 .. 255 : y \in Nat
    OBVIOUS
  <2> HIDE DEF at
  <2> QED
    BY <1>2, <2>1
<1> HIDE DEF at
<1> QED
  BY <1>1, <1>3

LEMMA PartIsSeq ==
    ASSUME NEW s \in Seq(Byte), NEW i \in Nat, NEW j \in Nat, j <= Len(s)
    PROVE  SubSeq(s, i + 1, j) \in Seq(Byte)
<1>1. \A q \in i + 1 .. j : s[q] \in Byte
  <2>1. \A q \in i + 1 .. j : q \in 1 .. Len(s)
    BY LenProperties
  <2> QED
    BY <2>1, ElementOfSeq
<1>2. i + 1 \in Int /\ j \in Int
  OBVIOUS
<1> QED
  BY <1>1, <1>2, SubSeqProperties

(* The reader gets on.                                                      *)
LEMMA NextPosition ==
    ASSUME NEW s \in Seq(Byte), NEW i \in 1 .. Len(s)
    PROVE  ReadToken(s, i)[2] \in i + 1 .. Len(s) + 1
<1> DEFINE L == Len(s)
           x == s[i]
           h == Header(s, i)
<1>1. L \in Nat /\ i \in 1 .. L /\ i \in Nat /\ x \in 0 .. 255
  BY LenProperties, ElementOfSeq DEF Byte
<1>2. CASE x >= 240
  <2>1. ReadToken(s, i) = <<Immediate(x), i + 1>>
    BY <1>2, Zenon DEF ReadToken
  <2> QED
    BY <1>1, <2>1
<1>3. CASE ~(x >= 240) /\ (h.first > Len(s) + 1 \/ h.last > Len(s))
  <2>1. ReadToken(s, i) = <<Error, L + 1>>
    BY <1>3, Zenon DEF ReadToken
  <2> QED
    BY <1>1, <2>1
<1>4. CASE ~(x >= 240) /\ ~(h.first > L + 1) /\ ~(h.last > L)
  <2>1. ReadToken(s, i) = <<ReadData(h.typetag, SubSeq(s, h.first, h.last)), h.last + 1>>
    BY <1>4, Zenon DEF ReadToken
  <2> DEFINE z == h.last
  <2>2. z \in Nat /\ i <= z
    <3>1. CASE x < 192
      <4>1. h.last = i + 0 + (x % 32)
        BY <3>1, ShortIs
      <4> HIDE DEF L, x, h
      <4>2. x % 32 \in Nat
        BY <1>1
      <4>3. \A y \in Nat : i + 0 + y \in Nat /\ i <= i + 0 + y
        BY <1>1
      <4> QED
        BY <4>1, <4>2, <4>3
    <3>2. CASE ~(x < 192)
      <4> DEFINE l == x % 8
                 y == UnsignedValue(SubSeq(s, i + 1, i + l))
      <4>1. h.first = i + l + 1 /\ h.last = i + l + y
        <5> HIDE DEF y
        <5> QED
          BY <3>2, LongIs DEF y
      <4>2. l \in Nat
        <5> HIDE DEF x
        <5> QED
          BY <1>1
      <4> HIDE DEF L, x, h, l
      <4>3. i + l \in Nat /\ i + l <= Len(s)
        <5>1. i + l \in Nat /\ ~(i + l + 1 > L + 1)
          BY <1>1, <1>4, <4>1, <4>2
        <5> QED
          BY <1>1, <4>2, <5>1 DEF L
      <4>4. SubSeq(s, i + 1, i + l) \in Seq(Byte)
        BY <1>1, <4>3, PartIsSeq
      <4>5. y \in Nat
        BY <4>4, ValueIsNat
      <4> HIDE DEF y
      <4> QED
        BY <1>1, <4>1, <4>2, <4>5
    <3> QED
      BY <3>1, <3>2
  <2> HIDE DEF z, h, x
  <2>3. z + 1 \in i + 1 .. L + 1
    BY <1>1, <1>4, <2>2 DEF z
  <2>4. ReadToken(s, i)[2] = z + 1
    BY <2>1 DEF z
  <2> QED
    BY <2>3, <2>4
<1> QED
  BY <1>2, <1>3, <1>4

(* The list of all tokens from a position on.                               *)
Tokens(s) ==
    LET elements[i \in 1 .. Len(s) + 1] ==
            IF i > Len(s) THEN <<>>
            ELSE LET r == ReadToken(s, i) IN <<r[1]>> \o elements[r[2]]
    IN  elements

LEMMA TokensChain ==
    ASSUME NEW s \in Seq(Byte)
    PROVE  \A i \in 1 .. Len(s) + 1 :
             Tokens(s)[i] = IF i > Len(s) THEN <<>>
                            ELSE <<ReadToken(s, i)[1]>> \o Tokens(s)[ReadToken(s, i)[2]]
<1> DEFINE L == Len(s)
           val == [i \in 1 .. L |-> ReadToken(s, i)[1]]
           nxt == [i \in 1 .. L |-> ReadToken(s, i)[2]]
           Rule(f) == [i \in 1 .. L + 1 |-> IF i > L THEN <<>> ELSE <<ReadToken(s, i)[1]>> \o f[ReadToken(s, i)[2]]]
           e == CHOOSE f : f = Rule(f)
<1>1. Tokens(s) = e
  BY Zenon DEF Tokens
<1>2. L \in Nat
  BY LenProperties
<1>3. nxt \in [1 .. L -> Nat] /\ \A i \in 1 .. L : nxt[i] \in i + 1 .. L + 1
  <2>1. \A i \in 1 .. L : ReadToken(s, i)[2] \in i + 1 .. L + 1
    BY NextPosition
  <2>2. \A i \in 1 .. L : \A j \in i + 1 .. L + 1 : j \in Nat
    BY <1>2
  <2> QED
    BY <2>1, <2>2
<1>4. \A i \in 1 .. L : val[i] = ReadToken(s, i)[1] /\ nxt[i] = ReadToken(s, i)[2]
  OBVIOUS
<1>c. PICK f : IsChain(f, L, val, nxt)
  <2> HIDE DEF L, val, nxt
  <2> QED
    BY <1>2, <1>3, ChainExists
<1>5. f = [i \in 1 .. L + 1 |-> IF i > L THEN <<>> ELSE <<val[i]>> \o f[nxt[i]]]
  BY <1>c DEF IsChain
<1>6. f = Rule(f)
  <2>1. \A i \in 1 .. L + 1 : (IF i > L THEN <<>> ELSE <<val[i]>> \o f[nxt[i]])
                             = IF i > L THEN <<>> ELSE <<ReadToken(s, i)[1]>> \o f[ReadToken(s, i)[2]]
    <3> HIDE DEF val, nxt
    <3> SUFFICES ASSUME NEW i \in 1 .. L + 1
                 PROVE  (IF i > L THEN <<>> ELSE <<val[i]>> \o f[nxt[i]])
                        = IF i > L THEN <<>> ELSE <<ReadToken(s, i)[1]>> \o f[ReadToken(s, i)[2]]
      OBVIOUS
    <3>1. CASE i > L
      BY <3>1
    <3>2. CASE ~(i > L)
      <4>1. i \in 1 .. L
        BY <1>2, <3>2
      <4> QED
        BY <1>4, <3>2, <4>1
    <3> QED
      BY <3>1, <3>2
  <2> HIDE DEF L, val, nxt
  <2> QED
    BY <1>5, <2>1
<1>7. e = Rule(e)
  <2> HIDE DEF Rule
  <2> QED
    BY <1>6
<1> HIDE DEF e
<1>8. \A i \in 1 .. L + 1 : e[i] = IF i > L THEN <<>> ELSE <<ReadToken(s, i)[1]>> \o e[ReadToken(s, i)[2]]
  <2> HIDE DEF L
  <2> QED
    BY <1>7
<1> QED
  BY <1>1, <1>8

(* The header of a packet.                                                  *)
LEMMA IsBehind ==
    ASSUME NEW s \in Seq(Byte), NEW o \in Nat, NEW b \in Seq(Byte), o + Len(b) <= Len(s),
           SubSeq(s, o + 1, o + Len(b)) = b
    PROVE  Behind(s, o, b)
<1> DEFINE n == Len(b)
           l == Len(s)
           r == SubSeq(s, o + 1, o + n)
<1>1. n \in Nat /\ l \in Nat /\ o + n <= l
  BY LenProperties
<1>2. \A i \in o + 1 .. o + n : s[i] \in Byte
  <2>1. \A i \in o + 1 .. o + n : i \in 1 .. l
    BY <1>1
  <2> QED
    BY <2>1, ElementOfSeq
<1>3. \A i \in 1 .. (o + n) - (o + 1) + 1 : r[i] = s[(o + 1) + i - 1]
  <2> HIDE DEF n
  <2>1. o + 1 \in Int /\ o + n \in Int
    BY <1>1
  <2> QED
    BY <1>2, <2>1, SubSeqProperties
<1> HIDE DEF r
<1>r. r = b
  BY DEF r
<1> HIDE DEF n, l
<1>4. ASSUME NEW k \in 1 .. n
      PROVE  s[o + k] = b[k]
  <2>1. (o + 1) + k - 1 = o + k /\ k \in 1 .. (o + n) - (o + 1) + 1
    BY <1>1
  <2> QED
    BY <1>3, <1>r, <2>1
<1> QED
  BY <1>1, <1>4 DEF Behind, n, l

LEMMA Outer ==
    ASSUME NEW b \in Seq(Byte), Len(b) < LengthLimit
    PROVE  /\ Form(128, b) \in Seq(Byte)
           /\ \E e \in Nat \ {0} :
                /\ Header(Form(128, b), 1).typetag = 128
                /\ Header(Form(128, b), 1).first = e + 1
                /\ Header(Form(128, b), 1).last = Len(Form(128, b))
                /\ Len(Form(128, b)) = e + Len(b) /\ Behind(Form(128, b), e, b)
<1> DEFINE s == Form(128, b)
           n == Len(b)
<1>1. n \in Nat
  BY LenProperties
<1>2. s \in Seq(Byte) => Behind(s, 0, s)
  <2> HIDE DEF s
  <2> SUFFICES ASSUME s \in Seq(Byte) PROVE Behind(s, 0, s)
    OBVIOUS
  <2>1. Len(s) \in Nat
    BY LenProperties
  <2>2. \A k \in 1 .. Len(s) : 0 + k = k
    BY <2>1
  <2> QED
    BY <2>1, <2>2 DEF Behind
<1>3. CASE n <= 31
  <2>1. s = ShortForm(128, b)
    BY <1>3 DEF Form, FitsShort
  <2>2. s \in Seq(Byte) /\ Len(s) = 1 + n
    <3>1. 128 + n \in Byte /\ n % 32 = n
      BY <1>1, <1>3, ShortNumbers
    <3>2. s = <<128 + n>> \o b
      BY <2>1, <3>1 DEF ShortForm
    <3> HIDE DEF s, n
    <3> QED
      BY <3>1, <3>2, ConcatOne DEF n
  <2> HIDE DEF s
  <2>3. Behind(s, 0, ShortForm(128, b))
    BY <1>2, <2>1, <2>2
  <2>4. /\ Header(s, 0 + 1) = [typetag |-> 128, first |-> 0 + 2, last |-> 0 + 1 + n]
        /\ 0 + 1 + n <= Len(s) /\ SubSeq(s, 0 + 2, 0 + 1 + n) = b
    <3>1. PICK o \in Nat : o = 0
      OBVIOUS
    <3>2. PICK t \in {0, 32, 64, 96, 128} : t = 128
      OBVIOUS
    <3>3. Behind(s, o, ShortForm(t, b))
      BY <2>3, <3>1, <3>2
    <3>4. /\ Header(s, o + 1) = [typetag |-> t, first |-> o + 2, last |-> o + 1 + n]
          /\ o + 1 + n <= Len(s) /\ SubSeq(s, o + 2, o + 1 + n) = b
      BY <1>3, <2>2, <3>3, ShortHeader
    <3> HIDE DEF n
    <3> QED
      BY <3>1, <3>2, <3>4
  <2>5. Header(s, 1) = [typetag |-> 128, first |-> 1 + 1, last |-> 1 + n] /\ SubSeq(s, 1 + 1, 1 + n) = b
    <3>1. 0 + 1 = 1 /\ 0 + 2 = 1 + 1 /\ 0 + 1 + n = 1 + n
      BY <1>1
    <3> QED
      BY <2>4, <3>1
  <2>6. Behind(s, 1, b)
    <3>1. 1 \in Nat /\ 1 + Len(b) <= Len(s)
      BY <1>1, <2>2
    <3> QED
      BY <2>2, <2>5, <3>1, IsBehind
  <2>7. 1 \in Nat \ {0}
    OBVIOUS
  <2> HIDE DEF n
  <2>8. /\ Header(s, 1).typetag = 128 /\ Header(s, 1).first = 1 + 1 /\ Header(s, 1).last = Len(s)
        /\ Len(s) = 1 + n
    BY <2>2, <2>5
  <2>9. \E e \in Nat \ {0} :
          /\ Header(s, 1).typetag = 128 /\ Header(s, 1).first = e + 1 /\ Header(s, 1).last = Len(s)
          /\ Len(s) = e + n /\ Behind(s, e, b)
    BY <2>6, <2>7, <2>8
  <2> QED
    BY <2>2, <2>9 DEF s, n
<1>4. CASE ~(n <= 31)
  <2>1. s = LongForm(128, b)
    BY <1>4 DEF Form, FitsShort
  <2>2. PICK f \in Seq(Byte) : IsLength(f, n)
    <3>1. 0 < n
      BY <1>1, <1>4
    <3> QED
      BY <1>1, <3>1, LengthField DEF IsLength
  <2> DEFINE l == Len(f)
             e == 1 + l
  <2>3. l \in 1 .. 3
    BY <2>2 DEF IsLength
  <2>4. s \in Seq(Byte) /\ Len(s) = 1 + l + n
    <3> DEFINE x == 192 + (128 \div 4) + l
    <3>0. LongTag(x, 128, l)
      BY <2>3, LongNumbers, Zenon
    <3>1. x \in Byte /\ l % 8 = l
      BY <3>0, Zenon DEF LongTag
    <3>2. s = <<x>> \o f \o b
      BY <2>1, <2>2, <3>1 DEF LongForm, IsLength
    <3> HIDE DEF x, s, n
    <3>3. <<x>> \o f \in Seq(Byte) /\ Len(<<x>> \o f) = 1 + l
      BY <3>1, ConcatOne
    <3> DEFINE a == <<x>> \o f
    <3> HIDE DEF a
    <3>4. a \o b \in Seq(Byte) /\ Len(a \o b) = Len(a) + Len(b)
      BY <3>3, Concat DEF a
    <3> QED
      BY <3>2, <3>3, <3>4 DEF a, n
  <2> HIDE DEF s
  <2>5. Behind(s, 0, LongForm(128, b))
    BY <1>2, <2>1, <2>4
  <2> DEFINE d == 0 + 1 + l
  <2>6. /\ Header(s, 0 + 1) = [typetag |-> 128, first |-> d + 1, last |-> d + n]
        /\ d + n <= Len(s) /\ SubSeq(s, d + 1, d + n) = b
    <3>1. PICK o \in Nat : o = 0
      OBVIOUS
    <3>2. PICK t \in {96, 128} : t = 128
      OBVIOUS
    <3>3. Behind(s, o, LongForm(t, b))
      BY <2>5, <3>1, <3>2
    <3> DEFINE g == o + 1 + l
    <3>4. /\ Header(s, o + 1) = [typetag |-> t, first |-> g + 1, last |-> g + n]
          /\ g + n <= Len(s) /\ SubSeq(s, g + 1, g + n) = b
      <4>1. LongHeaderAt(s, o, t, b, f)
        BY <2>2, <2>4, <3>3, LongHeader, Zenon
      <4> QED
        BY <4>1 DEF LongHeaderAt
    <3> HIDE DEF n, l
    <3> QED
      BY <3>1, <3>2, <3>4
  <2> HIDE DEF n, d, l
  <2>7. d = e /\ 0 + 1 = 1 /\ e + n = Len(s) /\ e \in Nat \ {0}
    BY <1>1, <2>3, <2>4 DEF d
  <2> HIDE DEF e
  <2>8. /\ Header(s, 1) = [typetag |-> 128, first |-> e + 1, last |-> e + n]
        /\ SubSeq(s, e + 1, e + n) = b
    BY <2>6, <2>7
  <2>9. Behind(s, e, b)
    <3>1. e \in Nat /\ e + Len(b) <= Len(s)
      BY <1>1, <2>7, <2>6 DEF n
    <3> QED
      BY <2>4, <2>8, <3>1, IsBehind DEF n
  <2>10. /\ Header(s, 1).typetag = 128 /\ Header(s, 1).first = e + 1 /\ Header(s, 1).last = Len(s)
         /\ Len(s) = e + n
    BY <2>7, <2>8
  <2>11. \E g \in Nat \ {0} :
          /\ Header(s, 1).typetag = 128 /\ Header(s, 1).first = g + 1 /\ Header(s, 1).last = Len(s)
          /\ Len(s) = g + n /\ Behind(s, g, b)
    BY <2>7, <2>9, <2>10
  <2> QED
    BY <2>4, <2>11 DEF s, n
<1> QED
  BY <1>3, <1>4

(* The data of a message, and the messages whose data has a length that the *)
(* writer can write.                                                        *)
Data(m) == FlattenSeq([i \in DOMAIN m |-> WriteToken(m[i])])
Sendable == {m \in Seq(Token) : Len(Data(m)) < LengthLimit}

(* A message of any variants whose data is below the limit is read as it    *)
(* was written, but for the small longs, which become ints.                 *)
THEOREM ReadsBack ==
    ASSUME NEW m \in Sendable
    PROVE  Deserialize(Serialize(m)) = [i \in DOMAIN m |-> Normal(m[i])]
<1> DEFINE n == Len(m)
           C == [i \in 1 .. n |-> WriteToken(m[i])]
           r == [i \in 1 .. n |-> Normal(m[i])]
           b == Data(m)
           s == Form(128, b)
           N == {Normal(v) : v \in Token}
<1>1. m \in Seq(Token) /\ n \in Nat /\ DOMAIN m = 1 .. n /\ \A i \in 1 .. n : m[i] \in Token
  BY LenProperties, ElementOfSeq DEF Sendable
<1>2. Data(m) = FlattenSeq(C) /\ Serialize(m) = s
  BY <1>1 DEF Data, Serialize
<1>3. \A i \in 1 .. n : ReadsAs(WriteToken(m[i]), Normal(m[i]))
  BY <1>1, TokenReads
<1>4. C \in Seq(Seq(Byte)) /\ Len(C) = n
  <2>1. \A i \in 1 .. n : WriteToken(m[i]) \in Seq(Byte)
    BY <1>3 DEF ReadsAs
  <2>2. C \in [1 .. n -> Seq(Byte)]
    BY <2>1
  <2> HIDE DEF C, n
  <2> QED
    BY <1>1, <2>2, SeqDef
<1>5. r \in Seq(N) /\ Len(r) = n
  <2>1. r \in [1 .. n -> N]
    BY <1>1
  <2> HIDE DEF r, n
  <2> QED
    BY <1>1, <2>1, SeqDef
<1>6. \A i \in 1 .. n : C[i] = WriteToken(m[i]) /\ r[i] = Normal(m[i])
  OBVIOUS
<1>r. r = [i \in DOMAIN m |-> Normal(m[i])]
  BY <1>1
<1> HIDE DEF C, r, n, N
<1>7. PICK f \in [0 .. n -> Seq(Byte)] : IsJoin(f, C, n) /\ b = f[n]
  BY <1>2, <1>4, Flattened
<1>8. b \in Seq(Byte) /\ Len(b) < LengthLimit /\ Len(b) \in Nat
  <2>1. n \in 0 .. n
    BY <1>1
  <2>2. b \in Seq(Byte)
    BY <1>7, <2>1
  <2> QED
    BY <2>2, LenProperties DEF Sendable
<1> HIDE DEF b
<1>9. s \in Seq(Byte)
  BY <1>8, Outer
<1>10. PICK e \in Nat \ {0} :
         /\ Header(s, 1).typetag = 128 /\ Header(s, 1).first = e + 1 /\ Header(s, 1).last = Len(s)
         /\ Len(s) = e + Len(b) /\ Behind(s, e, b)
  BY <1>8, Outer
<1> HIDE DEF s
<1> DEFINE L == Len(s)
           p == [i \in 0 .. n |-> e + Len(f[i]) + 1]
           val == [i \in 1 .. L |-> ReadToken(s, i)[1]]
           nxt == [i \in 1 .. L |-> ReadToken(s, i)[2]]
<1>11. L \in Nat
  BY <1>9, LenProperties
<1>12. \A i \in 0 .. n : Len(f[i]) \in Nat
  BY <1>7, LenProperties
<1>13. p \in [0 .. n -> Nat] /\ p[n] = L + 1 /\ p[0] = e + 1
  <2>1. \A i \in 0 .. n : e + Len(f[i]) + 1 \in Nat
    BY <1>12
  <2>2. p \in [0 .. n -> Nat]
    BY <2>1
  <2>3. 0 \in 0 .. n /\ n \in 0 .. n
    BY <1>1
  <2>4. p[0] = e + Len(f[0]) + 1 /\ p[n] = e + Len(f[n]) + 1
    BY <2>3
  <2>5. f[0] = <<>> /\ Len(<<>>) = 0
    BY <1>7 DEF IsJoin
  <2> HIDE DEF p, L
  <2>6. p[0] = e + 1
    BY <2>4, <2>5
  <2>7. p[n] = L + 1
    BY <1>7, <1>8, <1>10, <2>4 DEF L
  <2> QED
    BY <2>2, <2>6, <2>7
<1>14. ASSUME NEW i \in 1 .. n
       PROVE  p[i - 1] \in 1 .. L /\ val[p[i - 1]] = r[i] /\ nxt[p[i - 1]] = p[i]
  <2> DEFINE o == Len(f[i - 1])
             w == C[i]
             d == e + o
  <2>1. i \in 0 .. n /\ i - 1 \in 0 .. n
    BY <1>1
  <2>2. w \in Seq(Byte)
    BY <1>4, ElementOfSeq
  <2>3. /\ Len(f[i]) = o + Len(w) /\ o \in Nat /\ Len(f[i]) <= Len(b)
        /\ \A k \in 1 .. Len(w) : b[o + k] = w[k]
    <3> HIDE DEF p, L, val, nxt
    <3>1. f \in [0 .. Len(C) -> Seq(Byte)] /\ IsJoin(f, C, Len(C)) /\ i \in 1 .. Len(C)
      BY <1>4, <1>7
    <3>2. Placed(f, C, i)
      BY <1>4, <3>1, JoinPlaces
    <3> QED
      BY <1>4, <1>7, <3>2 DEF Placed
  <2>4. Len(w) \in Nat
    BY <2>2, LenProperties
  <2>5. ReadsAs(w, r[i])
    BY <1>3, <1>6
  <2>6. p[i - 1] = d + 1 /\ p[i] = e + Len(f[i]) + 1
    BY <2>1
  <2> HIDE DEF p, L, val, nxt, o, w
  <2>7. Behind(s, d, w)
    <3> DEFINE x == Len(w)
    <3>x. x \in Nat
      BY <2>4
    <3>1. e + Len(b) <= L /\ \A k \in 1 .. Len(b) : s[e + k] = b[k]
      BY <1>10 DEF Behind, L
    <3>2. d + x <= L
      BY <1>8, <1>11, <2>3, <2>4, <3>1
    <3>3. ASSUME NEW k \in 1 .. x
          PROVE  s[d + k] = w[k]
      <4>1. o + k \in 1 .. Len(b) /\ e + (o + k) = d + k
        BY <1>8, <2>3, <3>x
      <4>2. s[e + (o + k)] = b[o + k]
        BY <3>1, <4>1
      <4> QED
        BY <2>3, <4>1, <4>2
    <3> QED
      BY <3>2, <3>3 DEF Behind, L
  <2>8. d \in Nat
    BY <2>3
  <2> HIDE DEF d
  <2>9. d + 1 \in 1 .. L /\ ReadToken(s, d + 1) = <<r[i], d + 1 + Len(w)>>
    BY <1>9, <2>5, <2>7, <2>8 DEF ReadsAs, L
  <2>10. p[i] = d + 1 + Len(w)
    BY <2>3, <2>4, <2>6 DEF d
  <2> DEFINE j == d + 1
  <2> HIDE DEF j
  <2>11. val[j] = ReadToken(s, j)[1] /\ nxt[j] = ReadToken(s, j)[2]
    BY <2>9 DEF val, nxt, j
  <2>12. ReadToken(s, j)[1] = r[i] /\ ReadToken(s, j)[2] = p[i]
    BY <2>9, <2>10 DEF j
  <2> QED
    BY <2>6, <2>9, <2>11, <2>12 DEF j
<1> DEFINE g == Tokens(s)
<1>15. Chain(g, L, val, nxt)
  <2>1. \A i \in 1 .. L + 1 : g[i] = IF i > L THEN <<>> ELSE <<ReadToken(s, i)[1]>> \o g[ReadToken(s, i)[2]]
    BY <1>9, TokensChain
  <2> SUFFICES ASSUME NEW i \in 1 .. L + 1
               PROVE  g[i] = IF i > L THEN <<>> ELSE <<val[i]>> \o g[nxt[i]]
    BY DEF Chain
  <2> HIDE DEF g, L
  <2>2. CASE i > L
    BY <2>1, <2>2
  <2>3. CASE ~(i > L)
    <3>1. i \in 1 .. L
      BY <1>11, <2>3
    <3>2. val[i] = ReadToken(s, i)[1] /\ nxt[i] = ReadToken(s, i)[2]
      BY <3>1
    <3> HIDE DEF val, nxt
    <3> QED
      BY <2>1, <2>3, <3>2
  <2> QED
    BY <2>2, <2>3
<1> HIDE DEF g, p, L, val, nxt
<1>16. g[p[0]] = r
  <2>1. /\ p \in [0 .. Len(r) -> Nat] /\ p[Len(r)] = L + 1
        /\ Stands(L, val, nxt, r, p)
    BY <1>5, <1>13, <1>14 DEF Stands
  <2> QED
    BY <1>5, <1>11, <1>15, <2>1, Walk
<1>17. Deserialize(s) = g[e + 1]
  <2>1. Deserialize(s) = Tokens(s)[Header(s, 1).first]
    <3> DEFINE h == Header(s, 1)
    <3>1. ~(h.typetag # 128 \/ h.last # Len(s))
      BY <1>10
    <3>2. Deserialize(s) = IF h.typetag # 128 \/ h.last # Len(s) THEN <<Error>> ELSE Tokens(s)[h.first]
      BY Zenon DEF Deserialize, Tokens
    <3> HIDE DEF h
    <3>3. Deserialize(s) = Tokens(s)[h.first]
      BY <3>1, <3>2
    <3> QED
      BY <3>3 DEF h
  <2> QED
    BY <1>10, <2>1 DEF g
<1> QED
  BY <1>2, <1>13, <1>16, <1>17, <1>r

LEMMA DataIsBytes ==
    ASSUME NEW m \in Sendable
    PROVE  Data(m) \in Seq(Byte)
<1> DEFINE n == Len(m)
           C == [i \in 1 .. n |-> WriteToken(m[i])]
<1>1. n \in Nat /\ DOMAIN m = 1 .. n /\ \A i \in 1 .. n : m[i] \in Token
  BY LenProperties, ElementOfSeq DEF Sendable
<1>2. Data(m) = FlattenSeq(C)
  BY <1>1 DEF Data
<1>3. C \in Seq(Seq(Byte))
  <2>1. \A i \in 1 .. n : WriteToken(m[i]) \in Seq(Byte)
    BY <1>1, TokenReads DEF ReadsAs
  <2>2. C \in [1 .. n -> Seq(Byte)]
    BY <2>1
  <2> HIDE DEF C, n
  <2> QED
    BY <1>1, <2>2, SeqDef
<1> HIDE DEF C
<1>4. PICK f \in [0 .. Len(C) -> Seq(Byte)] : FlattenSeq(C) = f[Len(C)]
  BY <1>3, Flattened
<1>5. Len(C) \in 0 .. Len(C)
  BY <1>3, LenProperties
<1> QED
  BY <1>2, <1>4, <1>5

(* The stream with the compact serializer and messages it can hold.         *)
UsesCompact ==
    /\ Bytes = Byte
    /\ Messages \subseteq Sendable
    /\ \A m \in Messages :
         Wire[m] = Serialize(m) /\ Returned(m) = [i \in DOMAIN m |-> Normal(m[i])]
    /\ \A s \in Seq(Byte) : Read(s) = Deserialize(s) /\ PacketLength(s) = GetLength(s)

(* The packets of the compact serializer can be told apart in a stream, and *)
(* are read as they were written: what PacketsAreExact asks of a serializer *)
(* holds of it.                                                             *)
THEOREM CompactIsFramed == UsesCompact => Framing
<1> SUFFICES ASSUME UsesCompact PROVE Framing
  OBVIOUS
<1>1. /\ Bytes = Byte
      /\ \A s \in Seq(Byte) : Read(s) = Deserialize(s) /\ PacketLength(s) = GetLength(s)
  BY DEF UsesCompact
<1>2. PacketLength(<<>>) = 0
  <2>1. <<>> \in Seq(Byte) /\ GetLength(<<>>) = 0
    BY EmptySeq DEF GetLength
  <2> QED
    BY <1>1, <2>1
<1>3. ASSUME NEW m \in Messages
      PROVE  /\ \A s \in Seq(Bytes) : PacketLength(Wire[m] \o s) = Len(Wire[m])
             /\ \A k \in 0 .. Len(Wire[m]) - 1 :
                  LET n == PacketLength(SubSeq(Wire[m], 1, k)) IN n = 0 \/ ~(n <= k)
             /\ Read(Wire[m]) = Returned(m)
  <2> DEFINE w == Wire[m]
             b == Data(m)
             p == Form(128, b)
  <2>1. m \in Sendable /\ w = Serialize(m) /\ Returned(m) = [i \in DOMAIN m |-> Normal(m[i])]
    BY DEF UsesCompact
  <2>2. w = p
    BY <2>1 DEF Serialize, Data
  <2>3. w \in Seq(Byte)
    BY <1>1, WireType
  <2>4. b \in Seq(Byte) /\ Len(b) < LengthLimit
    BY <2>1, DataIsBytes DEF Sendable
  <2> HIDE DEF w, b
  <2>5. /\ \A s \in Seq(Byte) : GetLength(p \o s) = Len(p)
        /\ \A k \in 0 .. Len(p) - 1 :
             LET n == GetLength(SubSeq(p, 1, k)) IN n = 0 \/ ~(n <= k)
    BY <2>4, PacketsAreFramed
  <2> HIDE DEF p
  <2>6. ASSUME NEW s \in Seq(Bytes)
        PROVE  PacketLength(w \o s) = Len(w)
    <3>1. w \o s \in Seq(Byte) /\ s \in Seq(Byte)
      BY <1>1, <2>3, ConcatProperties
    <3> QED
      BY <1>1, <2>2, <2>5, <3>1
  <2>7. ASSUME NEW k \in 0 .. Len(w) - 1
        PROVE  LET n == PacketLength(SubSeq(w, 1, k)) IN n = 0 \/ ~(n <= k)
    <3>1. Len(w) \in Nat
      BY <2>3, LenProperties
    <3>2. k \in Nat /\ k <= Len(w)
      BY <3>1
    <3>3. SubSeq(w, 1, k) \in Seq(Byte)
      BY <2>3, <3>2, Prefix
    <3>4. PacketLength(SubSeq(w, 1, k)) = GetLength(SubSeq(w, 1, k))
      BY <1>1, <3>3
    <3> QED
      BY <2>2, <2>5, <3>4
  <2>8. Read(w) = Returned(m)
    <3>1. Deserialize(w) = [i \in DOMAIN m |-> Normal(m[i])]
      BY <2>1, ReadsBack
    <3> QED
      BY <1>1, <2>1, <2>3, <3>1
  <2> QED
    BY <2>6, <2>7, <2>8 DEF w
<1> QED
  BY <1>2, <1>3 DEF Framing

(* With the compact serializer, packet_read returns the messages that were  *)
(* written, in order, whole and once, for every message of less than 2^24   *)
(* bytes.                                                                   *)
THEOREM CompactIsExact == UsesCompact => (Spec => []DeliveredExactly)
  BY CompactIsFramed, PacketsAreExact

-----------------------------------------------------------------------------
(* The stream implements Channel.                                           *)
Given == {Returned(m) : m \in Messages}

Underway(u, s, r) ==
    /\ u \in Seq(Given)
    /\ Len(u) = Len(s) - r
    /\ \A i \in 1 .. Len(s) - r : u[i] = Returned(s[r + i])

LEMMA RestUnderway ==
    ASSUME NEW s \in Seq(Messages), NEW r \in Nat, r <= Len(s)
    PROVE  Underway([i \in 1 .. Len(s) - r |-> Returned(s[r + i])], s, r)
<1> DEFINE n == Len(s)
           u == [i \in 1 .. n - r |-> Returned(s[r + i])]
<1>1. n \in Nat /\ n - r \in Nat
  BY LenProperties
<1>2. \A i \in 1 .. n : s[i] \in Messages
  BY <1>1, ElementOfSeq
<1>3. \A i \in 1 .. n - r : u[i] = Returned(s[r + i])
  OBVIOUS
<1>4. u \in [1 .. n - r -> Given]
  <2>1. ASSUME NEW i \in 1 .. n - r PROVE Returned(s[r + i]) \in Given
    <3>1. r + i \in 1 .. n
      BY <1>1
    <3> QED
      BY <1>2, <3>1 DEF Given
  <2> QED
    BY <2>1
<1> HIDE DEF u, n
<1>5. u \in Seq(Given) /\ Len(u) = n - r
  BY <1>1, <1>4
<1> QED
  BY <1>3, <1>5 DEF Underway, u, n

(* What is on the way before and after a step.                              *)
LEMMA BeforeAndAfter ==
    ASSUME IInv, IInv'
    PROVE  /\ Underway(Undelivered, sent, Len(received))
           /\ Underway(Undelivered', sent', Len(received'))
<1>1. /\ sent \in Seq(Messages) /\ Len(received) \in Nat /\ Len(received) <= Len(sent)
      /\ sent' \in Seq(Messages) /\ Len(received') \in Nat /\ Len(received') <= Len(sent')
  BY LenProperties DEF IInv, TypeOK, DeliveredExactly
<1> QED
  BY <1>1, RestUnderway DEF Undelivered

LEMMA PipeInit == Init => Pipe!Init
<1> SUFFICES ASSUME Init PROVE Pipe!Init
  OBVIOUS
<1>1. /\ sent = <<>> /\ received = <<>> /\ writing = TRUE /\ reading = TRUE
  BY DEF Init
<1>2. Len(sent) = 0 /\ Len(received) = 0
  BY <1>1
<1>3. Undelivered = <<>>
  <2>1. sent \in Seq(Messages) /\ Len(received) \in Nat /\ Len(received) <= Len(sent)
    BY <1>1, <1>2, EmptySeq
  <2>2. Underway(Undelivered, sent, Len(received))
    BY <2>1, RestUnderway DEF Undelivered
  <2>3. Undelivered \in Seq(Given) /\ Len(Undelivered) = 0
    BY <1>2, <2>2 DEF Underway
  <2> QED
    BY <2>3, EmptySeq
<1> QED
  BY <1>1, <1>3 DEF Pipe!Init

(* A step that leaves the messages alone.                                   *)
LEMMA SameUnderway ==
    ASSUME UNCHANGED <<sent, received>>
    PROVE  Undelivered' = Undelivered
  BY DEF Undelivered

LEMMA PipePut ==
    ASSUME IInv, IInv', NEW m \in Messages, Write(m)
    PROVE  Pipe!Put(Returned(m))
<1> DEFINE n == Len(sent)
           r == Len(received)
           v == Returned(m)
           a == Append(Undelivered, v)
<1>1. writing /\ sent' = Append(sent, m) /\ UNCHANGED <<writing, reading, received>>
  BY DEF Write
<1>2. sent \in Seq(Messages) /\ n \in Nat /\ r \in Nat /\ r <= n
  BY LenProperties DEF IInv, TypeOK, DeliveredExactly
<1>3. /\ Len(sent') = n + 1 /\ sent'[n + 1] = m
      /\ \A i \in 1 .. n : sent'[i] = sent[i]
  BY <1>1, <1>2, AppendProperties
<1>4. /\ Undelivered \in Seq(Given) /\ Len(Undelivered) = n - r
      /\ \A i \in 1 .. n - r : Undelivered[i] = Returned(sent[r + i])
  BY BeforeAndAfter DEF Underway
<1>5. /\ Undelivered' \in Seq(Given) /\ Len(Undelivered') = n + 1 - r
      /\ \A i \in 1 .. n + 1 - r : Undelivered'[i] = Returned(sent'[r + i])
  BY <1>1, <1>3, BeforeAndAfter DEF Underway
<1>6. v \in Given
  BY DEF Given
<1> HIDE DEF v
<1>7. /\ a \in Seq(Given) /\ Len(a) = n - r + 1 /\ a[n - r + 1] = v
      /\ \A i \in 1 .. n - r : a[i] = Undelivered[i]
  BY <1>4, <1>6, AppendProperties
<1> HIDE DEF n, r, a
<1>8. ASSUME NEW i \in 1 .. n + 1 - r PROVE Undelivered'[i] = a[i]
  <2>1. CASE i \in 1 .. n - r
    <3>1. r + i \in 1 .. n
      BY <1>2, <2>1
    <3>2. sent'[r + i] = sent[r + i]
      BY <1>3, <3>1
    <3> QED
      BY <1>4, <1>5, <1>7, <2>1, <3>2
  <2>2. CASE i = n - r + 1
    <3>1. r + i = n + 1
      BY <1>2, <2>2
    <3>2. Undelivered'[i] = Returned(m)
      BY <1>3, <1>5, <3>1
    <3> QED
      BY <1>7, <2>2, <3>2 DEF v
  <2> QED
    BY <1>2, <2>1, <2>2
<1>9. Len(Undelivered') = Len(a)
  BY <1>2, <1>5, <1>7
<1>10. Undelivered' = a
  BY <1>5, <1>7, <1>8, <1>9, SeqEqual
<1> QED
  BY <1>1, <1>10 DEF Pipe!Put, a, v

LEMMA PipeTake ==
    ASSUME IInv, IInv', PacketRead
    PROVE  Pipe!Take
<1> DEFINE n == Len(sent)
           r == Len(received)
           u == Undelivered
           t == Tail(u)
<1>1. reading /\ UNCHANGED <<sent, writing, reading>>
  BY DEF PacketRead
<1>2. PICK x : received' = Append(received, x)
  BY DEF PacketRead
<1>3. received \in Seq(Results) /\ received' \in Seq(Results) /\ n \in Nat /\ r \in Nat
  BY LenProperties DEF IInv, TypeOK, Results
<1>4. Len(received') = r + 1 /\ received'[r + 1] = x
  BY <1>2, <1>3
<1>5. r + 1 <= n /\ x = Returned(sent[r + 1])
  <2>1. /\ Len(received') <= Len(sent')
        /\ \A i \in 1 .. Len(received') : received'[i] = Returned(sent'[i])
    BY DEF IInv, DeliveredExactly
  <2>2. r + 1 \in 1 .. r + 1
    BY <1>3
  <2> QED
    BY <1>1, <1>4, <2>1, <2>2
<1>6. /\ u \in Seq(Given) /\ Len(u) = n - r
      /\ \A i \in 1 .. n - r : u[i] = Returned(sent[r + i])
  BY BeforeAndAfter DEF Underway
<1>7. /\ Undelivered' \in Seq(Given) /\ Len(Undelivered') = n - (r + 1)
      /\ \A i \in 1 .. n - (r + 1) : Undelivered'[i] = Returned(sent[r + 1 + i])
  BY <1>1, <1>4, BeforeAndAfter DEF Underway
<1> HIDE DEF n, r, u
<1>8. u # <<>> /\ Head(u) = x
  <2>1. Len(u) # 0 /\ 1 \in 1 .. n - r
    BY <1>3, <1>5, <1>6
  <2>2. u # <<>>
    BY <1>6, <2>1, EmptySeq
  <2>3. Head(u) = u[1]
    BY <1>6, <2>2, HeadTailProperties
  <2>4. u[1] = Returned(sent[r + 1])
    BY <1>6, <2>1
  <2> QED
    BY <1>5, <2>2, <2>3, <2>4
<1>9. /\ t \in Seq(Given) /\ Len(t) = n - r - 1
      /\ \A i \in 1 .. n - r - 1 : t[i] = u[i + 1]
  BY <1>6, <1>8, HeadTailProperties
<1> HIDE DEF t
<1>10. ASSUME NEW i \in 1 .. n - (r + 1) PROVE Undelivered'[i] = t[i]
  <2>1. i \in 1 .. n - r - 1 /\ i + 1 \in 1 .. n - r /\ r + (i + 1) = r + 1 + i
    BY <1>3, <1>5
  <2>2. u[i + 1] = Returned(sent[r + (i + 1)])
    BY <1>6, <2>1
  <2> QED
    BY <1>7, <1>9, <2>1, <2>2
<1>11. Len(Undelivered') = Len(t)
  BY <1>3, <1>5, <1>7, <1>9
<1>12. Undelivered' = t
  BY <1>7, <1>9, <1>10, <1>11, SeqEqual
<1> QED
  BY <1>1, <1>2, <1>8, <1>12 DEF Pipe!Take, t, u

LEMMA PipeNext ==
    ASSUME IInv, IInv', [Next]_vars
    PROVE  [Pipe!Next]_Pipe!vars
<1>1. ASSUME NEW m \in Messages, Write(m) PROVE Pipe!Next
  <2>1. Pipe!Put(Returned(m))
    BY <1>1, PipePut
  <2> QED
    BY <2>1 DEF Pipe!Next
<1>2. ASSUME NEW m \in Messages, NEW k \in CutPoints(m), ShortWrite(m, k) PROVE Pipe!WriterCloses
  <2>1. writing /\ writing' = FALSE /\ UNCHANGED <<sent, received, reading>>
    BY <1>2 DEF ShortWrite, AfterShortWrite
  <2> QED
    BY <2>1, SameUnderway DEF Pipe!WriterCloses
<1>3. CASE Close
  <2>1. writing /\ writing' = FALSE /\ UNCHANGED <<sent, received, reading>>
    BY <1>3 DEF Close
  <2>2. Pipe!WriterCloses
    BY <2>1, SameUnderway DEF Pipe!WriterCloses
  <2> QED
    BY <2>2 DEF Pipe!Next
<1>4. CASE PacketRead
  BY <1>4, PipeTake DEF Pipe!Next
<1>5. CASE ReadSome
  <2>1. UNCHANGED <<sent, writing, reading, received>>
    BY <1>5 DEF ReadSome, ReadMore
  <2> QED
    BY <2>1, SameUnderway DEF Pipe!vars
<1>6. CASE ReadFails
  <2>1. reading /\ reading' = FALSE /\ UNCHANGED <<sent, received, writing>>
    BY <1>6 DEF ReadFails
  <2>2. Pipe!ReaderCloses
    BY <2>1, SameUnderway DEF Pipe!ReaderCloses
  <2> QED
    BY <2>2 DEF Pipe!Next
<1>7. CASE UNCHANGED vars
  BY <1>7, SameUnderway DEF vars, Pipe!vars
<1> QED
  BY <1>1, <1>2, <1>3, <1>4, <1>5, <1>6, <1>7 DEF Next, Pipe!Next

(* With a serializer whose packets can be told apart, the stream implements *)
(* Channel: a write puts one message behind those on the way, packet_read   *)
(* takes the one at their head, and a write or a read that fails is a close *)
(* of its end; the pieces in which the socket moves the bytes are stutters. *)
THEOREM StreamImplementsChannel == Framing => (Spec => ImplementsChannel)
<1> SUFFICES ASSUME Framing PROVE Spec => ImplementsChannel
  OBVIOUS
<1>1. Init => IInv
  BY InitInv
<1>2. IInv /\ [Next]_vars => IInv'
  BY StepInv
<1>3. Init => Pipe!Init
  BY PipeInit
<1>4. IInv /\ IInv' /\ [Next]_vars => [Pipe!Next]_Pipe!vars
  BY PipeNext
<1> QED
  BY <1>1, <1>2, <1>3, <1>4, PTL DEF Spec, ImplementsChannel, Pipe!Spec

(* So does a connection with the compact serializer, for every message of   *)
(* less than 2^24 bytes: the queues of packets that RemoteProtocol takes    *)
(* its connection for.                                                      *)
THEOREM CompactChannel == UsesCompact => (Spec => ImplementsChannel)
  BY CompactIsFramed, StreamImplementsChannel
=============================================================================
