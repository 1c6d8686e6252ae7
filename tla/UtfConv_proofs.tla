-------------------------- MODULE UtfConv_proofs --------------------------
(***************************************************************************)
(* Proofs about the conversion of strings between UTF-8 and UTF-16.        *)
(*                                                                         *)
(* For every set of given strings: the invariants of UtfConv hold.  The    *)
(* argument of RoundTrip is Marks: a relation of the places of the two     *)
(* texts at which the same number stands, closed under going on to the     *)
(* next number.  It is built on the way there, and carries the conversion  *)
(* back without an induction over the string.                              *)
(***************************************************************************)
EXTENDS UtfConv, SequenceTheorems, WellFoundedInduction, TLAPS

-----------------------------------------------------------------------------
(* Block keeps its name in the proofs: tlapm writes a number as a sum of    *)
(* ones, and has no room for the larger products.                           *)
LEMMA BlockIs == Block = 1024 /\ Plane = 64 * Block /\ MaxScalar = 17 * Plane - 1
  BY DEF Block, Plane, MaxScalar

(* Numbers that have a form in UTF-8 and in UTF-16.                         *)
Scalars == (0 .. MaxScalar) \ Surrogates

LEMMA SurrogatesAre ==
    \A u \in Int : /\ u \in HighSurrogates <=> 54 * Block <= u /\ u < 55 * Block
                   /\ u \in LowSurrogates <=> 55 * Block <= u /\ u < 56 * Block
                   /\ u \in Surrogates <=> 54 * Block <= u /\ u < 56 * Block
<1> DEFINE B == Block
<1>1. B = 1024
  BY BlockIs
<1>2. HighSurrogates = 54 * B .. 55 * B - 1 /\ LowSurrogates = 55 * B .. 56 * B - 1
  BY DEF HighSurrogates, LowSurrogates
<1> HIDE DEF B
<1>3. \A u \in Int : /\ u \in HighSurrogates <=> 54 * B <= u /\ u < 55 * B
                     /\ u \in LowSurrogates <=> 55 * B <= u /\ u < 56 * B
                     /\ u \in Surrogates <=> 54 * B <= u /\ u < 56 * B
  BY <1>1, <1>2 DEF Surrogates
<1> QED
  BY <1>3 DEF B

LEMMA ScalarsAre ==
    \A u : u \in Scalars <=> /\ u \in Nat /\ u < 17 * Plane
                             /\ u < 54 * Block \/ 56 * Block <= u
<1>1. Block = 1024 /\ Plane = 64 * Block /\ MaxScalar = 17 * Plane - 1
  BY BlockIs
<1>2. \A u \in Nat : u \in Surrogates <=> 54 * Block <= u /\ u < 56 * Block
  BY SurrogatesAre
<1>3. ASSUME NEW u
      PROVE  u \in Scalars <=> u \in Nat /\ u <= MaxScalar /\ u \notin Surrogates
  <2> DEFINE M == MaxScalar
  <2>1. M \in Nat
    BY <1>1
  <2>2. Scalars = (0 .. M) \ Surrogates
    BY DEF Scalars
  <2> HIDE DEF M
  <2>3. u \in 0 .. M <=> u \in Nat /\ u <= M
    BY <2>1
  <2> QED
    BY <2>2, <2>3 DEF M
<1>4. \A u \in Nat : u <= MaxScalar <=> u < 17 * Plane
  BY <1>1
<1> QED
  BY <1>1, <1>2, <1>3, <1>4

(* Numbers in base 64.                                                      *)
LEMMA Digits ==
    ASSUME NEW u \in Nat
    PROVE  /\ Above6(u) \in Nat /\ Low6(u) \in 0 .. 63
           /\ u = 64 * Above6(u) + Low6(u)
  BY DEF Above6, Low6

LEMMA Shifted ==
    ASSUME NEW h \in Nat, NEW d \in 0 .. 63
    PROVE  /\ Shift6(h, 128 + d) = 64 * h + d
           /\ Low6(128 + d) = d
  BY DEF Shift6, Low6

(* A byte that trails has the digit above 128.                              *)
LEMMA Trails ==
    ASSUME NEW c \in Trail
    PROVE  \E d \in 0 .. 63 : c = 128 + d
<1>1. c - 128 \in 0 .. 63 /\ c = 128 + (c - 128)
  BY DEF Trail
<1> QED
  BY <1>1

LEMMA DigitTrails == \A d \in 0 .. 63 : 128 + d \in Trail
  BY DEF Trail

-----------------------------------------------------------------------------
(* The forms of UTF-8.                                                      *)

(* What the four forms are made of, as Bytes writes them.                   *)
LEMMA BytesShape ==
    ASSUME NEW u \in Scalars
    PROVE  \/ u < 128 /\ Length8(u) = 1 /\ Bytes(u) = <<u>>
           \/ \E x \in 194 .. 223, y \in Trail :
                 /\ u = 64 * (x - 192) + (y - 128)
                 /\ Length8(u) = 2 /\ Bytes(u) = <<x, y>>
           \/ \E x \in 224 .. 239, y \in Trail, z \in Trail :
                 /\ u = 64 * (64 * (x - 224) + (y - 128)) + (z - 128)
                 /\ x = 224 => y >= 160
                 /\ x = 237 => y < 160
                 /\ Length8(u) = 3 /\ Bytes(u) = <<x, y, z>>
           \/ \E x \in 240 .. 244, y \in Trail, z \in Trail, w \in Trail :
                 /\ u = 64 * (64 * (64 * (x - 240) + (y - 128)) + (z - 128)) + (w - 128)
                 /\ x = 240 => y >= 144
                 /\ x = 244 => y < 144
                 /\ Length8(u) = 4 /\ Bytes(u) = <<x, y, z, w>>
<1>1. Block = 1024 /\ Plane = 64 * Block
  BY BlockIs
<1>2. u \in Nat /\ u < 17 * Plane /\ (u < 54 * Block \/ 56 * Block <= u)
  BY ScalarsAre
<1> DEFINE q1 == Above6(u)
           q2 == Above6(q1)
           q3 == Above6(q2)
<1>3. q1 \in Nat /\ Low6(u) \in 0 .. 63 /\ u = 64 * q1 + Low6(u)
  BY <1>2, Digits
<1>4. q2 \in Nat /\ Low6(q1) \in 0 .. 63 /\ q1 = 64 * q2 + Low6(q1)
  BY <1>3, Digits
<1>5. q3 \in Nat /\ Low6(q2) \in 0 .. 63 /\ q2 = 64 * q3 + Low6(q2)
  BY <1>4, Digits
<1>6. CASE u < 128
  <2>1. Length8(u) = 1
    BY <1>6 DEF Length8
  <2>2. Bytes(u) = <<u>>
    BY <2>1 DEF Bytes
  <2> QED
    BY <1>6, <2>1, <2>2
<1>7. CASE 128 <= u /\ u < 2 * Block
  <2> DEFINE x == 192 + q1
             y == 128 + Low6(u)
  <2>1. Length8(u) = 2
    BY <1>1, <1>2, <1>7 DEF Length8
  <2>2. Bytes(u) = <<x, y>>
    BY <2>1 DEF Bytes
  <2> HIDE DEF q1
  <2>3. q1 \in 2 .. 31
    BY <1>1, <1>2, <1>3, <1>7
  <2>4. x \in 194 .. 223 /\ y \in Trail /\ u = 64 * (x - 192) + (y - 128)
    BY <1>3, <2>3 DEF Trail
  <2> HIDE DEF x, y
  <2> QED
    BY <2>1, <2>2, <2>4
<1>8. CASE 2 * Block <= u /\ u < Plane
  <2> DEFINE x == 224 + q2
             y == 128 + Low6(q1)
             z == 128 + Low6(u)
  <2>1. Length8(u) = 3
    BY <1>1, <1>2, <1>8 DEF Length8
  <2>2. Bytes(u) = <<x, y, z>>
    BY <2>1 DEF Bytes
  <2> HIDE DEF q1, q2
  <2>3. /\ q2 \in 0 .. 15
        /\ q2 = 0 => Low6(q1) >= 32
        /\ q2 = 13 => Low6(q1) < 32
    BY <1>1, <1>2, <1>3, <1>4, <1>8
  <2>4. /\ x \in 224 .. 239 /\ y \in Trail /\ z \in Trail
        /\ x = 224 => y >= 160
        /\ x = 237 => y < 160
    BY <1>3, <1>4, <2>3 DEF Trail
  <2>5. u = 64 * (64 * (x - 224) + (y - 128)) + (z - 128)
    BY <1>3, <1>4
  <2> HIDE DEF x, y, z
  <2> QED
    BY <2>1, <2>2, <2>4, <2>5
<1>9. CASE Plane <= u
  <2> DEFINE x == 240 + q3
             y == 128 + Low6(q2)
             z == 128 + Low6(q1)
             w == 128 + Low6(u)
  <2>1. Length8(u) = 4
    BY <1>1, <1>2, <1>9 DEF Length8
  <2>2. Bytes(u) = <<x, y, z, w>>
    BY <2>1 DEF Bytes
  <2> HIDE DEF q1, q2, q3
  <2>3. /\ q3 \in 0 .. 4
        /\ q3 = 0 => Low6(q2) >= 16
        /\ q3 = 4 => Low6(q2) < 16
    BY <1>1, <1>2, <1>3, <1>4, <1>5, <1>9
  <2>4. /\ x \in 240 .. 244 /\ y \in Trail /\ z \in Trail /\ w \in Trail
        /\ x = 240 => y >= 144
        /\ x = 244 => y < 144
    BY <1>3, <1>4, <1>5, <2>3 DEF Trail
  <2>5. u = 64 * (64 * (64 * (x - 240) + (y - 128)) + (z - 128)) + (w - 128)
    BY <1>3, <1>4, <1>5
  <2> HIDE DEF x, y, z, w
  <2> QED
    BY <2>1, <2>2, <2>4, <2>5
<1> HIDE DEF q1, q2, q3
<1>10. u < 128 \/ (128 <= u /\ u < 2 * Block) \/ (2 * Block <= u /\ u < Plane) \/ Plane <= u
  BY <1>1, <1>2
<1> QED
  BY <1>6, <1>7, <1>8, <1>9, <1>10

(* What is known of one form from the beginning of it.                      *)
IsForm(f) ==
    /\ f \in Seq(Byte) /\ Len(f) \in 1 .. 4
    /\ f[1] \in Byte \ Trail /\ \A i \in 2 .. Len(f) : f[i] \in Trail
    /\ Form8(f[1]) = Len(f) /\ StandardForm(f)

LEMMA Tuple1 ==
    ASSUME NEW S, NEW x \in S
    PROVE  <<x>> \in Seq(S) /\ Len(<<x>>) = 1 /\ <<x>>[1] = x
  OBVIOUS

LEMMA Tuple2 ==
    ASSUME NEW S, NEW x \in S, NEW y \in S
    PROVE  <<x, y>> \in Seq(S) /\ Len(<<x, y>>) = 2 /\ <<x, y>>[1] = x /\ <<x, y>>[2] = y
  OBVIOUS

LEMMA Tuple3 ==
    ASSUME NEW S, NEW x \in S, NEW y \in S, NEW z \in S
    PROVE  /\ <<x, y, z>> \in Seq(S) /\ Len(<<x, y, z>>) = 3
           /\ <<x, y, z>>[1] = x /\ <<x, y, z>>[2] = y /\ <<x, y, z>>[3] = z
  OBVIOUS

LEMMA Tuple4 ==
    ASSUME NEW S, NEW x \in S, NEW y \in S, NEW z \in S, NEW w \in S
    PROVE  /\ <<x, y, z, w>> \in Seq(S) /\ Len(<<x, y, z, w>>) = 4
           /\ <<x, y, z, w>>[1] = x /\ <<x, y, z, w>>[2] = y /\ <<x, y, z, w>>[3] = z
           /\ <<x, y, z, w>>[4] = w
  OBVIOUS

(* The forms of two bytes or more.                                          *)
LEMMA Form2 ==
    ASSUME NEW x \in 194 .. 223, NEW y \in Trail
    PROVE  /\ IsForm(<<x, y>>) /\ Len(<<x, y>>) = 2
           /\ Scalar8(<<x, y>>) =
                64 * (x - 192) + (y - 128)
<1> DEFINE f == <<x, y>>
<1>1. x \in Byte \ Trail /\ y \in Byte /\ y \in 128 .. 191
  BY DEF Byte, Trail
<1>2. Len(f) = 2 /\ f[1] = x /\ f[2] = y
  BY <1>1, Tuple2
<1> HIDE DEF f
<1>3. x % 32 = x - 192 /\ Low6(y) = y - 128
  BY <1>1 DEF Low6
<1>4. Scalar8(f) = Shift6(x % 32, y)
  BY <1>2 DEF Scalar8
<1>5. Scalar8(f) = 64 * (x - 192) + (y - 128)
  BY <1>1, <1>3, <1>4 DEF Shift6
<1>6. Form8(x) = 2
  BY DEF Form8
<1>7. StandardForm(f)
  BY <1>1, <1>2 DEF StandardForm
<1>9. f \in Seq(Byte)
  <2>1. <<x, y>> \in Seq(Byte)
    BY <1>1, Tuple2
  <2> QED
    BY <2>1 DEF f
<1>10. \A i \in 2 .. 2 : f[i] \in Trail
  BY <1>2
<1>11. IsForm(f)
  BY <1>1, <1>2, <1>6, <1>7, <1>9, <1>10 DEF IsForm
<1> QED
  BY <1>2, <1>5, <1>11 DEF f

LEMMA Form3 ==
    ASSUME NEW x \in 224 .. 239, NEW y \in Trail, NEW z \in Trail,
           x = 224 => y >= 160, x = 237 => y < 160
    PROVE  /\ IsForm(<<x, y, z>>) /\ Len(<<x, y, z>>) = 3
           /\ Scalar8(<<x, y, z>>) =
                64 * (64 * (x - 224) + (y - 128)) + (z - 128)
<1> DEFINE f == <<x, y, z>>
<1>1. x \in Byte \ Trail /\ y \in Byte /\ z \in Byte /\ y \in 128 .. 191 /\ z \in 128 .. 191
  BY DEF Byte, Trail
<1>2. Len(f) = 3 /\ f[1] = x /\ f[2] = y /\ f[3] = z
  BY <1>1, Tuple3
<1> HIDE DEF f
<1>3. x % 16 = x - 224 /\ Low6(y) = y - 128 /\ Low6(z) = z - 128
  BY <1>1 DEF Low6
<1>4. Scalar8(f) = Shift6(Shift6(x % 16, y), z)
  BY <1>2 DEF Scalar8
<1>5. Scalar8(f) = 64 * (64 * (x - 224) + (y - 128)) + (z - 128)
  BY <1>1, <1>3, <1>4 DEF Shift6
<1>6. Form8(x) = 3
  BY DEF Form8
<1>7. \/ x = 224 /\ y \in 160 .. 191
      \/ x \in 225 .. 239 \ {237}
      \/ x = 237 /\ y \in 128 .. 159
  BY <1>1
<1>8. StandardForm(f)
  BY <1>1, <1>2, <1>7 DEF StandardForm
<1>9. f \in Seq(Byte)
  <2>1. <<x, y, z>> \in Seq(Byte)
    BY <1>1, Tuple3
  <2> QED
    BY <2>1 DEF f
<1>10. \A i \in 2 .. 3 : f[i] \in Trail
  BY <1>2
<1>11. IsForm(f)
  BY <1>1, <1>2, <1>6, <1>8, <1>9, <1>10 DEF IsForm
<1> QED
  BY <1>2, <1>5, <1>11 DEF f

LEMMA Form4 ==
    ASSUME NEW x \in 240 .. 244, NEW y \in Trail, NEW z \in Trail, NEW w \in Trail,
           x = 240 => y >= 144, x = 244 => y < 144
    PROVE  /\ IsForm(<<x, y, z, w>>) /\ Len(<<x, y, z, w>>) = 4
           /\ Scalar8(<<x, y, z, w>>) =
                64 * (64 * (64 * (x - 240) + (y - 128)) + (z - 128)) + (w - 128)
<1> DEFINE f == <<x, y, z, w>>
<1>1. /\ x \in Byte \ Trail /\ y \in Byte /\ z \in Byte /\ w \in Byte
      /\ y \in 128 .. 191 /\ z \in 128 .. 191 /\ w \in 128 .. 191
  BY DEF Byte, Trail
<1>2. Len(f) = 4 /\ f[1] = x /\ f[2] = y /\ f[3] = z /\ f[4] = w
  BY <1>1, Tuple4
<1> HIDE DEF f
<1>3. x % 8 = x - 240 /\ Low6(y) = y - 128 /\ Low6(z) = z - 128 /\ Low6(w) = w - 128
  BY <1>1 DEF Low6
<1>4. Scalar8(f) = Shift6(Shift6(Shift6(x % 8, y), z), w)
  BY <1>2 DEF Scalar8
<1>5. Scalar8(f) = 64 * (64 * (64 * (x - 240) + (y - 128)) + (z - 128)) + (w - 128)
  BY <1>1, <1>3, <1>4 DEF Shift6
<1>6. Form8(x) = 4
  BY DEF Form8
<1>7. \/ x = 240 /\ y \in 144 .. 191
      \/ x \in 241 .. 243
      \/ x = 244 /\ y \in 128 .. 143
  BY <1>1
<1>8. StandardForm(f)
  BY <1>1, <1>2, <1>7 DEF StandardForm
<1>9. f \in Seq(Byte)
  <2>1. <<x, y, z, w>> \in Seq(Byte)
    BY <1>1, Tuple4
  <2> QED
    BY <2>1 DEF f
<1>10. \A i \in 2 .. 4 : f[i] \in Trail
  BY <1>2
<1>11. IsForm(f)
  BY <1>1, <1>2, <1>6, <1>8, <1>9, <1>10 DEF IsForm
<1> QED
  BY <1>2, <1>5, <1>11 DEF f

LEMMA Form1 ==
    ASSUME NEW x \in 0 .. 127
    PROVE  IsForm(<<x>>) /\ Len(<<x>>) = 1 /\ Scalar8(<<x>>) = x
<1> DEFINE f == <<x>>
<1>1. x \in Byte \ Trail
  BY DEF Byte, Trail
<1>2. Len(f) = 1 /\ f[1] = x /\ f \in Seq(Byte)
  BY <1>1, Tuple1
<1> HIDE DEF f
<1>3. Form8(x) = 1
  BY DEF Form8
<1>30. Scalar8(f) = x
  BY <1>2 DEF Scalar8
<1>31. Scalar8(f) = x /\ StandardForm(f)
  BY <1>2, <1>30 DEF StandardForm
<1>4. \A i \in 2 .. 1 : f[i] \in Trail
  OBVIOUS
<1>5. IsForm(f)
  BY <1>1, <1>2, <1>3, <1>31, <1>4 DEF IsForm
<1> QED
  BY <1>2, <1>31, <1>5 DEF f

LEMMA BytesForm ==
    ASSUME NEW u \in Scalars
    PROVE  /\ IsForm(Bytes(u)) /\ Len(Bytes(u)) = Length8(u)
           /\ Scalar8(Bytes(u)) = u
<1> DEFINE Goal == IsForm(Bytes(u)) /\ Len(Bytes(u)) = Length8(u) /\ Scalar8(Bytes(u)) = u
<1>1. CASE u < 128 /\ Length8(u) = 1 /\ Bytes(u) = <<u>>
  <2>1. u \in 0 .. 127
    BY <1>1, ScalarsAre
  <2>2. IsForm(<<u>>) /\ Len(<<u>>) = 1 /\ Scalar8(<<u>>) = u
    BY <2>1, Form1
  <2> QED
    BY <1>1, <2>2
<1>2. CASE \E x \in 194 .. 223, y \in Trail :
             /\ u = 64 * (x - 192) + (y - 128)
             /\ Length8(u) = 2 /\ Bytes(u) = <<x, y>>
  <2> PICK x \in 194 .. 223, y \in Trail :
             /\ u = 64 * (x - 192) + (y - 128)
             /\ Length8(u) = 2 /\ Bytes(u) = <<x, y>>
    BY <1>2
  <2>1. /\ IsForm(<<x, y>>) /\ Len(<<x, y>>) = 2
        /\ Scalar8(<<x, y>>) = 64 * (x - 192) + (y - 128)
    BY Form2
  <2> QED
    BY <2>1
<1>3. CASE \E x \in 224 .. 239, y \in Trail, z \in Trail :
             /\ u = 64 * (64 * (x - 224) + (y - 128)) + (z - 128)
             /\ x = 224 => y >= 160
             /\ x = 237 => y < 160
             /\ Length8(u) = 3 /\ Bytes(u) = <<x, y, z>>
  <2> PICK x \in 224 .. 239, y \in Trail, z \in Trail :
             /\ u = 64 * (64 * (x - 224) + (y - 128)) + (z - 128)
             /\ x = 224 => y >= 160
             /\ x = 237 => y < 160
             /\ Length8(u) = 3 /\ Bytes(u) = <<x, y, z>>
    BY <1>3
  <2>1. /\ IsForm(<<x, y, z>>) /\ Len(<<x, y, z>>) = 3
        /\ Scalar8(<<x, y, z>>) = 64 * (64 * (x - 224) + (y - 128)) + (z - 128)
    BY Form3, SMTT(30)
  <2> QED
    BY <2>1
<1>4. CASE \E x \in 240 .. 244, y \in Trail, z \in Trail, w \in Trail :
             /\ u = 64 * (64 * (64 * (x - 240) + (y - 128)) + (z - 128)) + (w - 128)
             /\ x = 240 => y >= 144
             /\ x = 244 => y < 144
             /\ Length8(u) = 4 /\ Bytes(u) = <<x, y, z, w>>
  <2> PICK x \in 240 .. 244, y \in Trail, z \in Trail, w \in Trail :
             /\ u = 64 * (64 * (64 * (x - 240) + (y - 128)) + (z - 128)) + (w - 128)
             /\ x = 240 => y >= 144
             /\ x = 244 => y < 144
             /\ Length8(u) = 4 /\ Bytes(u) = <<x, y, z, w>>
    BY <1>4
  <2>1. /\ IsForm(<<x, y, z, w>>) /\ Len(<<x, y, z, w>>) = 4
        /\ Scalar8(<<x, y, z, w>>) =
             64 * (64 * (64 * (x - 240) + (y - 128)) + (z - 128)) + (w - 128)
    BY Form4, SMTT(30)
  <2> DEFINE s == <<x, y, z, w>>
             v == 64 * (64 * (64 * (x - 240) + (y - 128)) + (z - 128)) + (w - 128)
  <2>2. u = v /\ Length8(u) = 4 /\ Bytes(u) = s
    OBVIOUS
  <2>3. IsForm(s) /\ Len(s) = 4 /\ Scalar8(s) = v
    BY <2>1
  <2> HIDE DEF s, v
  <2> QED
    BY <2>2, <2>3
<1> QED
  BY <1>1, <1>2, <1>3, <1>4, BytesShape, ZenonT(60)

LEMMA Unshifted ==
    ASSUME NEW u \in Nat, NEW h \in Nat, NEW d \in 0 .. 63, u = 64 * h + d
    PROVE  Above6(u) = h /\ Low6(u) = d
  BY DEF Above6, Low6

LEMMA TrailsAre == \A c : c \in Trail <=> c \in Nat /\ 128 <= c /\ c <= 191
  BY DEF Trail

LEMMA BytesAre == \A c \in Byte : c \in 0 .. 255 /\ c \in Nat /\ c < 256
  BY DEF Byte

(* The number of a standard form has that form.                             *)
LEMMA Number2 ==
    ASSUME NEW x \in 194 .. 223, NEW y \in Trail,
           NEW u, u = 64 * (x - 192) + (y - 128)
    PROVE  u \in Scalars /\ Bytes(u) = <<x, y>>
<1>1. Block = 1024 /\ Plane = 64 * Block
  BY BlockIs
<1>2. x - 192 \in Nat /\ y - 128 \in 0 .. 63
  BY DEF Trail
<1>3. u \in Nat /\ 128 <= u /\ u < 2 * Block
  BY <1>1, <1>2
<1>4. u \in Scalars
  BY <1>1, <1>3, ScalarsAre
<1>5. Length8(u) = 2
  BY <1>1, <1>3 DEF Length8
<1>6. Above6(u) = x - 192 /\ Low6(u) = y - 128
  <2> DEFINE p == x - 192
             q == y - 128
  <2>1. u \in Nat /\ u = 64 * p + q /\ p \in Nat /\ q \in 0 .. 63
    BY <1>2, <1>3
  <2> HIDE DEF p, q
  <2>2. Above6(u) = p /\ Low6(u) = q
    BY ONLY <2>1, Unshifted
  <2> QED
    BY <2>2 DEF p, q
<1>7. Bytes(u) = <<192 + Above6(u), 128 + Low6(u)>>
  BY <1>5 DEF Bytes
<1>8. 192 + Above6(u) = x /\ 128 + Low6(u) = y
  BY <1>6 DEF Trail
<1> QED
  BY <1>4, <1>7, <1>8

LEMMA Number3 ==
    ASSUME NEW x \in 224 .. 239, NEW y \in Trail, NEW z \in Trail,
           x = 224 => y >= 160, x = 237 => y < 160,
           NEW u, u = 64 * (64 * (x - 224) + (y - 128)) + (z - 128)
    PROVE  u \in Scalars /\ Bytes(u) = <<x, y, z>>
<1> DEFINE v == 64 * (x - 224) + (y - 128)
<1>1. Block = 1024 /\ Plane = 64 * Block
  BY BlockIs
<1>2. x - 224 \in Nat /\ y - 128 \in 0 .. 63 /\ z - 128 \in 0 .. 63
  BY DEF Trail
<1>3. Above6(v) = x - 224 /\ Low6(v) = y - 128
  <2> DEFINE p == x - 224
             q == y - 128
  <2>1. v \in Nat /\ v = 64 * p + q /\ p \in Nat /\ q \in 0 .. 63
    BY <1>2
  <2> HIDE DEF v, p, q
  <2>2. Above6(v) = p /\ Low6(v) = q
    BY ONLY <2>1, Unshifted
  <2> QED
    BY <2>2 DEF p, q
<1>4. v \in Nat
  BY <1>2
<1>5. v >= 32 /\ v < 1024 /\ ~(864 <= v /\ v < 896)
  BY <1>2
<1>6. u = 64 * v + (z - 128)
  OBVIOUS
<1> HIDE DEF v
<1>61. u \in Nat
  BY <1>2, <1>4, <1>6
<1>7. Above6(u) = v /\ Low6(u) = z - 128
  <2> DEFINE q == z - 128
  <2>1. u = 64 * v + q /\ q \in 0 .. 63
    BY <1>2, <1>6
  <2> HIDE DEF q
  <2>2. Above6(u) = v /\ Low6(u) = q
    BY ONLY <1>4, <1>61, <2>1, Unshifted
  <2> QED
    BY <2>2 DEF q
<1>8. u \in Nat /\ 2 * Block <= u /\ u < Plane /\ ~(54 * Block <= u /\ u < 56 * Block)
  BY <1>1, <1>2, <1>4, <1>5, <1>6
<1>9. u \in Scalars
  BY <1>1, <1>8, ScalarsAre
<1>10. Length8(u) = 3
  BY <1>1, <1>8 DEF Length8
<1>11. Bytes(u) = <<224 + Above6(Above6(u)), 128 + Low6(Above6(u)), 128 + Low6(u)>>
  BY <1>10 DEF Bytes
<1>12. 224 + (x - 224) = x /\ 128 + (y - 128) = y /\ 128 + (z - 128) = z
  BY DEF Trail
<1> QED
  BY <1>3, <1>7, <1>9, <1>11, <1>12

LEMMA Number4 ==
    ASSUME NEW x \in 240 .. 244, NEW y \in Trail, NEW z \in Trail, NEW w \in Trail,
           x = 240 => y >= 144, x = 244 => y < 144,
           NEW u, u = 64 * (64 * (64 * (x - 240) + (y - 128)) + (z - 128)) + (w - 128)
    PROVE  u \in Scalars /\ Bytes(u) = <<x, y, z, w>>
<1> DEFINE t == 64 * (x - 240) + (y - 128)
           v == 64 * t + (z - 128)
<1>1. Block = 1024 /\ Plane = 64 * Block
  BY BlockIs
<1>2. /\ x - 240 \in Nat
      /\ y - 128 \in 0 .. 63 /\ z - 128 \in 0 .. 63 /\ w - 128 \in 0 .. 63
  BY DEF Trail
<1>3. Above6(t) = x - 240 /\ Low6(t) = y - 128
  <2> DEFINE p == x - 240
             q == y - 128
  <2>1. t \in Nat /\ t = 64 * p + q /\ p \in Nat /\ q \in 0 .. 63
    BY <1>2
  <2> HIDE DEF t, p, q
  <2>2. Above6(t) = p /\ Low6(t) = q
    BY ONLY <2>1, Unshifted
  <2> QED
    BY <2>2 DEF p, q
<1>4. t \in Nat /\ 16 <= t /\ t < 272
  BY <1>2
<1>5. u = 64 * v + (w - 128)
  OBVIOUS
<1> HIDE DEF t
<1>6. Above6(v) = t /\ Low6(v) = z - 128
  <2> DEFINE q == z - 128
  <2>1. v \in Nat /\ v = 64 * t + q /\ q \in 0 .. 63
    BY <1>2, <1>4
  <2> HIDE DEF v, q
  <2>2. Above6(v) = t /\ Low6(v) = q
    BY ONLY <1>4, <2>1, Unshifted
  <2> QED
    BY <2>2 DEF q
<1>7. v \in Nat /\ 16 * 64 <= v /\ v < 272 * 64
  BY <1>2, <1>4
<1> HIDE DEF v
<1>71. u \in Nat
  BY <1>2, <1>5, <1>7
<1>8. Above6(u) = v /\ Low6(u) = w - 128
  <2> DEFINE q == w - 128
  <2>1. u = 64 * v + q /\ q \in 0 .. 63
    BY <1>2, <1>5
  <2> HIDE DEF q
  <2>2. Above6(u) = v /\ Low6(u) = q
    BY ONLY <1>7, <1>71, <2>1, Unshifted
  <2> QED
    BY <2>2 DEF q
<1>9. u \in Nat /\ Plane <= u /\ u < 17 * Plane
  BY <1>1, <1>2, <1>5, <1>7
<1>10. u \in Scalars
  BY <1>1, <1>9, ScalarsAre
<1>11. Length8(u) = 4
  BY <1>1, <1>9 DEF Length8
<1>12. Bytes(u) = <<240 + Above6(Above6(Above6(u))), 128 + Low6(Above6(Above6(u))),
                    128 + Low6(Above6(u)), 128 + Low6(u)>>
  BY <1>11 DEF Bytes
<1>13. 240 + (x - 240) = x /\ 128 + (y - 128) = y /\ 128 + (z - 128) = z /\ 128 + (w - 128) = w
  BY DEF Trail
<1> QED
  BY <1>3, <1>6, <1>8, <1>10, <1>12, <1>13

LEMMA LowByte == \A c \in Byte : c < 128 => c \in 0 .. 127
  BY BytesAre

LEMMA Second3 ==
    ASSUME NEW a, NEW b,
           \/ a = 224 /\ b \in 160 .. 191
           \/ a \in 225 .. 239 \ {237} /\ b \in Trail
           \/ a = 237 /\ b \in 128 .. 159
    PROVE  /\ a \in 224 .. 239 /\ b \in Trail
           /\ a = 224 => b >= 160
           /\ a = 237 => b < 160
<1>1. CASE a = 224 /\ b \in 160 .. 191
  BY <1>1 DEF Trail
<1>2. CASE a \in 225 .. 239 \ {237} /\ b \in Trail
  BY <1>2 DEF Trail
<1>3. CASE a = 237 /\ b \in 128 .. 159
  BY <1>3 DEF Trail
<1> QED
  BY <1>1, <1>2, <1>3

LEMMA Second4 ==
    ASSUME NEW a, NEW b,
           \/ a = 240 /\ b \in 144 .. 191
           \/ a \in 241 .. 243 /\ b \in Trail
           \/ a = 244 /\ b \in 128 .. 143
    PROVE  /\ a \in 240 .. 244 /\ b \in Trail
           /\ a = 240 => b >= 144
           /\ a = 244 => b < 144
<1>1. CASE a = 240 /\ b \in 144 .. 191
  BY <1>1 DEF Trail
<1>2. CASE a \in 241 .. 243 /\ b \in Trail
  BY <1>2 DEF Trail
<1>3. CASE a = 244 /\ b \in 128 .. 143
  BY <1>3 DEF Trail
<1> QED
  BY <1>1, <1>2, <1>3

LEMMA FormNumber ==
    ASSUME NEW f \in Seq(Byte), StandardForm(f)
    PROVE  IsForm(f) /\ \E u \in Scalars : f = Bytes(u) /\ Scalar8(f) = u
<1>0. Len(f) \in Nat /\ \A i \in 1 .. Len(f) : f[i] \in Byte
  OBVIOUS
<1>1. CASE Len(f) = 1 /\ f[1] < 128
  <2>1. f[1] \in 0 .. 127
    <3>1. f[1] \in Byte
      BY <1>0, <1>1
    <3> QED
      BY <1>1, <3>1, LowByte, Zenon
  <2>2. f = <<f[1]>>
    BY <1>1
  <2> DEFINE x == f[1]
  <2>3. f = <<x>> /\ x \in 0 .. 127
    BY <2>1, <2>2
  <2> HIDE DEF x
  <2>4. IsForm(f) /\ Scalar8(f) = x
    BY <2>3, Form1
  <2>5. x \in Scalars
    BY <2>3, BlockIs, ScalarsAre
  <2>6. Length8(x) = 1
    BY <2>3 DEF Length8
  <2>7. Bytes(x) = <<x>>
    BY <2>6 DEF Bytes
  <2> QED
    BY <2>3, <2>4, <2>5, <2>7
<1>2. CASE Len(f) = 2 /\ f[1] \in 194 .. 223 /\ f[2] \in Trail
  <2>1. \E x \in 194 .. 223, y \in Trail : f = <<x, y>>
    BY <1>2
  <2>2. PICK x \in 194 .. 223, y \in Trail : f = <<x, y>>
    BY <2>1
  <2>3. IsForm(f) /\ Scalar8(f) = 64 * (x - 192) + (y - 128)
    BY <2>2, Form2
  <2>4. ASSUME NEW u, u = 64 * (x - 192) + (y - 128)
        PROVE  u \in Scalars /\ Bytes(u) = f
    BY <2>2, <2>4, Number2
  <2> QED
    BY <2>3, <2>4
<1>3. CASE /\ Len(f) = 3 /\ f[3] \in Trail
           /\ \/ f[1] = 224 /\ f[2] \in 160 .. 191
              \/ f[1] \in 225 .. 239 \ {237} /\ f[2] \in Trail
              \/ f[1] = 237 /\ f[2] \in 128 .. 159
  <2>0. /\ f[1] \in 224 .. 239 /\ f[2] \in Trail
        /\ f[1] = 224 => f[2] >= 160
        /\ f[1] = 237 => f[2] < 160
    <3> DEFINE a == f[1]
               b == f[2]
    <3>1. \/ a = 224 /\ b \in 160 .. 191
          \/ a \in 225 .. 239 \ {237} /\ b \in Trail
          \/ a = 237 /\ b \in 128 .. 159
      BY <1>3
    <3> HIDE DEF a, b
    <3>2. /\ a \in 224 .. 239 /\ b \in Trail
          /\ a = 224 => b >= 160
          /\ a = 237 => b < 160
      BY <3>1, Second3
    <3> QED
      BY <3>2 DEF a, b
  <2>1. f = <<f[1], f[2], f[3]>>
    BY <1>3
  <2>2. PICK x \in 224 .. 239, y \in Trail, z \in Trail :
          f = <<x, y, z>> /\ (x = 224 => y >= 160) /\ (x = 237 => y < 160)
    BY <1>3, <2>0, <2>1
  <2>3. IsForm(f) /\ Scalar8(f) = 64 * (64 * (x - 224) + (y - 128)) + (z - 128)
    BY <2>2, Form3
  <2>4. ASSUME NEW u, u = 64 * (64 * (x - 224) + (y - 128)) + (z - 128)
        PROVE  u \in Scalars /\ Bytes(u) = f
    BY <2>2, <2>4, Number3
  <2> QED
    BY <2>3, <2>4
<1>4. CASE /\ Len(f) = 4 /\ f[3] \in Trail /\ f[4] \in Trail
           /\ \/ f[1] = 240 /\ f[2] \in 144 .. 191
              \/ f[1] \in 241 .. 243 /\ f[2] \in Trail
              \/ f[1] = 244 /\ f[2] \in 128 .. 143
  <2>0. /\ f[1] \in 240 .. 244 /\ f[2] \in Trail
        /\ f[1] = 240 => f[2] >= 144
        /\ f[1] = 244 => f[2] < 144
    <3> DEFINE a == f[1]
               b == f[2]
    <3>1. \/ a = 240 /\ b \in 144 .. 191
          \/ a \in 241 .. 243 /\ b \in Trail
          \/ a = 244 /\ b \in 128 .. 143
      BY <1>4
    <3> HIDE DEF a, b
    <3>2. /\ a \in 240 .. 244 /\ b \in Trail
          /\ a = 240 => b >= 144
          /\ a = 244 => b < 144
      BY <3>1, Second4
    <3> QED
      BY <3>2 DEF a, b
  <2>1. f = <<f[1], f[2], f[3], f[4]>>
    BY <1>4
  <2>2. PICK x \in 240 .. 244, y \in Trail, z \in Trail, w \in Trail :
          f = <<x, y, z, w>> /\ (x = 240 => y >= 144) /\ (x = 244 => y < 144)
    BY <1>4, <2>0, <2>1
  <2>3. /\ IsForm(f)
        /\ Scalar8(f) = 64 * (64 * (64 * (x - 240) + (y - 128)) + (z - 128)) + (w - 128)
    BY <2>2, Form4
  <2>4. ASSUME NEW u, u = 64 * (64 * (64 * (x - 240) + (y - 128)) + (z - 128)) + (w - 128)
        PROVE  u \in Scalars /\ Bytes(u) = f
    BY <2>2, <2>4, Number4
  <2> QED
    BY <2>3, <2>4
<1> QED
  BY <1>1, <1>2, <1>3, <1>4 DEF StandardForm

(* What the loop from UTF-8 lets through is a number of Unicode.            *)
LEMMA Decoded ==
    ASSUME NEW f, Form8(f[1]) = Len(f), Len(f) # 0, \A i \in 1 .. Len(f) : f[i] \in Byte,
           Len(f) > 2 => \A i \in 2 .. Len(f) : f[i] \in Trail,
           InRange(Scalar8(f), Len(f))
    PROVE  Scalar8(f) \in Scalars /\ (Plane <= Scalar8(f) => Len(f) = 4)
<1> DEFINE u == Scalar8(f)
<1>0. Block = 1024 /\ Plane = 64 * Block /\ MaxScalar = 17 * Plane - 1
  BY BlockIs
<1>1. \A i \in 1 .. Len(f) : f[i] \in 0 .. 255
  BY BytesAre
<1>2. Len(f) \in 1 .. 4
  <2>1. Form8(f[1]) \in {0, 1, 2, 3, 4}
    BY DEF Form8
  <2> QED
    BY <2>1
<1>3. Shortest[1] = 0 /\ Shortest[2] = 128 /\ Shortest[3] = 2 * Block /\ Shortest[4] = Plane
  BY DEF Shortest
<1>4. u <= MaxScalar /\ (Len(f) = 3 => u \notin Surrogates) /\ u >= Shortest[Len(f)]
  BY DEF InRange
<1>5. \A h \in Nat, c \in 0 .. 255 : Shift6(h, c) \in Nat /\ Shift6(h, c) < 64 * (h + 1)
  BY DEF Shift6, Low6
<1>6. CASE Len(f) = 1
  <2>1. f[1] < 128
    <3>1. Form8(f[1]) = 1
      BY <1>6
    <3> QED
      BY <1>1, <1>6, <3>1 DEF Form8
  <2>2. u = f[1]
    BY <1>6 DEF Scalar8
  <2> HIDE DEF u
  <2>3. u \in Scalars /\ ~(Plane <= u)
    BY <1>0, <1>1, <1>6, <2>1, <2>2, ScalarsAre
  <2> QED
    BY <2>3 DEF u
<1>7. CASE Len(f) = 2
  <2>1. u = Shift6(f[1] % 32, f[2])
    BY <1>7 DEF Scalar8
  <2>2. f[1] % 32 \in 0 .. 31 /\ f[1] % 32 \in Nat /\ f[2] \in 0 .. 255
    BY ONLY <1>1, <1>7
  <2> HIDE DEF u
  <2>3. u \in Nat /\ u < 64 * 32
    <3> DEFINE h == f[1] % 32
               c == f[2]
    <3>1. h \in 0 .. 31 /\ h \in Nat /\ c \in 0 .. 255 /\ u = Shift6(h, c)
      BY <2>1, <2>2
    <3> HIDE DEF h, c
    <3>2. u \in Nat /\ u < 64 * (h + 1)
      BY <1>5, <3>1
    <3> QED
      BY <3>1, <3>2
  <2>4. u \in Scalars /\ ~(Plane <= u)
    BY <1>0, <2>3, ScalarsAre
  <2> QED
    BY <2>4 DEF u
<1>8. CASE Len(f) = 3
  <2>1. u = Shift6(Shift6(f[1] % 16, f[2]), f[3])
    BY <1>8 DEF Scalar8
  <2>2. f[1] % 16 \in 0 .. 15 /\ f[1] % 16 \in Nat /\ f[2] \in 0 .. 255 /\ f[3] \in 0 .. 255
    BY ONLY <1>1, <1>8
  <2> HIDE DEF u
  <2>3. Shift6(f[1] % 16, f[2]) \in Nat
    BY <1>5, <2>2, Zenon
  <2>4. u \in Nat /\ ~(Plane <= u)
    <3> DEFINE h == f[1] % 16
               c == f[2]
               d == f[3]
               v == Shift6(h, c)
    <3>1. h \in Nat /\ h <= 15 /\ c \in 0 .. 255 /\ d \in 0 .. 255 /\ u = Shift6(v, d)
      BY <2>1, <2>2
    <3> HIDE DEF h, c, d
    <3>2. v \in Nat /\ v < 64 * (h + 1)
      BY <1>5, <3>1
    <3> HIDE DEF v
    <3>3. u \in Nat /\ u < 64 * (v + 1)
      BY <1>5, <3>1, <3>2
    <3> QED
      BY <1>0, <3>1, <3>2, <3>3
  <2>5. u \notin Surrogates
    BY <1>4, <1>8
  <2>6. u \in Scalars
    BY <1>0, <1>4, <2>4, <2>5, ScalarsAre, SurrogatesAre
  <2> QED
    BY <2>4, <2>6 DEF u
<1>9. CASE Len(f) = 4
  <2>1. u = Shift6(Shift6(Shift6(f[1] % 8, f[2]), f[3]), f[4])
    BY <1>9 DEF Scalar8
  <2>2. f[1] % 8 \in Nat /\ f[2] \in 0 .. 255 /\ f[3] \in 0 .. 255 /\ f[4] \in 0 .. 255
    BY ONLY <1>1, <1>9
  <2> HIDE DEF u
  <2>3. Shift6(f[1] % 8, f[2]) \in Nat
    BY <1>5, <2>2, Zenon
  <2>4. Shift6(Shift6(f[1] % 8, f[2]), f[3]) \in Nat
    BY <1>5, <2>2, <2>3
  <2>5. u \in Nat
    BY <1>5, <2>1, <2>2, <2>4
  <2>6. u >= Plane
    BY <1>3, <1>4, <1>9
  <2>7. u \in Scalars
    BY <1>0, <1>4, <2>5, <2>6, ScalarsAre
  <2> QED
    BY <1>9, <2>7 DEF u
<1> QED
  BY <1>2, <1>6, <1>7, <1>8, <1>9

-----------------------------------------------------------------------------
(* The forms of UTF-16: a unit, or a high and a low surrogate.              *)
LEMMA UnitsShape ==
    ASSUME NEW u \in Scalars
    PROVE  \/ u < Plane /\ u \in Unit \ Surrogates /\ Units(u) = <<u>>
           \/ /\ Plane <= u
              /\ \E h \in HighSurrogates, l \in LowSurrogates :
                    /\ Units(u) = <<h, l>>
                    /\ u = (h - 54 * Block) * Block + (l - 55 * Block) + Plane
<1>1. Block = 1024 /\ Plane = 64 * Block
  BY BlockIs
<1>2. u \in Nat /\ u < 17 * Plane /\ (u < 54 * Block \/ 56 * Block <= u)
  BY ScalarsAre
<1>3. CASE u < Plane
  <2>1. Units(u) = <<u>>
    BY <1>3 DEF Units
  <2>2. u \in Unit
    <3> DEFINE top == Plane - 1
    <3>1. u <= top /\ top \in Int
      BY <1>1, <1>2, <1>3
    <3>2. Unit = 0 .. top
      BY DEF Unit
    <3> HIDE DEF top
    <3> QED
      BY <1>2, <3>1, <3>2
  <2>3. u \notin Surrogates
    BY DEF Scalars
  <2> QED
    BY <1>3, <2>1, <2>2, <2>3
<1>4. CASE Plane <= u
  <2> DEFINE h == 54 * Block + (u - Plane) \div Block
             l == 55 * Block + ((u - Plane) % Block)
  <2>1. Units(u) = <<h, l>>
    BY <1>1, <1>2, <1>4 DEF Units
  <2>2. /\ h \in Int /\ l \in Int
        /\ 54 * Block <= h /\ h < 55 * Block /\ 55 * Block <= l /\ l < 56 * Block
        /\ u = (h - 54 * Block) * Block + (l - 55 * Block) + Plane
    BY <1>1, <1>2, <1>4
  <2> HIDE DEF h, l
  <2>3. h \in HighSurrogates /\ l \in LowSurrogates
    BY <2>2, SurrogatesAre
  <2> QED
    BY <1>4, <2>1, <2>2, <2>3
<1> QED
  BY <1>1, <1>2, <1>3, <1>4

(* A pair of surrogates holds a number from the second plane on.            *)
LEMMA PairNumber ==
    ASSUME NEW h \in HighSurrogates, NEW l \in LowSurrogates
    PROVE  LET u == (h - 54 * Block) * Block + (l % Block) + Plane
           IN  u \in Scalars /\ Units(u) = <<h, l>>
<1> DEFINE u == (h - 54 * Block) * Block + (l % Block) + Plane
<1>1. Block = 1024 /\ Plane = 64 * Block
  BY BlockIs
<1>2. h \in Int /\ l \in Int
  BY <1>1 DEF HighSurrogates, LowSurrogates
<1>3. 54 * Block <= h /\ h < 55 * Block /\ 55 * Block <= l /\ l < 56 * Block
  BY <1>2, SurrogatesAre
<1>4. l % Block = l - 55 * Block
  BY <1>1, <1>2, <1>3
<1>5. u \in Nat /\ Plane <= u /\ u < 17 * Plane
  BY <1>1, <1>2, <1>3, <1>4
<1>6. /\ 54 * Block + (u - Plane) \div Block = h
      /\ 55 * Block + ((u - Plane) % Block) = l
  BY <1>1, <1>2, <1>3, <1>4
<1> HIDE DEF u
<1>7. u \in Scalars
  BY <1>1, <1>5, ScalarsAre
<1>8. Units(u) = <<54 * Block + (u - Plane) \div Block, 55 * Block + ((u - Plane) % Block)>>
  BY <1>1, <1>5 DEF Units
<1>9. Units(u) = <<h, l>>
  BY <1>6, <1>8
<1> QED
  BY <1>7, <1>9 DEF u

(* The sequence f stands in the sequence a after its first i elements.      *)
SubAt(a, i, f) == i + Len(f) <= Len(a) /\ \A k \in 1 .. Len(f) : a[i + k] = f[k]

(* The sequence b begins with the sequence a.                               *)
Extends(a, b) == Len(a) <= Len(b) /\ \A k \in 1 .. Len(a) : b[k] = a[k]

LEMMA Concat ==
    ASSUME NEW S, NEW a \in Seq(S), NEW f \in Seq(S)
    PROVE  /\ a \o f \in Seq(S) /\ Len(a \o f) = Len(a) + Len(f)
           /\ \A k \in 1 .. Len(a) : (a \o f)[k] = a[k]
           /\ \A k \in 1 .. Len(f) : (a \o f)[Len(a) + k] = f[k]
<1> DEFINE c == a \o f
<1>1. /\ c \in Seq(S) /\ Len(c) = Len(a) + Len(f)
      /\ \A i \in 1 .. Len(a) + Len(f) : c[i] = IF i <= Len(a) THEN a[i] ELSE f[i - Len(a)]
  BY ConcatProperties
<1>2. Len(a) \in Nat /\ Len(f) \in Nat
  BY LenProperties
<1> HIDE DEF c
<1>3. \A k \in 1 .. Len(a) : c[k] = a[k]
  BY <1>1, <1>2
<1>4. ASSUME NEW k \in 1 .. Len(f)
      PROVE  c[Len(a) + k] = f[k]
  <2>1. Len(a) + k \in 1 .. Len(a) + Len(f) /\ ~(Len(a) + k <= Len(a)) /\ (Len(a) + k) - Len(a) = k
    BY <1>2
  <2> QED
    BY <1>1, <2>1
<1> QED
  BY <1>1, <1>3, <1>4 DEF c

LEMMA ConcatStands ==
    ASSUME NEW S, NEW a \in Seq(S), NEW f \in Seq(S)
    PROVE  Extends(a, a \o f) /\ SubAt(a \o f, Len(a), f)
<1>1. Len(a) \in Nat /\ Len(f) \in Nat
  BY LenProperties
<1> QED
  BY <1>1, Concat DEF Extends, SubAt

LEMMA SeqElements ==
    ASSUME NEW S, NEW a \in Seq(S)
    PROVE  Len(a) \in Nat /\ \A i \in 1 .. Len(a) : a[i] \in S
  BY ElementOfSeq, LenProperties

(* What is left of s, and the first n of it.                                *)
LEMMA Rest ==
    ASSUME NEW S, NEW s \in Seq(S), NEW p \in 0 .. Len(s)
    PROVE  LET l == SubSeq(s, p + 1, Len(s))
           IN  /\ l \in Seq(S) /\ Len(l) = Len(s) - p
               /\ \A i \in 1 .. Len(s) - p : l[i] = s[p + i]
               /\ l = <<>> <=> p = Len(s)
<1> DEFINE l == SubSeq(s, p + 1, Len(s))
<1>1. Len(s) \in Nat /\ \A i \in 1 .. Len(s) : s[i] \in S
  BY SeqElements
<1>2. p \in Nat /\ p <= Len(s) /\ p + 1 \in Int /\ Len(s) \in Int
  BY <1>1
<1>3. \A i \in p + 1 .. Len(s) : s[i] \in S
  BY <1>1, <1>2
<1>4. /\ l \in Seq(S)
      /\ Len(l) = IF p + 1 <= Len(s) THEN Len(s) - (p + 1) + 1 ELSE 0
      /\ \A i \in 1 .. Len(s) - (p + 1) + 1 : l[i] = s[(p + 1) + i - 1]
  BY <1>2, <1>3, SubSeqProperties
<1> HIDE DEF l
<1>5. Len(l) = Len(s) - p /\ Len(s) - (p + 1) + 1 = Len(s) - p
  BY <1>1, <1>2, <1>4
<1>6. ASSUME NEW i \in 1 .. Len(s) - p
      PROVE  l[i] = s[p + i]
  <2>1. (p + 1) + i - 1 = p + i
    BY <1>2
  <2> QED
    BY <1>4, <1>5, <2>1
<1>7. l = <<>> <=> Len(l) = 0
  BY <1>4, EmptySeq
<1>8. l = <<>> <=> p = Len(s)
  BY <1>1, <1>2, <1>5, <1>7
<1> QED
  BY <1>4, <1>5, <1>6, <1>8 DEF l

LEMMA First ==
    ASSUME NEW S, NEW s \in Seq(S), NEW n \in 0 .. Len(s)
    PROVE  LET f == SubSeq(s, 1, n)
           IN  /\ f \in Seq(S) /\ Len(f) = n
               /\ \A i \in 1 .. n : f[i] = s[i]
<1> DEFINE f == SubSeq(s, 1, n)
<1>1. Len(s) \in Nat /\ \A i \in 1 .. Len(s) : s[i] \in S
  BY SeqElements
<1>2. n \in Nat /\ n <= Len(s) /\ n \in Int /\ 1 \in Int
  BY <1>1
<1>3. \A i \in 1 .. n : s[i] \in S
  BY <1>1, <1>2
<1>4. /\ f \in Seq(S)
      /\ Len(f) = IF 1 <= n THEN n - 1 + 1 ELSE 0
      /\ \A i \in 1 .. n - 1 + 1 : f[i] = s[1 + i - 1]
  BY <1>2, <1>3, SubSeqProperties
<1> HIDE DEF f
<1>5. Len(f) = n /\ n - 1 + 1 = n
  BY <1>2, <1>4
<1>6. ASSUME NEW i \in 1 .. n
      PROVE  f[i] = s[i]
  <2>1. 1 + i - 1 = i
    OBVIOUS
  <2> QED
    BY <1>4, <1>5, <2>1
<1> QED
  BY <1>4, <1>5, <1>6 DEF f

(* Sequences that stand at the same place are equal.                        *)
LEMMA SameForm ==
    ASSUME NEW S, NEW s \in Seq(S), NEW f \in Seq(S), NEW p \in 0 .. Len(s), SubAt(s, p, f)
    PROVE  LET l == SubSeq(s, p + 1, Len(s))
           IN  /\ Len(f) <= Len(l) /\ \A k \in 1 .. Len(f) : l[k] = f[k]
               /\ SubSeq(l, 1, Len(f)) = f
<1> DEFINE l == SubSeq(s, p + 1, Len(s))
<1>1. /\ l \in Seq(S) /\ Len(l) = Len(s) - p
      /\ \A i \in 1 .. Len(s) - p : l[i] = s[p + i]
  BY Rest
<1>2. Len(s) \in Nat /\ Len(f) \in Nat /\ p \in Nat
  BY SeqElements
<1> HIDE DEF l
<1>3. Len(f) <= Len(l) /\ Len(f) \in 0 .. Len(l)
  BY <1>1, <1>2 DEF SubAt
<1>4. \A k \in 1 .. Len(f) : l[k] = f[k]
  BY <1>1, <1>2, <1>3 DEF SubAt
<1> DEFINE g == SubSeq(l, 1, Len(f))
<1>5. g \in Seq(S) /\ Len(g) = Len(f) /\ \A i \in 1 .. Len(f) : g[i] = l[i]
  BY <1>1, <1>3, First
<1> HIDE DEF g
<1>6. g = f
  BY <1>4, <1>5, SeqEqual
<1> QED
  BY <1>3, <1>4, <1>6 DEF l, g

(* Every nonempty set of natural numbers has a least element.               *)
LEMMA Least ==
    ASSUME NEW T, T \subseteq Nat, T # {}
    PROVE  \E x \in T : \A y \in T : x <= y
<1> DEFINE R == OpToRel(<, Nat)
<1>1. IsWellFoundedOn(R, Nat)
  BY NatLessThanWellFounded
<1>2. R = {ss \in Nat \X Nat : ss[1] < ss[2]}
  BY DEF OpToRel
<1> HIDE DEF R
<1>3. PICK x \in T : \A y \in T : ~(<<y, x>> \in R)
  BY <1>1, WFMin
<1>4. ASSUME NEW y \in T
      PROVE  x <= y
  <2>1. x \in Nat /\ y \in Nat
    OBVIOUS
  <2>2. ~(y < x)
    BY <1>2, <1>3, <2>1
  <2> QED
    BY <2>1, <2>2
<1> QED
  BY <1>4

(* The bytes that a permissive conversion skips are one or more.            *)
LEMMA SkippedIs ==
    ASSUME from \in Seq(Unit), pos \in 0 .. Len(from), Left # <<>>
    PROVE  Skipped \in 1 .. Len(from) - pos
<1> DEFINE n == Len(Left)
           stops(m) == m < n => Left[m + 1] \notin Trail
           T == {m \in 1 .. n : stops(m)}
<1>1. n = Len(from) - pos /\ n \in Nat /\ n # 0
  BY Rest, SeqElements DEF Left
<1>2. n \in T /\ T \subseteq Nat
  BY <1>1
<1>3. PICK m \in T : \A k \in T : m <= k
  <2> HIDE DEF T
  <2> QED
    BY <1>2, Least
<1>4. m \in 1 .. n /\ stops(m)
  OBVIOUS
<1>5. \A i \in 2 .. m : Left[i] \in Trail
  <2> SUFFICES ASSUME NEW i \in 2 .. m, Left[i] \notin Trail
               PROVE  FALSE
    OBVIOUS
  <2>1. i - 1 \in 1 .. n /\ (i - 1) + 1 = i /\ ~(m <= i - 1)
    BY <1>1, <1>4
  <2>2. i - 1 \in T
    BY <2>1
  <2> QED
    BY <1>3, <2>1, <2>2
<1>6. \E k \in 1 .. n : (\A i \in 2 .. k : Left[i] \in Trail) /\ (k < n => Left[k + 1] \notin Trail)
  BY <1>4, <1>5
<1>7. Skipped \in 1 .. n
  BY <1>6 DEF Skipped
<1> QED
  BY <1>1, <1>7

LEMMA BytesSeq ==
    ASSUME NEW u \in Scalars
    PROVE  /\ Bytes(u) \in Seq(Byte) /\ Len(Bytes(u)) = Length8(u) /\ Length8(u) \in 1 .. 4
           /\ Bytes(u)[1] \notin Trail /\ \A i \in 2 .. Length8(u) : Bytes(u)[i] \in Trail
           /\ Form8(Bytes(u)[1]) = Length8(u) /\ Scalar8(Bytes(u)) = u
  BY BytesForm DEF IsForm

LEMMA LengthRange ==
    ASSUME NEW u \in Scalars
    PROVE  /\ InRange(u, Length8(u))
           /\ Length8(u) \in 1 .. 4
           /\ Length8(u) = 4 <=> Plane <= u
<1>1. Block = 1024 /\ Plane = 64 * Block /\ MaxScalar = 17 * Plane - 1
  BY BlockIs
<1>2. u \in Nat /\ u < 17 * Plane /\ u \notin Surrogates
  BY ScalarsAre DEF Scalars
<1>3. Shortest[1] = 0 /\ Shortest[2] = 128 /\ Shortest[3] = 2 * Block /\ Shortest[4] = Plane
  BY DEF Shortest
<1>4. \/ Length8(u) = 1 /\ u < 128
      \/ Length8(u) = 2 /\ 128 <= u /\ u < 2 * Block
      \/ Length8(u) = 3 /\ 2 * Block <= u /\ u < Plane
      \/ Length8(u) = 4 /\ Plane <= u
  BY <1>1, <1>2 DEF Length8
<1> QED
  BY <1>1, <1>2, <1>3, <1>4 DEF InRange

(* A number whose bytes come next is read as this number.                   *)
LEMMA Reads8 ==
    ASSUME from \in Seq(Byte), pos \in 0 .. Len(from), to \in Seq(Unit), Len(to) <= pos,
           NEW u \in Scalars, SubAt(from, pos, Bytes(u))
    PROVE  /\ Left # <<>> /\ Outcome8(Left, Room) = "success"
           /\ Form8(Left[1]) = Len(Bytes(u))
           /\ Scalar8(SubSeq(Left, 1, Form8(Left[1]))) = u
<1> DEFINE n == Length8(u)
           f == Bytes(u)
           l == Left
<1>1. /\ f \in Seq(Byte) /\ Len(f) = n /\ n \in 1 .. 4
      /\ \A i \in 2 .. n : f[i] \in Trail
      /\ Form8(f[1]) = n /\ Scalar8(f) = u
  BY BytesSeq
<1>2. Len(f) <= Len(l) /\ l[1] = f[1] /\ SubSeq(l, 1, n) = f
  BY <1>1, SameForm DEF Left
<1>3. Len(l) = Len(from) - pos /\ Len(from) \in Nat /\ Len(to) \in Nat
  BY Rest, SeqElements DEF Left
<1>4. InRange(u, n)
  BY LengthRange
<1> DEFINE r == Room
<1>5. r >= n
  BY <1>1, <1>2, <1>3 DEF Room
<1>6. l # <<>>
  BY <1>1, <1>2
<1> HIDE DEF n, f, l, r
<1>7. r # 0 /\ ~(n = 4 /\ r = 1) /\ n # 0 /\ ~(Len(l) < n)
  <2>1. r \in Int /\ Len(l) \in Int
    BY <1>3 DEF r, l, Room
  <2> QED
    BY <1>1, <1>2, <1>5, <2>1
<1>8. Outcome8(l, r) = "success"
  BY <1>1, <1>2, <1>4, <1>7 DEF Outcome8
<1> QED
  BY <1>1, <1>2, <1>6, <1>8 DEF n, f, l, r

LEMMA PairUnits ==
    ASSUME NEW h \in HighSurrogates, NEW l \in LowSurrogates
    PROVE  h \in Unit /\ l \in Unit
<1> DEFINE top == Plane - 1
<1>1. Block = 1024 /\ Plane = 64 * Block
  BY BlockIs
<1>2. h \in Nat /\ l \in Nat /\ h < 55 * Block /\ l < 56 * Block
  BY <1>1 DEF HighSurrogates, LowSurrogates
<1>3. h <= top /\ l <= top /\ top \in Int
  BY <1>1, <1>2
<1>4. Unit = 0 .. top
  BY DEF Unit
<1> HIDE DEF top
<1> QED
  BY <1>2, <1>3, <1>4

LEMMA Disjoint == HighSurrogates \cap LowSurrogates = {}
<1>1. Block = 1024
  BY BlockIs
<1> QED
  BY <1>1 DEF HighSurrogates, LowSurrogates

LEMMA PairRead ==
    ASSUME NEW u \in Scalars, Plane <= u
    PROVE  u = (Units(u)[1] - 54 * Block) * Block + (Units(u)[2] % Block) + Plane
<1>1. Block = 1024 /\ Plane = 64 * Block
  BY BlockIs
<1>2. u \in Nat
  BY ScalarsAre
<1>3. PICK h \in HighSurrogates, l \in LowSurrogates :
          Units(u) = <<h, l>> /\ u = (h - 54 * Block) * Block + (l - 55 * Block) + Plane
  BY <1>1, <1>2, UnitsShape
<1>4. h \in Int /\ l \in Int /\ 55 * Block <= l /\ l < 56 * Block
  BY <1>1 DEF HighSurrogates, LowSurrogates
<1>5. l % Block = l - 55 * Block
  BY <1>1, <1>4
<1>6. Units(u)[1] = h /\ Units(u)[2] = l
  BY <1>3
<1> QED
  BY <1>3, <1>5, <1>6

LEMMA UnitsSeq ==
    ASSUME NEW u \in Scalars
    PROVE  /\ Units(u) \in Seq(Unit)
           /\ Len(Units(u)) = IF Plane <= u THEN 2 ELSE 1
           /\ Plane <= u => Units(u)[1] \in HighSurrogates /\ Units(u)[2] \in LowSurrogates
           /\ ~(Plane <= u) => Units(u)[1] \notin Surrogates /\ Units(u)[1] = u
<1>0. Block = 1024 /\ Plane = 64 * Block
  BY BlockIs
<1>1. u \in Nat
  BY ScalarsAre
<1>2. CASE u < Plane /\ u \in Unit \ Surrogates /\ Units(u) = <<u>>
  <2>1. ~(Plane <= u)
    BY <1>0, <1>1, <1>2
  <2> QED
    BY <1>2, <2>1
<1>3. CASE Plane <= u /\ \E h \in HighSurrogates, l \in LowSurrogates : Units(u) = <<h, l>>
  <2>1. PICK h \in HighSurrogates, l \in LowSurrogates : Units(u) = <<h, l>>
    BY <1>3
  <2>2. h \in Unit /\ l \in Unit
    BY PairUnits
  <2> QED
    BY <1>3, <2>1, <2>2
<1> QED
  BY <1>2, <1>3, UnitsShape

(* The same of a number whose units come next.                              *)
LEMMA Reads16 ==
    ASSUME from \in Seq(Unit), pos \in 0 .. Len(from), to \in Seq(Byte), Len(to) <= 3 * pos,
           NEW u \in Scalars, SubAt(from, pos, Units(u))
    PROVE  /\ Left # <<>> /\ Outcome16(Left, Room8) = "success"
           /\ Form16(Left) = Len(Units(u)) /\ Scalar16(Left) = u
<1> DEFINE f == Units(u)
           l == Left
           r == Room8
<1>0. Block = 1024 /\ Plane = 64 * Block
  BY BlockIs
<1>1. /\ f \in Seq(Unit)
      /\ Len(f) = IF Plane <= u THEN 2 ELSE 1
      /\ Plane <= u => f[1] \in HighSurrogates /\ f[2] \in LowSurrogates
      /\ ~(Plane <= u) => f[1] \notin Surrogates /\ f[1] = u
  BY UnitsSeq
<1>2. Len(f) <= Len(l) /\ \A k \in 1 .. Len(f) : l[k] = f[k]
  BY <1>1, SameForm DEF Left
<1>3. Len(l) = Len(from) - pos /\ Len(from) \in Nat /\ Len(to) \in Nat
  BY Rest, SeqElements DEF Left
<1>4. r \in Int /\ r >= 3 * Len(l) /\ Len(l) \in Nat
  BY <1>3 DEF Room8
<1>5. l # <<>>
  BY <1>1, <1>2
<1>6. u \in Nat /\ Length8(u) \in 1 .. 4 /\ (Length8(u) = 4 <=> Plane <= u)
  BY LengthRange, ScalarsAre
<1>7. HighSurrogates \cap LowSurrogates = {}
  BY Disjoint
<1>8. /\ Plane <= u => u = (f[1] - 54 * Block) * Block + (f[2] % Block) + Plane
  BY PairRead
<1> HIDE DEF f, l, r
<1>9. CASE Plane <= u
  <2>1. l[1] = f[1] /\ l[2] = f[2] /\ l[1] \in HighSurrogates /\ l[2] \in LowSurrogates
        /\ l[1] \notin LowSurrogates
    BY <1>1, <1>2, <1>7, <1>9
  <2>2. ~(r < 4) /\ Len(l) # 1 /\ Len(f) = 2
    BY <1>1, <1>2, <1>4, <1>9
  <2>3. Outcome16(l, r) = "success"
    BY <2>1, <2>2 DEF Outcome16
  <2>4. Form16(l) = 2
    BY <2>1 DEF Form16
  <2>5. Scalar16(l) = u
    BY <1>8, <1>9, <2>1 DEF Scalar16
  <2> QED
    BY <1>5, <2>2, <2>3, <2>4, <2>5 DEF f, l, r
<1>10. CASE ~(Plane <= u)
  <2>1. l[1] = u /\ l[1] \notin HighSurrogates /\ l[1] \notin LowSurrogates /\ Len(f) = 1
    BY <1>1, <1>2, <1>10 DEF Surrogates
  <2>2. ~(r < Length8(u))
    BY <1>2, <1>4, <1>6, <1>10, <2>1
  <2>3. Outcome16(l, r) = "success"
    BY <2>1, <2>2 DEF Outcome16
  <2>4. Form16(l) = 1
    BY <2>1 DEF Form16
  <2>5. Scalar16(l) = u
    BY <2>1 DEF Scalar16
  <2> QED
    BY <1>5, <2>1, <2>3, <2>4, <2>5 DEF f, l, r
<1> QED
  BY <1>9, <1>10

-----------------------------------------------------------------------------
(* Well-formed strings.                                                     *)

LEMMA Grow16 ==
    ASSUME NEW a \in Seq(Unit), WellFormed16(a), NEW f \in Seq(Unit),
           \/ Len(f) = 1 /\ f[1] \notin Surrogates
           \/ Len(f) = 2 /\ f[1] \in HighSurrogates /\ f[2] \in LowSurrogates
    PROVE  WellFormed16(a \o f)
<1> DEFINE b == a \o f
<1>1. /\ b \in Seq(Unit) /\ Len(b) = Len(a) + Len(f)
      /\ \A k \in 1 .. Len(a) : b[k] = a[k]
      /\ \A k \in 1 .. Len(f) : b[Len(a) + k] = f[k]
  BY Concat
<1>2. Len(a) \in Nat /\ Len(f) \in Nat
  BY SeqElements
<1>3. HighSurrogates \cap LowSurrogates = {}
  BY Disjoint
<1> HIDE DEF b
<1>4. ASSUME NEW i \in 1 .. Len(b)
      PROVE  /\ b[i] \in HighSurrogates => i < Len(b) /\ b[i + 1] \in LowSurrogates
             /\ b[i] \in LowSurrogates => i > 1 /\ b[i - 1] \in HighSurrogates
  <2>1. CASE i <= Len(a)
    <3>1. i \in 1 .. Len(a) /\ b[i] = a[i]
      BY <1>1, <1>2, <2>1
    <3>2. /\ a[i] \in HighSurrogates => i < Len(a) /\ a[i + 1] \in LowSurrogates
          /\ a[i] \in LowSurrogates => i > 1 /\ a[i - 1] \in HighSurrogates
      BY <3>1 DEF WellFormed16
    <3>3. i < Len(a) => b[i + 1] = a[i + 1]
      BY <1>1, <1>2, <3>1
    <3>4. i > 1 => b[i - 1] = a[i - 1]
      BY <1>1, <1>2, <3>1
    <3> QED
      BY <1>1, <1>2, <3>1, <3>2, <3>3, <3>4
  <2>2. CASE i = Len(a) + 1
    <3>1. b[i] = f[1]
      BY <1>1, <1>2, <2>2
    <3>2. CASE Len(f) = 1 /\ f[1] \notin Surrogates
      BY <3>1, <3>2 DEF Surrogates
    <3>3. CASE Len(f) = 2 /\ f[1] \in HighSurrogates /\ f[2] \in LowSurrogates
      <4>1. b[i + 1] = f[2] /\ i < Len(b)
        <5>1. b[Len(a) + 2] = f[2]
          BY <1>1, <3>3
        <5>2. i + 1 = Len(a) + 2
          BY <1>2, <2>2
        <5> QED
          BY <1>1, <1>2, <2>2, <3>3, <5>1, <5>2
      <4>2. b[i] \notin LowSurrogates
        BY <1>3, <3>1, <3>3
      <4> QED
        BY <3>3, <4>1, <4>2
    <3> QED
      BY <3>2, <3>3
  <2>3. CASE i = Len(a) + 2
    <3>1. Len(f) = 2 /\ f[1] \in HighSurrogates /\ f[2] \in LowSurrogates
      BY <1>1, <1>2, <2>3
    <3>2. b[i] = f[2] /\ b[Len(a) + 1] = f[1] /\ i - 1 = Len(a) + 1 /\ i > 1
      BY <1>1, <1>2, <2>3, <3>1
    <3>3. b[i] \notin HighSurrogates
      BY <1>3, <3>1, <3>2
    <3> QED
      BY <3>1, <3>2, <3>3
  <2>4. i <= Len(a) \/ i = Len(a) + 1 \/ i = Len(a) + 2
    BY <1>1, <1>2
  <2> QED
    BY <2>1, <2>2, <2>3, <2>4
<1> QED
  BY <1>4 DEF WellFormed16, b

(* A form that stands somewhere in a string.                                *)
LEMMA FormStands ==
    ASSUME NEW s \in Seq(Byte), NEW i \in 1 .. Len(s), NEW n \in 1 .. 4
    PROVE  FormAt(s, i, n) <=>
             \E f \in Seq(Byte) : StandardForm(f) /\ Len(f) = n /\ SubAt(s, i - 1, f)
<1>1. Len(s) \in Nat /\ \A k \in 1 .. Len(s) : s[k] \in Byte
  BY SeqElements
<1>2. i \in Nat /\ n \in Nat /\ i + n - 1 \in Int /\ i \in Int /\ n # 0
  OBVIOUS
<1> DEFINE g == SubSeq(s, i, i + n - 1)
<1>3. ASSUME i + n <= Len(s) + 1
      PROVE  g \in Seq(Byte) /\ Len(g) = n /\ \A k \in 1 .. n : g[k] = s[(i - 1) + k]
  <2>1. \A k \in i .. i + n - 1 : s[k] \in Byte
    BY <1>1, <1>2, <1>3
  <2>2. /\ g \in Seq(Byte)
        /\ Len(g) = IF i <= i + n - 1 THEN i + n - 1 - i + 1 ELSE 0
        /\ \A k \in 1 .. i + n - 1 - i + 1 : g[k] = s[i + k - 1]
    BY <1>2, <2>1, SubSeqProperties
  <2> HIDE DEF g
  <2>3. Len(g) = n /\ i + n - 1 - i + 1 = n
    BY <1>2, <2>2
  <2>4. ASSUME NEW k \in 1 .. n
        PROVE  g[k] = s[(i - 1) + k]
    <3>1. i + k - 1 = (i - 1) + k
      BY <1>2
    <3> QED
      BY <2>2, <2>3, <3>1
  <2> QED
    BY <2>2, <2>3, <2>4
<1> HIDE DEF g
<1>4. ASSUME FormAt(s, i, n)
      PROVE  \E f \in Seq(Byte) : StandardForm(f) /\ Len(f) = n /\ SubAt(s, i - 1, f)
  <2>1. i + n <= Len(s) + 1 /\ StandardForm(g)
    BY <1>4 DEF FormAt, g
  <2>2. g \in Seq(Byte) /\ Len(g) = n /\ \A k \in 1 .. n : g[k] = s[(i - 1) + k]
    BY <1>3, <2>1
  <2>3. (i - 1) + n <= Len(s)
    BY <1>1, <1>2, <2>1
  <2>4. SubAt(s, i - 1, g)
    BY <2>2, <2>3 DEF SubAt
  <2> QED
    BY <2>1, <2>2, <2>4
<1>5. ASSUME NEW f \in Seq(Byte), StandardForm(f), Len(f) = n, SubAt(s, i - 1, f)
      PROVE  FormAt(s, i, n)
  <2>1. i + n <= Len(s) + 1 /\ \A k \in 1 .. n : s[(i - 1) + k] = f[k]
    BY <1>1, <1>2, <1>5 DEF SubAt
  <2>2. g \in Seq(Byte) /\ Len(g) = n /\ \A k \in 1 .. n : g[k] = s[(i - 1) + k]
    BY <1>3, <2>1
  <2>3. g = f
    BY <1>5, <2>1, <2>2, SeqEqual
  <2> QED
    BY <1>5, <2>1, <2>3 DEF FormAt, g
<1> QED
  BY <1>4, <1>5

(* Every byte of a well-formed string lies in a form that stands in it.     *)
LEMMA Lies ==
    ASSUME NEW s \in Seq(Byte)
    PROVE  WellFormed8(s) <=>
             \A k \in 1 .. Len(s) : \E p \in 0 .. k - 1, f \in Seq(Byte) :
                StandardForm(f) /\ Len(f) \in 1 .. 4 /\ k <= p + Len(f) /\ SubAt(s, p, f)
<1>1. Len(s) \in Nat
  BY SeqElements
<1> DEFINE In(k) == \E i \in 1 .. k, n \in 1 .. 4 : k < i + n /\ FormAt(s, i, n)
           At(k) == \E p \in 0 .. k - 1, f \in Seq(Byte) :
                       StandardForm(f) /\ Len(f) \in 1 .. 4 /\ k <= p + Len(f) /\ SubAt(s, p, f)
<1>2. ASSUME NEW k \in 1 .. Len(s), In(k)
      PROVE  At(k)
  <2>1. PICK i \in 1 .. k, n \in 1 .. 4 : k < i + n /\ FormAt(s, i, n)
    BY <1>2
  <2>2. i \in 1 .. Len(s) /\ i - 1 \in 0 .. k - 1 /\ k <= (i - 1) + n
    BY <1>1, <2>1
  <2>3. PICK f \in Seq(Byte) : StandardForm(f) /\ Len(f) = n /\ SubAt(s, i - 1, f)
    BY <2>1, <2>2, FormStands
  <2> QED
    BY <2>2, <2>3
<1>3. ASSUME NEW k \in 1 .. Len(s), At(k)
      PROVE  In(k)
  <2>1. PICK p \in 0 .. k - 1, f \in Seq(Byte) :
           StandardForm(f) /\ Len(f) \in 1 .. 4 /\ k <= p + Len(f) /\ SubAt(s, p, f)
    BY <1>3
  <2>2. p + 1 \in 1 .. Len(s) /\ p + 1 \in 1 .. k /\ (p + 1) - 1 = p
    BY <1>1
  <2>3. FormAt(s, p + 1, Len(f))
    <3> DEFINE i == p + 1
               n == Len(f)
    <3>1. i \in 1 .. Len(s) /\ n \in 1 .. 4 /\ i - 1 = p
      BY <2>1, <2>2
    <3> HIDE DEF i
    <3>2. StandardForm(f) /\ Len(f) = n /\ SubAt(s, i - 1, f)
      BY <2>1, <3>1
    <3> HIDE DEF n
    <3>3. FormAt(s, i, n)
      BY <3>1, <3>2, FormStands
    <3> QED
      BY <3>3 DEF i, n
  <2>4. k < (p + 1) + Len(f)
    BY <2>1
  <2> QED
    BY <2>1, <2>2, <2>3, <2>4
<1>4. WellFormed8(s) <=> \A k \in 1 .. Len(s) : In(k)
  BY DEF WellFormed8
<1> HIDE DEF In, At
<1>5. WellFormed8(s) <=> \A k \in 1 .. Len(s) : At(k)
  BY <1>2, <1>3, <1>4
<1> QED
  BY <1>5 DEF At

LEMMA StandsOn ==
    ASSUME NEW a, NEW b, NEW p, NEW f, Len(a) \in Nat, Len(b) \in Nat, p \in Nat, Len(f) \in Nat,
           Extends(a, b), SubAt(a, p, f)
    PROVE  SubAt(b, p, f)
<1>1. p + Len(f) <= Len(b)
  BY DEF Extends, SubAt
<1>2. ASSUME NEW k \in 1 .. Len(f)
      PROVE  b[p + k] = f[k]
  <2>1. p + k \in 1 .. Len(a)
    BY DEF SubAt
  <2> QED
    BY <2>1 DEF Extends, SubAt
<1> QED
  BY <1>1, <1>2 DEF SubAt

LEMMA Grow8 ==
    ASSUME NEW a \in Seq(Byte), WellFormed8(a), NEW u \in Scalars
    PROVE  WellFormed8(a \o Bytes(u))
<1> DEFINE g == Bytes(u)
           b == a \o g
           At(s, k) == \E p \in 0 .. k - 1, f \in Seq(Byte) :
                       StandardForm(f) /\ Len(f) \in 1 .. 4 /\ k <= p + Len(f) /\ SubAt(s, p, f)
<1>1. g \in Seq(Byte) /\ StandardForm(g) /\ Len(g) \in 1 .. 4
  BY BytesForm DEF IsForm
<1>2. b \in Seq(Byte) /\ Len(b) = Len(a) + Len(g) /\ Extends(a, b) /\ SubAt(b, Len(a), g)
  BY <1>1, Concat, ConcatStands
<1>3. Len(a) \in Nat /\ Len(g) \in Nat /\ Len(b) \in Nat
  BY <1>1, <1>2, SeqElements
<1> HIDE DEF g, b
<1>4. ASSUME NEW k \in 1 .. Len(b)
      PROVE  At(b, k)
  <2>1. CASE k <= Len(a)
    <3>1. k \in 1 .. Len(a)
      BY <1>3, <2>1
    <3>2. PICK p \in 0 .. k - 1, f \in Seq(Byte) :
             StandardForm(f) /\ Len(f) \in 1 .. 4 /\ k <= p + Len(f) /\ SubAt(a, p, f)
      BY <3>1, Lies
    <3>3. SubAt(b, p, f)
      BY <1>2, <1>3, <3>2, StandsOn
    <3> QED
      BY <3>2, <3>3
  <2>2. CASE ~(k <= Len(a))
    <3>1. Len(a) \in 0 .. k - 1 /\ k <= Len(a) + Len(g)
      BY <1>2, <1>3, <2>2
    <3> QED
      BY <1>1, <1>2, <3>1
  <2> QED
    BY <2>1, <2>2
<1>5. WellFormed8(b)
  BY <1>2, <1>4, Lies
<1> QED
  BY <1>5 DEF b, g

(* The next form of a well-formed string.                                   *)
Boundary8(s, p) == p = Len(s) \/ s[p + 1] \notin Trail
Boundary16(s, p) == p = Len(s) \/ s[p + 1] \notin LowSurrogates

LEMMA NextForm ==
    ASSUME NEW s \in Seq(Byte), WellFormed8(s), NEW p \in 0 .. Len(s), p # Len(s),
           Boundary8(s, p)
    PROVE  \E u \in Scalars : /\ SubAt(s, p, Bytes(u))
                              /\ Boundary8(s, p + Len(Bytes(u)))
<1>1. Len(s) \in Nat /\ p \in Nat /\ p + 1 \in 1 .. Len(s)
  BY SeqElements
<1>2. s[p + 1] \notin Trail
  BY DEF Boundary8
<1> DEFINE Stands(q, f) == StandardForm(f) /\ Len(f) \in 1 .. 4 /\ SubAt(s, q, f)
<1>3. ASSUME NEW q \in Nat, NEW f \in Seq(Byte), Stands(q, f)
      PROVE  /\ s[q + 1] \notin Trail /\ Form8(s[q + 1]) = Len(f)
             /\ \A k \in 2 .. Len(f) : s[q + k] \in Trail
  <2>1. f[1] \notin Trail /\ Form8(f[1]) = Len(f) /\ \A k \in 2 .. Len(f) : f[k] \in Trail
    BY <1>3, FormNumber DEF IsForm
  <2>2. \A k \in 1 .. Len(f) : s[q + k] = f[k]
    BY <1>3 DEF SubAt
  <2>3. Len(f) \in 1 .. 4
    BY <1>3
  <2> HIDE DEF Stands
  <2>4. s[q + 1] = f[1]
    BY <2>2, <2>3
  <2>5. \A k \in 2 .. Len(f) : s[q + k] = f[k]
    BY <2>2, <2>3
  <2> QED
    BY <2>1, <2>4, <2>5
<1>4. ASSUME NEW k \in 1 .. Len(s)
      PROVE  \E q \in 0 .. k - 1, f \in Seq(Byte) : Stands(q, f) /\ k <= q + Len(f)
  BY Lies
<1>5. ASSUME NEW q \in Nat, NEW f \in Seq(Byte), Stands(q, f), NEW k \in Nat, q < k, k < q + Len(f)
      PROVE  s[k + 1] \in Trail
  <2>1. Len(f) \in 1 .. 4
    BY <1>5
  <2>2. \A j \in 2 .. Len(f) : s[q + j] \in Trail
    BY <1>3, <1>5
  <2> HIDE DEF Stands
  <2>3. (k + 1) - q \in 2 .. Len(f) /\ q + ((k + 1) - q) = k + 1
    BY <1>5, <2>1
  <2> QED
    BY <2>2, <2>3
<1>6. PICK q \in 0 .. p, f \in Seq(Byte) : Stands(q, f) /\ p + 1 <= q + Len(f)
  <2>1. \E q \in 0 .. (p + 1) - 1, f \in Seq(Byte) : Stands(q, f) /\ p + 1 <= q + Len(f)
    BY <1>1, <1>4
  <2>2. (p + 1) - 1 = p
    BY <1>1
  <2> HIDE DEF Stands
  <2> QED
    BY <2>1, <2>2
<1>7. Len(f) \in 1 .. 4
  BY <1>6
<1>8. q = p
  <2> SUFFICES ASSUME q < p PROVE FALSE
    BY <1>1
  <2>1. q < p /\ p < q + Len(f) /\ q \in Nat
    BY <1>1, <1>6, <1>7
  <2>2. s[p + 1] \in Trail
    BY <1>1, <1>5, <1>6, <2>1
  <2> QED
    BY <1>2, <2>2
<1>9. Stands(p, f)
  BY <1>6, <1>8
<1> DEFINE r == p + Len(f)
<1>10. r \in Nat /\ r <= Len(s) /\ p < r
  <2>1. p + Len(f) <= Len(s)
    BY <1>9 DEF SubAt
  <2> DEFINE n == Len(f)
  <2>2. n \in 1 .. 4 /\ p + n <= Len(s) /\ r = p + n
    BY <1>7, <2>1
  <2> HIDE DEF Stands, n, r
  <2> QED
    BY <1>1, <2>2
<1>11. Boundary8(s, r)
  <2> SUFFICES ASSUME r # Len(s) PROVE s[r + 1] \notin Trail
    BY DEF Boundary8
  <2>1. r + 1 \in 1 .. Len(s) /\ (r + 1) - 1 = r
    BY <1>1, <1>10
  <2>2. PICK t \in 0 .. r, g \in Seq(Byte) : Stands(t, g) /\ r + 1 <= t + Len(g)
    BY <1>4, <2>1
  <2>3. Len(g) \in 1 .. 4 /\ t \in Nat
    BY <2>2
  <2>4. CASE t = r
    BY <1>3, <2>2, <2>3, <2>4
  <2>5. CASE t = p
    <3>1. Form8(s[p + 1]) = Len(f) /\ Form8(s[p + 1]) = Len(g)
      BY <1>1, <1>3, <1>9, <2>2, <2>5
    <3> HIDE DEF Stands
    <3> QED
      BY <1>1, <1>7, <2>2, <2>3, <2>5, <3>1
  <2>6. CASE t < p
    <3>1. p < t + Len(g)
      BY <1>1, <1>10, <2>2, <2>3
    <3>2. s[p + 1] \in Trail
      BY <1>1, <1>5, <2>2, <2>3, <2>6, <3>1
    <3> QED
      BY <1>2, <3>2
  <2>7. CASE p < t /\ t < r
    <3>1. s[t + 1] \in Trail
      BY <1>1, <1>5, <1>9, <2>3, <2>7
    <3>2. s[t + 1] \notin Trail
      BY <1>3, <2>2, <2>3
    <3> QED
      BY <3>1, <3>2
  <2>8. t = r \/ t = p \/ t < p \/ (p < t /\ t < r)
    BY <1>1, <1>10, <2>2
  <2> QED
    BY <2>4, <2>5, <2>6, <2>7, <2>8
<1>12. PICK u \in Scalars : f = Bytes(u)
  BY <1>9, FormNumber
<1> QED
  BY <1>9, <1>11, <1>12

LEMMA UnitNumber ==
    ASSUME NEW u \in Unit, u \notin Surrogates
    PROVE  u \in Scalars /\ Units(u) = <<u>>
<1> DEFINE top == Plane - 1
<1>1. Block = 1024 /\ Plane = 64 * Block
  BY BlockIs
<1>2. top \in Int /\ Unit = 0 .. top
  <2>1. top \in Int
    BY <1>1
  <2>2. Unit = 0 .. top
    BY DEF Unit
  <2> QED
    BY <2>1, <2>2
<1>3. u \in Nat /\ u <= top
  BY <1>2
<1>4. u < Plane
  BY <1>1, <1>3
<1>5. u \in Scalars
  BY <1>1, <1>3, <1>4, ScalarsAre, SurrogatesAre
<1> QED
  BY <1>4, <1>5 DEF Units

(* The next unit, or pair of units, of a well-formed string.                *)
LEMMA NextUnits ==
    ASSUME NEW s \in Seq(Unit), WellFormed16(s), NEW p \in 0 .. Len(s), p # Len(s),
           Boundary16(s, p)
    PROVE  \E u \in Scalars : /\ SubAt(s, p, Units(u))
                              /\ Boundary16(s, p + Len(Units(u)))
<1>0. Block = 1024 /\ Plane = 64 * Block
  BY BlockIs
<1>1. Len(s) \in Nat /\ p \in Nat /\ p + 1 \in 1 .. Len(s) /\ \A i \in 1 .. Len(s) : s[i] \in Unit
  BY SeqElements
<1>2. s[p + 1] \notin LowSurrogates
  BY DEF Boundary16
<1>3. \A i \in 1 .. Len(s) :
        /\ s[i] \in HighSurrogates => i < Len(s) /\ s[i + 1] \in LowSurrogates
        /\ s[i] \in LowSurrogates => i > 1 /\ s[i - 1] \in HighSurrogates
  BY DEF WellFormed16
<1>4. HighSurrogates \cap LowSurrogates = {}
  BY Disjoint
<1>5. CASE s[p + 1] \in HighSurrogates
  <2> DEFINE h == s[p + 1]
             l == s[p + 2]
             u == (h - 54 * Block) * Block + (l % Block) + Plane
  <2>1. p + 1 < Len(s) /\ s[(p + 1) + 1] \in LowSurrogates
    BY <1>1, <1>3, <1>5
  <2>2. h \in HighSurrogates /\ l \in LowSurrogates /\ p + 2 <= Len(s)
    <3>1. (p + 1) + 1 = p + 2
      BY <1>1
    <3> QED
      BY <1>1, <1>5, <2>1, <3>1
  <2>3. u \in Scalars /\ Units(u) = <<h, l>>
    BY <2>2, PairNumber
  <2> DEFINE f == Units(u)
  <2>4. Len(f) = 2 /\ f[1] = s[p + 1] /\ f[2] = s[p + 2]
    BY <2>3
  <2> HIDE DEF u, h, l
  <2>5. SubAt(s, p, f)
    <3> HIDE DEF f
    <3>1. \A k \in 1 .. Len(f) : s[p + k] = f[k]
      BY <1>1, <2>4
    <3> QED
      BY <1>1, <2>2, <2>4, <3>1 DEF SubAt
  <2>6. Boundary16(s, p + 2)
    <3> SUFFICES ASSUME p + 2 # Len(s), s[(p + 2) + 1] \in LowSurrogates
                 PROVE  FALSE
      BY DEF Boundary16
    <3>1. (p + 2) + 1 \in 1 .. Len(s) /\ ((p + 2) + 1) - 1 = p + 2
      BY <1>1, <2>2
    <3>2. s[p + 2] \in HighSurrogates
      BY <1>3, <3>1
    <3> QED
      BY <1>4, <2>2, <3>2 DEF l
  <2> QED
    BY <2>3, <2>4, <2>5, <2>6
<1>6. CASE s[p + 1] \notin HighSurrogates
  <2> DEFINE u == s[p + 1]
  <2>1. u \in Unit /\ u \notin Surrogates
    BY <1>1, <1>2, <1>6 DEF Surrogates
  <2>2. u \in Scalars /\ Units(u) = <<u>>
    BY <2>1, UnitNumber
  <2> DEFINE f == Units(u)
  <2>3. Len(f) = 1 /\ f[1] = s[p + 1]
    BY <2>2
  <2>4. SubAt(s, p, f)
    <3> HIDE DEF f, u
    <3>1. \A k \in 1 .. Len(f) : s[p + k] = f[k]
      BY <1>1, <2>3
    <3> QED
      BY <1>1, <2>3, <3>1 DEF SubAt
  <2>5. Boundary16(s, p + 1)
    <3> SUFFICES ASSUME p + 1 # Len(s), s[(p + 1) + 1] \in LowSurrogates
                 PROVE  FALSE
      BY DEF Boundary16
    <3>1. (p + 1) + 1 \in 1 .. Len(s) /\ ((p + 1) + 1) - 1 = p + 1
      BY <1>1
    <3>2. s[p + 1] \in HighSurrogates
      BY <1>3, <3>1
    <3> QED
      BY <1>6, <3>2
  <2> HIDE DEF u
  <2> QED
    BY <2>2, <2>3, <2>4, <2>5
<1> QED
  BY <1>5, <1>6

-----------------------------------------------------------------------------
(* A string in both encodings, one number after the other: M marks the      *)
(* places where a number begins, up to the i-th byte and the j-th unit.     *)
Marks(M, a, b, m, n) ==
    /\ M \subseteq Nat \X Nat /\ <<0, 0>> \in M
    /\ \A i, j \in Nat : <<i, j>> \in M =>
          \/ i = m /\ j = n
          \/ \E u \in Scalars : /\ SubAt(a, i, Bytes(u)) /\ SubAt(b, j, Units(u))
                                /\ <<i + Len(Bytes(u)), j + Len(Units(u))>> \in M

LEMMA MarksGrow ==
    ASSUME NEW M, NEW a, NEW b, NEW a2, NEW b2, NEW m \in Nat, NEW n \in Nat, NEW u \in Scalars,
           Len(a) \in Nat, Len(b) \in Nat, Len(a2) \in Nat, Len(b2) \in Nat,
           Marks(M, a, b, m, n), Extends(a, a2), Extends(b, b2),
           SubAt(a2, m, Bytes(u)), SubAt(b2, n, Units(u))
    PROVE  \E N : /\ Marks(N, a2, b2, m + Len(Bytes(u)), n + Len(Units(u)))
                  /\ M \subseteq N /\ <<m + Len(Bytes(u)), n + Len(Units(u))>> \in N
<1> DEFINE m2 == m + Len(Bytes(u))
           n2 == n + Len(Units(u))
           N == M \cup {<<m2, n2>>}
<1>1. ASSUME NEW v \in Scalars
      PROVE  Len(Bytes(v)) \in Nat /\ Len(Units(v)) \in Nat
  BY BytesSeq, UnitsSeq, SeqElements
<1>2. m2 \in Nat /\ n2 \in Nat
  BY <1>1
<1> HIDE DEF m2, n2
<1>3. N \subseteq Nat \X Nat /\ <<0, 0>> \in N
  BY <1>2 DEF Marks
<1>4. ASSUME NEW i \in Nat, NEW j \in Nat, <<i, j>> \in N
      PROVE  \/ i = m2 /\ j = n2
             \/ \E v \in Scalars : /\ SubAt(a2, i, Bytes(v)) /\ SubAt(b2, j, Units(v))
                                   /\ <<i + Len(Bytes(v)), j + Len(Units(v))>> \in N
  <2>1. CASE <<i, j>> \in M
    <3>1. CASE i = m /\ j = n
      BY <3>1 DEF m2, n2
    <3>2. ASSUME NEW v \in Scalars, SubAt(a, i, Bytes(v)), SubAt(b, j, Units(v)),
                 <<i + Len(Bytes(v)), j + Len(Units(v))>> \in M
          PROVE  /\ SubAt(a2, i, Bytes(v)) /\ SubAt(b2, j, Units(v))
                 /\ <<i + Len(Bytes(v)), j + Len(Units(v))>> \in N
      BY <1>1, <3>2, StandsOn
    <3> QED
      BY <2>1, <3>1, <3>2 DEF Marks
  <2>2. CASE <<i, j>> = <<m2, n2>>
    BY <2>2
  <2> QED
    BY <1>4, <2>1, <2>2
<1>5. Marks(N, a2, b2, m2, n2)
  BY <1>3, <1>4 DEF Marks
<1>6. M \subseteq N /\ <<m2, n2>> \in N
  OBVIOUS
<1> HIDE DEF N
<1> QED
  BY <1>5, <1>6 DEF m2, n2

LEMMA MarksBegin ==
    ASSUME NEW a, NEW b
    PROVE  Marks({<<0, 0>>}, a, b, 0, 0)
<1>1. ASSUME NEW i \in Nat, NEW j \in Nat, <<i, j>> \in {<<0, 0>>}
      PROVE  i = 0 /\ j = 0
  BY <1>1
<1>2. {<<0, 0>>} \subseteq Nat \X Nat
  OBVIOUS
<1> QED
  BY <1>1, <1>2 DEF Marks

(* The kinds of the strings, and the room there is for what is written.     *)
Kinds ==
    /\ given \in [string : Seq(Unit), as : {"8to16", "16to8"}]
    /\ given.as = "8to16" => given.string \in Seq(Byte)
    /\ direction = "8to16" => from \in Seq(Byte) /\ Len(to) <= pos
    /\ direction = "16to8" => to \in Seq(Byte) /\ Len(to) <= 3 * pos
    /\ direction = given.as => from = given.string
    /\ permissive => direction = "8to16" /\ given.as = "8to16"
    /\ result = "success" => pos = Len(from)

Typed == TypeOK /\ Kinds

LEMMA BytesAreUnits == Byte \subseteq Unit /\ Seq(Byte) \subseteq Seq(Unit)
<1> DEFINE top == Plane - 1
<1>1. Block = 1024 /\ Plane = 64 * Block
  BY BlockIs
<1>2. top \in Int /\ 255 <= top /\ Unit = 0 .. top
  BY <1>1 DEF Unit
<1> HIDE DEF top
<1>3. Byte \subseteq Unit
  BY <1>2 DEF Byte
<1> QED
  BY <1>3, SeqMonotonic

LEMMA InitTyped == Init => Typed
<1> SUFFICES ASSUME Init PROVE Typed
  OBVIOUS
<1>1. /\ from \in Strings8 => from \in Seq(Byte)
      /\ from \in Strings16 => from \in Seq(Unit)
  BY StringsAssumption
<1>2. from \in Seq(Unit) /\ (direction = "8to16" => from \in Seq(Byte))
  BY <1>1, BytesAreUnits DEF Init
<1>3. pos = 0 /\ to = <<>> /\ result = "running" /\ given = [string |-> from, as |-> direction]
  BY DEF Init
<1>4. direction \in {"8to16", "16to8"} /\ permissive \in BOOLEAN
      /\ (permissive => direction = "8to16")
  BY DEF Init
<1>5. Len(from) \in Nat /\ pos \in 0 .. Len(from)
  BY <1>2, <1>3, SeqElements
<1>6. to \in Seq(Unit) /\ to \in Seq(Byte) /\ Len(to) = 0
  BY <1>3, EmptySeq
<1>7. TypeOK
  BY <1>2, <1>3, <1>4, <1>5, <1>6 DEF TypeOK
<1>8. given.string = from /\ given.as = direction
  BY <1>3
<1>9. given \in [string : Seq(Unit), as : {"8to16", "16to8"}]
  BY <1>2, <1>3, <1>4
<1>10. Kinds
  BY <1>2, <1>3, <1>4, <1>6, <1>8, <1>9 DEF Kinds
<1> QED
  BY <1>7, <1>10 DEF Typed

(* What To16 reads and writes.                                              *)
LEMMA To16Writes ==
    ASSUME Typed, To16
    PROVE  \E u \in Scalars, n \in 1 .. 4 :
              /\ n = Form8(Left[1]) /\ n <= Len(Left) /\ u = Scalar8(SubSeq(Left, 1, n))
              /\ pos' = pos + n /\ to' = to \o Units(u) /\ Len(Units(u)) <= n
<1> DEFINE l == Left
           n == Form8(l[1])
           f == SubSeq(l, 1, n)
           u == Scalar8(f)
           r == Room
<1>1. from \in Seq(Byte) /\ pos \in 0 .. Len(from)
  BY DEF To16, Typed, TypeOK, Kinds
<1>2. l \in Seq(Byte) /\ Len(l) = Len(from) - pos /\ Len(l) \in Nat
  BY <1>1, Rest, SeqElements DEF Left
<1>3. Outcome8(l, r) = "success" /\ pos' = pos + n /\ to' = to \o Units(u)
  BY DEF To16
<1>4. n \in 0 .. 4
  BY DEF Form8
<1>5. /\ n # 0 /\ ~(Len(l) < n)
      /\ n > 2 => \A i \in 2 .. n : f[i] \in Trail
      /\ InRange(u, n)
  <2> HIDE DEF l, n, f, u, r
  <2>1. Outcome8(l, r) =
          IF r = 0 \/ (n = 4 /\ r = 1) THEN "bufferfull"
          ELSE IF n = 0 THEN "malformed"
          ELSE IF Len(l) < n THEN "incomplete"
          ELSE IF n > 2 /\ \E i \in 2 .. n : f[i] \notin Trail THEN "malformed"
          ELSE IF ~InRange(u, n) THEN "range"
          ELSE "success"
    BY DEF Outcome8, n, f, u
  <2> QED
    BY <1>3, <2>1
<1>6. n \in 1 .. 4 /\ n <= Len(l) /\ n \in 0 .. Len(l)
  <2> HIDE DEF l, n
  <2> QED
    BY <1>2, <1>4, <1>5
<1>7. f \in Seq(Byte) /\ Len(f) = n /\ \A i \in 1 .. n : f[i] = l[i]
  BY <1>2, <1>6, First
<1>8. f[1] = l[1] /\ \A i \in 1 .. n : f[i] \in Byte
  <2> HIDE DEF l, n, f
  <2> QED
    BY <1>6, <1>7, SeqElements
<1> HIDE DEF l, f, r
<1>9. Form8(f[1]) = n
  BY <1>8
<1> HIDE DEF n
<1>10. u \in Scalars /\ (Plane <= u => n = 4)
  BY <1>5, <1>6, <1>7, <1>8, <1>9, Decoded
<1> HIDE DEF u
<1>11. Len(Units(u)) <= n
  <2>1. Len(Units(u)) = IF Plane <= u THEN 2 ELSE 1
    BY <1>10, UnitsSeq
  <2> QED
    BY <1>6, <1>10, <2>1
<1> QED
  BY <1>3, <1>6, <1>10, <1>11 DEF l, f, n, u

LEMMA To8Writes ==
    ASSUME Typed, To8
    PROVE  \E u \in Scalars :
              /\ u = Scalar16(Left) /\ Form16(Left) = Len(Units(u))
              /\ pos' = pos + Len(Units(u)) /\ Len(Units(u)) \in {1, 2} /\ pos' <= Len(from)
              /\ to' = to \o Bytes(u) /\ Len(Bytes(u)) <= 3 * Len(Units(u))
<1> DEFINE l == Left
           r == Room8
           u == Scalar16(l)
<1>1. from \in Seq(Unit) /\ pos \in 0 .. Len(from) /\ to \in Seq(Byte) /\ Len(to) <= 3 * pos
  BY DEF To8, Typed, TypeOK, Kinds
<1>2. l \in Seq(Unit) /\ Len(l) = Len(from) - pos /\ Len(l) \in Nat /\ l # <<>>
  BY <1>1, Rest, SeqElements DEF Left, To8
<1>3. Outcome16(l, r) = "success" /\ pos' = pos + Form16(l) /\ to' = to \o Bytes(u)
  BY DEF To8
<1>4. Len(l) # 0 /\ l[1] \in Unit
  BY <1>2, EmptySeq, SeqElements
<1>5. r \in Int /\ r > 0
  BY <1>1, <1>2, <1>4, SeqElements DEF Room8
<1> HIDE DEF l, r
<1>6. CASE l[1] \in HighSurrogates
  <2>1. l[1] \notin LowSurrogates /\ l[2] \in LowSurrogates /\ Len(l) # 1
    BY <1>3, <1>6, Disjoint DEF Outcome16
  <2>2. u = (l[1] - 54 * Block) * Block + (l[2] % Block) + Plane
    BY <1>6, Zenon DEF Scalar16
  <2>3. u \in Scalars /\ Units(u) = <<l[1], l[2]>>
    BY <1>6, <2>1, <2>2, PairNumber
  <2> HIDE DEF u
  <2>4. Len(Units(u)) = 2 /\ Form16(l) = 2 /\ Len(Bytes(u)) \in 1 .. 4
    BY <1>6, <2>3, BytesSeq DEF Form16
  <2>5. pos + 2 <= Len(from)
    BY <1>1, <1>2, <1>4, <2>1, SeqElements
  <2>6. pos' = pos + Len(Units(u)) /\ pos' <= Len(from) /\ Len(Bytes(u)) <= 3 * Len(Units(u))
    <3>1. pos' = pos + 2
      BY <1>3, <2>4
    <3>2. \A k \in 1 .. 4 : k <= 3 * 2
      OBVIOUS
    <3>3. Len(Bytes(u)) <= 3 * 2
      BY <2>4, <3>2
    <3> QED
      BY <2>4, <2>5, <3>1, <3>3
  <2> QED
    BY <1>3, <2>3, <2>4, <2>6 DEF u, l
<1>7. CASE l[1] \notin HighSurrogates
  <2>1. l[1] \notin LowSurrogates
    BY <1>3, <1>5, <1>7 DEF Outcome16
  <2>2. u = l[1]
    BY <1>7 DEF Scalar16
  <2>3. u \in Scalars /\ Units(u) = <<u>>
    BY <1>4, <1>7, <2>1, <2>2, UnitNumber DEF Surrogates
  <2>4. Length8(u) <= 3 /\ Length8(u) \in Nat
    <3>1. Len(Units(u)) = 1
      BY <2>3
    <3> QED
      BY <2>3, <3>1, LengthRange, UnitsSeq
  <2> HIDE DEF u
  <2>5. Len(Units(u)) = 1 /\ Form16(l) = 1 /\ Len(Bytes(u)) <= 3
    BY <1>7, <2>3, <2>4, BytesSeq DEF Form16
  <2>6. pos + 1 <= Len(from)
    BY <1>1, <1>2, <1>4, SeqElements
  <2>7. pos' = pos + Len(Units(u)) /\ pos' <= Len(from) /\ Len(Bytes(u)) <= 3 * Len(Units(u))
    BY <1>3, <2>5, <2>6
  <2> QED
    BY <1>3, <2>3, <2>5, <2>7 DEF u, l
<1> QED
  BY <1>6, <1>7

(* A throw and the end of a conversion change the result alone.             *)
Same == UNCHANGED <<from, pos, to, direction, permissive, given>>

LEMMA ReplaceWrites ==
    ASSUME Typed, Replace
    PROVE  \E n \in 1 .. Len(from) - pos : pos' = pos + n /\ to' = to \o <<Replacement>>
<1>1. from \in Seq(Unit) /\ pos \in 0 .. Len(from) /\ to \in Seq(Unit)
  BY DEF Typed, TypeOK
<1>2. Skipped \in 1 .. Len(from) - pos
  BY <1>1, SkippedIs DEF Replace
<1>3. pos' = pos + Skipped /\ to' = Append(to, Replacement)
  BY DEF Replace
<1>4. Append(to, Replacement) = to \o <<Replacement>>
  BY <1>1, AppendIsConcat DEF Replacement
<1> QED
  BY <1>2, <1>3, <1>4

LEMMA ReplacementIs ==
    Replacement \in Unit /\ Replacement \notin Surrogates
<1> DEFINE top == Plane - 1
           r == Replacement
<1>1. Block = 1024 /\ Plane = 64 * Block
  BY BlockIs
<1>2. top \in Int /\ Unit = 0 .. top /\ r = Plane - 3
  <2>1. top \in Int
    BY <1>1
  <2>2. Unit = 0 .. top
    BY DEF Unit
  <2>3. r = Plane - 3
    BY DEF Replacement
  <2> QED
    BY <2>1, <2>2, <2>3
<1>3. r \in Nat /\ r <= top /\ 56 * Block <= r
  <2>1. Block \in Nat /\ Block > 1
    BY <1>1
  <2>2. r = 64 * Block - 3 /\ top = 64 * Block - 1
    BY <1>1, <1>2
  <2> HIDE DEF r, top
  <2> QED
    BY ONLY <2>1, <2>2
<1> HIDE DEF top, r
<1>4. r \in Unit /\ r \notin Surrogates
  BY <1>1, <1>2, <1>3, SurrogatesAre
<1> QED
  BY <1>4 DEF r

LEMMA StepTyped == Typed /\ [Next]_vars => Typed'
<1> SUFFICES ASSUME Typed, [Next]_vars PROVE Typed'
  OBVIOUS
<1>1. /\ from \in Seq(Unit) /\ to \in Seq(Unit) /\ pos \in 0 .. Len(from)
      /\ direction \in {"8to16", "16to8"} /\ permissive \in BOOLEAN
      /\ result \in {"running", "success"} \cup Errors
      /\ Kinds
  BY DEF Typed, TypeOK
<1>2. Len(from) \in Nat /\ Len(to) \in Nat /\ pos \in Nat
  BY <1>1, SeqElements
<1>3. CASE To16
  <2>1. PICK u \in Scalars, n \in 1 .. 4 :
              /\ n <= Len(Left) /\ pos' = pos + n /\ to' = to \o Units(u) /\ Len(Units(u)) <= n
    BY <1>3, To16Writes
  <2>2. Len(Left) = Len(from) - pos
    BY <1>1, Rest DEF Left
  <2>3. UNCHANGED <<from, direction, permissive, result, given>> /\ direction = "8to16"
        /\ result = "running"
    BY <1>3 DEF To16
  <2>4. pos' \in 0 .. Len(from)
    BY <1>2, <2>1, <2>2
  <2>5. Units(u) \in Seq(Unit)
    BY UnitsSeq
  <2>6. to' \in Seq(Unit) /\ Len(to') = Len(to) + Len(Units(u)) /\ Len(Units(u)) \in Nat
    BY <1>1, <2>1, <2>5, Concat, SeqElements
  <2>7. TypeOK'
    BY <1>1, <2>3, <2>4, <2>6 DEF TypeOK
  <2>8. Len(to) <= pos
    BY <1>1, <2>3 DEF Kinds
  <2>9. Len(to') <= pos'
    BY <1>2, <2>1, <2>6, <2>8
  <2>10. Kinds'
    BY <1>1, <2>3, <2>9 DEF Kinds
  <2> QED
    BY <2>7, <2>10 DEF Typed
<1>4. CASE Replace
  <2>1. PICK n \in 1 .. Len(from) - pos : pos' = pos + n /\ to' = to \o <<Replacement>>
    BY <1>4, ReplaceWrites
  <2>2. UNCHANGED <<from, direction, permissive, result, given>> /\ direction = "8to16"
        /\ result = "running"
    BY <1>4 DEF Replace
  <2>3. pos' \in 0 .. Len(from)
    BY <1>2, <2>1
  <2>4. <<Replacement>> \in Seq(Unit) /\ Len(<<Replacement>>) = 1
    BY ReplacementIs
  <2>5. to' \in Seq(Unit) /\ Len(to') = Len(to) + 1
    BY <1>1, <2>1, <2>4, Concat
  <2>6. TypeOK'
    BY <1>1, <2>2, <2>3, <2>5 DEF TypeOK
  <2>7. Len(to) <= pos
    BY <1>1, <2>2 DEF Kinds
  <2>8. Len(to') <= pos'
    BY <1>2, <2>1, <2>5, <2>7
  <2>9. Kinds'
    BY <1>1, <2>2, <2>8 DEF Kinds
  <2> QED
    BY <2>6, <2>9 DEF Typed
<1>5. CASE To8
  <2>1. PICK u \in Scalars :
              /\ pos' = pos + Len(Units(u)) /\ Len(Units(u)) \in {1, 2} /\ pos' <= Len(from)
              /\ to' = to \o Bytes(u) /\ Len(Bytes(u)) <= 3 * Len(Units(u))
    BY <1>5, To8Writes
  <2>2. UNCHANGED <<from, direction, permissive, result, given>> /\ direction = "16to8"
        /\ result = "running"
    BY <1>5 DEF To8
  <2>3. pos' \in 0 .. Len(from)
    BY <1>2, <2>1
  <2>4. to \in Seq(Byte) /\ Len(to) <= 3 * pos
    BY <1>1, <2>2 DEF Kinds
  <2>5. Bytes(u) \in Seq(Byte)
    BY BytesSeq
  <2>6. to' \in Seq(Byte) /\ Len(to') = Len(to) + Len(Bytes(u)) /\ Len(Bytes(u)) \in Nat
    BY <2>1, <2>4, <2>5, Concat, SeqElements
  <2>7. to' \in Seq(Unit)
    BY <2>6, BytesAreUnits
  <2>8. TypeOK'
    BY <1>1, <2>2, <2>3, <2>7 DEF TypeOK
  <2>9. Len(to') <= 3 * pos'
    BY <1>2, <2>1, <2>4, <2>6
  <2>10. Kinds'
    BY <1>1, <2>2, <2>6, <2>9 DEF Kinds
  <2> QED
    BY <2>8, <2>10 DEF Typed
<1>6. CASE Throw8
  <2>1. Outcome8(Left, Room) \in Errors /\ result' = Outcome8(Left, Room) /\ Same
    BY <1>6 DEF Throw8, Errors, Same
  <2>2. result' # "success"
    BY <2>1 DEF Errors
  <2> QED
    BY <1>1, <2>1, <2>2 DEF Typed, TypeOK, Kinds, Same
<1>7. CASE Throw16
  <2>1. Outcome16(Left, Room8) \in Errors \cup {"success"}
    BY DEF Outcome16, Errors
  <2>2. result' \in Errors /\ Same
    BY <1>7, <2>1 DEF Throw16, Same
  <2>3. result' # "success"
    BY <2>2 DEF Errors
  <2> QED
    BY <1>1, <2>2, <2>3 DEF Typed, TypeOK, Kinds, Same
<1>8. CASE Converted
  <2>1. pos = Len(from)
    BY <1>1, <1>8, Rest DEF Converted, Left
  <2>2. result' = "success" /\ Same
    BY <1>8 DEF Converted, Same
  <2> QED
    BY <1>1, <2>1, <2>2 DEF Typed, TypeOK, Kinds, Same
<1>9. CASE Back
  <2>1. /\ direction = given.as /\ from' = to /\ pos' = 0 /\ to' = <<>> /\ result' = "running"
        /\ direction' = IF direction = "8to16" THEN "16to8" ELSE "8to16"
        /\ permissive' = FALSE /\ given' = given
    BY <1>9 DEF Back
  <2>2. to' \in Seq(Unit) /\ to' \in Seq(Byte) /\ Len(to') = 0
    BY <2>1, EmptySeq
  <2>30. direction' \in {"8to16", "16to8"} /\ permissive' \in BOOLEAN /\ result' = "running"
    BY <1>1, <2>1
  <2>31. pos' \in 0 .. Len(from')
    BY <1>2, <2>1
  <2>3. TypeOK'
    BY <1>1, <2>1, <2>2, <2>30, <2>31 DEF TypeOK
  <2>4. direction' = "8to16" => from' \in Seq(Byte)
    BY <1>1, <2>1 DEF Kinds
  <2>5. direction' # given'.as
    BY <1>1, <2>1
  <2>6. Kinds'
    BY <1>1, <2>1, <2>2, <2>4, <2>5 DEF Kinds
  <2> QED
    BY <2>3, <2>6 DEF Typed
<1>10. CASE UNCHANGED vars
  BY <1>10 DEF vars, Typed, TypeOK, Kinds
<1> QED
  BY <1>3, <1>4, <1>5, <1>6, <1>7, <1>8, <1>9, <1>10 DEF Next

(* What is written is well formed.                                          *)
LEMMA EmptyWellFormed == WellFormed8(<<>>) /\ WellFormed16(<<>>)
<1>1. Len(<<>>) = 0
  BY EmptySeq
<1> QED
  BY <1>1 DEF WellFormed8, WellFormed16

LEMMA InitOutput == Init => OutputWellFormed
<1> SUFFICES ASSUME Init PROVE OutputWellFormed
  OBVIOUS
<1>1. to = <<>>
  BY DEF Init
<1> QED
  BY <1>1, EmptyWellFormed DEF OutputWellFormed

LEMMA StepOutput == Typed /\ OutputWellFormed /\ [Next]_vars => OutputWellFormed'
<1> SUFFICES ASSUME Typed, OutputWellFormed, [Next]_vars PROVE OutputWellFormed'
  OBVIOUS
<1>1. to \in Seq(Unit) /\ direction \in {"8to16", "16to8"} /\ Kinds
  BY DEF Typed, TypeOK
<1>2. CASE To16
  <2>1. PICK u \in Scalars : to' = to \o Units(u)
    BY <1>2, To16Writes
  <2>2. direction = "8to16" /\ direction' = direction /\ WellFormed16(to)
    BY <1>2 DEF To16, OutputWellFormed
  <2>3. /\ Units(u) \in Seq(Unit)
        /\ \/ Len(Units(u)) = 1 /\ Units(u)[1] \notin Surrogates
           \/ Len(Units(u)) = 2 /\ Units(u)[1] \in HighSurrogates /\ Units(u)[2] \in LowSurrogates
    BY UnitsSeq
  <2>4. WellFormed16(to')
    BY <1>1, <2>1, <2>2, <2>3, Grow16
  <2> QED
    BY <2>2, <2>4 DEF OutputWellFormed
<1>3. CASE Replace
  <2>1. to' = to \o <<Replacement>>
    BY <1>3, ReplaceWrites
  <2>2. direction = "8to16" /\ direction' = direction /\ WellFormed16(to)
    BY <1>3 DEF Replace, OutputWellFormed
  <2> DEFINE f == <<Replacement>>
  <2>3. f \in Seq(Unit) /\ Len(f) = 1 /\ f[1] \notin Surrogates
    BY ReplacementIs
  <2> HIDE DEF f
  <2>4. WellFormed16(to \o f)
    BY <1>1, <2>2, <2>3, Grow16
  <2> QED
    BY <2>1, <2>2, <2>4 DEF OutputWellFormed, f
<1>4. CASE To8
  <2>1. PICK u \in Scalars : to' = to \o Bytes(u)
    BY <1>4, To8Writes
  <2>2. direction = "16to8" /\ direction' = direction /\ WellFormed8(to) /\ to \in Seq(Byte)
    BY <1>1, <1>4 DEF To8, OutputWellFormed, Kinds
  <2>3. WellFormed8(to')
    BY <2>1, <2>2, Grow8
  <2> QED
    BY <2>2, <2>3 DEF OutputWellFormed
<1>5. CASE Throw8 \/ Throw16 \/ Converted
  BY <1>5 DEF Throw8, Throw16, Converted, OutputWellFormed
<1>6. CASE Back
  <2>1. to' = <<>>
    BY <1>6 DEF Back
  <2> QED
    BY <2>1, EmptyWellFormed DEF OutputWellFormed
<1>7. CASE UNCHANGED vars
  BY <1>7 DEF vars, OutputWellFormed
<1> QED
  BY <1>2, <1>3, <1>4, <1>5, <1>6, <1>7 DEF Next

(* A permissive conversion stops only for the want of room.                 *)
LEMMA StepPermissive == Typed /\ PermissiveGoesThrough /\ [Next]_vars => PermissiveGoesThrough'
<1> SUFFICES ASSUME Typed, PermissiveGoesThrough, [Next]_vars, permissive', Threw'
             PROVE  /\ pos' = Len(from') - 1 /\ Form8(from'[Len(from')]) = 4
                    /\ Len(to') = pos'
  BY DEF PermissiveGoesThrough
<1>1. /\ from \in Seq(Unit) /\ to \in Seq(Unit) /\ pos \in 0 .. Len(from) /\ Kinds
  BY DEF Typed, TypeOK
<1>2. Len(from) \in Nat /\ Len(to) \in Nat /\ pos \in Nat
  BY <1>1, SeqElements
<1>3. CASE Throw8
  <2>1. direction = "8to16" /\ permissive /\ Same /\ Left # <<>>
        /\ Outcome8(Left, Room) = "bufferfull"
    BY <1>3 DEF Throw8, Same
  <2> DEFINE n == Form8(Left[1])
             r == Room
  <2>2. r = 0 \/ (n = 4 /\ r = 1)
    <3> DEFINE form == SubSeq(Left, 1, n)
    <3>1. Outcome8(Left, r) =
          IF r = 0 \/ (n = 4 /\ r = 1) THEN "bufferfull"
          ELSE IF n = 0 THEN "malformed"
          ELSE IF Len(Left) < n THEN "incomplete"
          ELSE IF n > 2 /\ \E i \in 2 .. n : form[i] \notin Trail THEN "malformed"
          ELSE IF ~InRange(Scalar8(form), n) THEN "range"
          ELSE "success"
      BY DEF Outcome8
    <3> HIDE DEF n, r, form
    <3> QED
      BY <2>1, <3>1 DEF r
  <2>3. /\ Len(to) <= pos /\ pos # Len(from) /\ r = Len(from) - Len(to)
        /\ \A i \in 1 .. Len(from) - pos : Left[i] = from[pos + i]
    BY <1>1, <2>1, Rest DEF Kinds, Left, Room
  <2>4. r = 1 /\ pos = Len(from) - 1 /\ pos + 1 = Len(from) /\ Len(to) = pos
    <3> DEFINE l == Len(from)
               k == Len(to)
    <3>1. /\ l \in Nat /\ k \in Nat /\ pos \in 0 .. l /\ k <= pos /\ pos # l
          /\ r = l - k /\ (r = 0 \/ r = 1)
      BY <1>1, <1>2, <2>2, <2>3
    <3> HIDE DEF l, k, r
    <3> QED
      BY <3>1 DEF l, k
  <2>5. Left[1] = from[pos + 1]
    <3>1. 1 \in 1 .. Len(from) - pos
      BY <1>2, <2>4
    <3> QED
      BY <2>3, <3>1, Zenon
  <2> QED
    BY <2>1, <2>2, <2>4, <2>5 DEF Same
<1>4. CASE Throw16
  BY <1>1, <1>4 DEF Throw16, Kinds
<1>5. CASE To16 \/ Replace \/ To8
  BY <1>5 DEF To16, Replace, To8, Threw, Errors
<1>6. CASE Converted \/ Back
  BY <1>6 DEF Converted, Back, Threw, Errors
<1>7. CASE UNCHANGED vars
  BY <1>7 DEF vars, PermissiveGoesThrough, Threw
<1> QED
  BY <1>3, <1>4, <1>5, <1>6, <1>7 DEF Next

(* The two texts of a conversion, and how far each of them is.              *)
Text8 == IF direction = "8to16" THEN from ELSE to
Text16 == IF direction = "8to16" THEN to ELSE from
At8 == IF direction = "8to16" THEN pos ELSE Len(to)
At16 == IF direction = "8to16" THEN Len(to) ELSE pos

(* The whole texts, when the string goes back.                              *)
Whole8 == IF given.as = "8to16" THEN given.string ELSE from
Whole16 == IF given.as = "8to16" THEN from ELSE given.string

(* On the way there: where a well-formed string is read, a form begins.     *)
There ==
    /\ result \in {"running", "success"}
    /\ IF direction = "8to16" THEN Boundary8(from, pos) ELSE Boundary16(from, pos)
    /\ \E M : Marks(M, Text8, Text16, At8, At16) /\ <<At8, At16>> \in M

(* On the way back: what is written is the beginning of the given string.   *)
Returning ==
    /\ result \in {"running", "success"}
    /\ SubAt(given.string, 0, to)
    /\ \E M : /\ Marks(M, Whole8, Whole16, Len(Whole8), Len(Whole16))
              /\ <<At8, At16>> \in M

Converting == WellFormedGiven => IF direction = given.as THEN There ELSE Returning

LEMMA Begins8 ==
    ASSUME NEW s \in Seq(Byte), WellFormed8(s)
    PROVE  Boundary8(s, 0)
<1> SUFFICES ASSUME 0 # Len(s), s[0 + 1] \in Trail PROVE FALSE
  BY DEF Boundary8
<1>1. Len(s) \in Nat /\ 1 \in 1 .. Len(s)
  BY SeqElements
<1>2. PICK p \in 0 .. 1 - 1, f \in Seq(Byte) :
         StandardForm(f) /\ Len(f) \in 1 .. 4 /\ SubAt(s, p, f)
  BY <1>1, Lies
<1>3. f[1] \notin Trail
  BY <1>2, FormNumber DEF IsForm
<1>40. p = 0
  OBVIOUS
<1>41. 1 \in 1 .. Len(f)
  <2>1. Len(f) \in 1 .. 4
    BY <1>2
  <2> QED
    BY <2>1
<1>4. p = 0 /\ 1 \in 1 .. Len(f)
  BY <1>40, <1>41
<1>5. s[0 + 1] = f[1]
  BY <1>2, <1>4 DEF SubAt
<1> QED
  BY <1>3, <1>5

LEMMA Begins16 ==
    ASSUME NEW s \in Seq(Unit), WellFormed16(s)
    PROVE  Boundary16(s, 0)
<1> SUFFICES ASSUME 0 # Len(s), s[0 + 1] \in LowSurrogates PROVE FALSE
  BY DEF Boundary16
<1>1. 1 \in 1 .. Len(s) /\ 0 + 1 = 1
  BY SeqElements
<1>2. s[1] \in LowSurrogates => 1 > 1
  BY <1>1 DEF WellFormed16
<1> QED
  BY <1>1, <1>2

LEMMA InitConverting == Init => Converting
<1> SUFFICES ASSUME Init, WellFormedGiven PROVE Converting
  BY DEF Converting
<1>0. Typed
  BY InitTyped
<1>1. /\ from \in Seq(Unit) /\ direction \in {"8to16", "16to8"} /\ pos = 0 /\ to = <<>>
      /\ result = "running" /\ given.string = from /\ given.as = direction /\ Kinds
  BY <1>0 DEF Init, Typed, TypeOK
<1>2. Len(from) \in Nat /\ Len(to) = 0 /\ At8 = 0 /\ At16 = 0
  BY <1>1, SeqElements DEF At8, At16
<1>3. Marks({<<0, 0>>}, Text8, Text16, At8, At16) /\ <<At8, At16>> \in {<<0, 0>>}
  BY <1>2, MarksBegin
<1>4. CASE direction = "8to16"
  <2>1. from \in Seq(Byte) /\ WellFormed8(from)
    BY <1>1, <1>4 DEF Kinds, WellFormedGiven
  <2>2. Boundary8(from, 0)
    BY <2>1, Begins8
  <2> QED
    BY <1>1, <1>3, <1>4, <2>2 DEF Converting, There
<1>5. CASE direction # "8to16"
  <2>1. WellFormed16(from)
    BY <1>1, <1>5 DEF WellFormedGiven
  <2>2. Boundary16(from, 0)
    BY <1>1, <2>1, Begins16
  <2> QED
    BY <1>1, <1>3, <1>5, <2>2 DEF Converting, There
<1> QED
  BY <1>4, <1>5

(* What comes next in a well-formed string, or in one that comes back.      *)
LEMMA Next8 ==
    ASSUME Typed, Converting, WellFormedGiven, direction = "8to16", Left # <<>>
    PROVE  \E u \in Scalars :
              /\ SubAt(from, pos, Bytes(u))
              /\ direction = given.as => Boundary8(from, pos + Len(Bytes(u)))
              /\ direction # given.as =>
                   /\ SubAt(given.string, Len(to), Units(u))
                   /\ \E M : /\ Marks(M, Whole8, Whole16, Len(Whole8), Len(Whole16))
                             /\ <<pos + Len(Bytes(u)), Len(to) + Len(Units(u))>> \in M
<1>1. /\ from \in Seq(Byte) /\ pos \in 0 .. Len(from) /\ to \in Seq(Unit) /\ pos # Len(from)
      /\ Kinds /\ given.as \in {"8to16", "16to8"}
  BY Rest DEF Typed, TypeOK, Kinds, Left
<1>2. CASE direction = given.as
  <2>1. WellFormed8(from) /\ Boundary8(from, pos)
    BY <1>1, <1>2 DEF WellFormedGiven, Kinds, Converting, There
  <2> QED
    BY <1>1, <1>2, <2>1, NextForm
<1>3. CASE direction # given.as
  <2>1. Whole8 = from /\ Whole16 = given.string /\ At8 = pos /\ At16 = Len(to)
    BY <1>1, <1>3 DEF Whole8, Whole16, At8, At16
  <2>2. PICK M : /\ Marks(M, Whole8, Whole16, Len(Whole8), Len(Whole16))
                 /\ <<pos, Len(to)>> \in M
    BY <1>3, <2>1 DEF Converting, Returning
  <2>3. pos \in Nat /\ Len(to) \in Nat
    BY <1>1, SeqElements
  <2>4. PICK u \in Scalars :
              /\ SubAt(from, pos, Bytes(u)) /\ SubAt(given.string, Len(to), Units(u))
              /\ <<pos + Len(Bytes(u)), Len(to) + Len(Units(u))>> \in M
    BY <1>1, <2>1, <2>2, <2>3 DEF Marks
  <2> QED
    BY <1>3, <2>2, <2>4
<1> QED
  BY <1>2, <1>3

LEMMA Next16 ==
    ASSUME Typed, Converting, WellFormedGiven, direction = "16to8", Left # <<>>
    PROVE  \E u \in Scalars :
              /\ SubAt(from, pos, Units(u))
              /\ direction = given.as => Boundary16(from, pos + Len(Units(u)))
              /\ direction # given.as =>
                   /\ SubAt(given.string, Len(to), Bytes(u))
                   /\ \E M : /\ Marks(M, Whole8, Whole16, Len(Whole8), Len(Whole16))
                             /\ <<Len(to) + Len(Bytes(u)), pos + Len(Units(u))>> \in M
<1>1. /\ from \in Seq(Unit) /\ pos \in 0 .. Len(from) /\ to \in Seq(Byte) /\ pos # Len(from)
      /\ Kinds /\ given.as \in {"8to16", "16to8"}
  BY Rest DEF Typed, TypeOK, Kinds, Left
<1>2. CASE direction = given.as
  <2>1. WellFormed16(from) /\ Boundary16(from, pos)
    BY <1>1, <1>2 DEF WellFormedGiven, Kinds, Converting, There
  <2> QED
    BY <1>1, <1>2, <2>1, NextUnits
<1>3. CASE direction # given.as
  <2>1. Whole8 = given.string /\ Whole16 = from /\ At8 = Len(to) /\ At16 = pos
    BY <1>1, <1>3 DEF Whole8, Whole16, At8, At16
  <2>2. PICK M : /\ Marks(M, Whole8, Whole16, Len(Whole8), Len(Whole16))
                 /\ <<Len(to), pos>> \in M
    BY <1>3, <2>1 DEF Converting, Returning
  <2>3. pos \in Nat /\ Len(to) \in Nat
    BY <1>1, SeqElements
  <2>4. PICK u \in Scalars :
              /\ SubAt(given.string, Len(to), Bytes(u)) /\ SubAt(from, pos, Units(u))
              /\ <<Len(to) + Len(Bytes(u)), pos + Len(Units(u))>> \in M
    BY <1>1, <2>1, <2>2, <2>3 DEF Marks
  <2> QED
    BY <1>3, <2>2, <2>4
<1> QED
  BY <1>2, <1>3

(* A prefix grows by what stands after it.                                  *)
LEMMA PrefixGrows ==
    ASSUME NEW S, NEW s \in Seq(S), NEW a \in Seq(S), NEW f \in Seq(S),
           SubAt(s, 0, a), SubAt(s, Len(a), f)
    PROVE  SubAt(s, 0, a \o f)
<1> DEFINE b == a \o f
<1>1. /\ Len(b) = Len(a) + Len(f)
      /\ \A k \in 1 .. Len(a) : b[k] = a[k]
      /\ \A k \in 1 .. Len(f) : b[Len(a) + k] = f[k]
  BY Concat
<1>2. Len(a) \in Nat /\ Len(f) \in Nat
  BY SeqElements
<1> HIDE DEF b
<1>3. Len(a) + Len(f) <= Len(s) /\ (\A k \in 1 .. Len(a) : s[0 + k] = a[k])
      /\ (\A k \in 1 .. Len(f) : s[Len(a) + k] = f[k])
  BY DEF SubAt
<1>4. ASSUME NEW k \in 1 .. Len(b)
      PROVE  s[0 + k] = b[k]
  <2>1. CASE k <= Len(a)
    BY <1>1, <1>2, <1>3, <2>1
  <2>2. CASE ~(k <= Len(a))
    <3>1. k - Len(a) \in 1 .. Len(f) /\ Len(a) + (k - Len(a)) = k /\ 0 + k = k
      BY <1>1, <1>2, <2>2
    <3>2. b[Len(a) + (k - Len(a))] = f[k - Len(a)] /\ s[Len(a) + (k - Len(a))] = f[k - Len(a)]
      BY <1>1, <1>3, <3>1
    <3> QED
      BY <3>1, <3>2
  <2> QED
    BY <2>1, <2>2
<1>5. 0 + Len(b) <= Len(s)
  BY <1>1, <1>2, <1>3
<1> QED
  BY <1>4, <1>5 DEF SubAt, b

LEMMA SamePrefix ==
    ASSUME NEW S, NEW s \in Seq(S), NEW a \in Seq(S), SubAt(s, 0, a), Len(a) = Len(s)
    PROVE  a = s
<1>1. Len(a) \in Nat
  BY SeqElements
<1>2. ASSUME NEW k \in 1 .. Len(a)
      PROVE  a[k] = s[k]
  <2>1. 0 + k = k /\ s[0 + k] = a[k]
    BY DEF SubAt
  <2> QED
    BY <2>1
<1> QED
  BY <1>2, SeqEqual

LEMMA NotAtEnd ==
    ASSUME NEW s, NEW f, Len(s) \in Nat, Len(f) \in Nat, SubAt(s, Len(s), f)
    PROVE  Len(f) = 0
  BY DEF SubAt

LEMMA ExtendsSelf ==
    ASSUME NEW s, Len(s) \in Nat
    PROVE  Extends(s, s)
  BY DEF Extends

LEMMA StepConverting == Typed /\ Converting /\ [Next]_vars => Converting'
<1> SUFFICES ASSUME Typed, Converting, [Next]_vars, WellFormedGiven'
             PROVE  IF direction' = given'.as THEN There' ELSE Returning'
  BY DEF Converting
<1>1. /\ from \in Seq(Unit) /\ to \in Seq(Unit) /\ pos \in 0 .. Len(from)
      /\ direction \in {"8to16", "16to8"} /\ Kinds
      /\ given.as \in {"8to16", "16to8"} /\ given.string \in Seq(Unit)
  BY DEF Typed, TypeOK, Kinds
<1>2. Len(from) \in Nat /\ Len(to) \in Nat /\ pos \in Nat
  BY <1>1, SeqElements
<1>3. WellFormedGiven /\ given' = given
  BY DEF Next, To16, Replace, Throw8, To8, Throw16, Converted, Back, vars, WellFormedGiven
<1>4. ASSUME direction = "8to16", Left # <<>>
      PROVE  \E u \in Scalars :
                /\ SubAt(from, pos, Bytes(u))
                /\ Outcome8(Left, Room) = "success"
                /\ Form8(Left[1]) = Len(Bytes(u))
                /\ Scalar8(SubSeq(Left, 1, Form8(Left[1]))) = u
                /\ direction = given.as => Boundary8(from, pos + Len(Bytes(u)))
                /\ direction # given.as =>
                     /\ SubAt(given.string, Len(to), Units(u))
                     /\ \E M : /\ Marks(M, Whole8, Whole16, Len(Whole8), Len(Whole16))
                               /\ <<pos + Len(Bytes(u)), Len(to) + Len(Units(u))>> \in M
  <2>1. from \in Seq(Byte) /\ Len(to) <= pos
    BY <1>1, <1>4 DEF Kinds
  <2> QED
    BY <1>1, <1>3, <1>4, <2>1, Next8, Reads8
<1>5. ASSUME direction = "16to8", Left # <<>>
      PROVE  \E u \in Scalars :
                /\ SubAt(from, pos, Units(u))
                /\ Outcome16(Left, Room8) = "success"
                /\ Form16(Left) = Len(Units(u)) /\ Scalar16(Left) = u
                /\ direction = given.as => Boundary16(from, pos + Len(Units(u)))
                /\ direction # given.as =>
                     /\ SubAt(given.string, Len(to), Bytes(u))
                     /\ \E M : /\ Marks(M, Whole8, Whole16, Len(Whole8), Len(Whole16))
                               /\ <<Len(to) + Len(Bytes(u)), pos + Len(Units(u))>> \in M
  <2>1. to \in Seq(Byte) /\ Len(to) <= 3 * pos
    BY <1>1, <1>5 DEF Kinds
  <2> QED
    BY <1>1, <1>3, <1>5, <2>1, Next16, Reads16
<1>6. CASE To16
  <2>1. /\ direction = "8to16" /\ Left # <<>> /\ result = "running"
        /\ UNCHANGED <<from, direction, permissive, result, given>>
        /\ pos' = pos + Form8(Left[1])
        /\ to' = to \o Units(Scalar8(SubSeq(Left, 1, Form8(Left[1]))))
    BY <1>6 DEF To16
  <2>2. PICK u \in Scalars :
                /\ SubAt(from, pos, Bytes(u))
                /\ Form8(Left[1]) = Len(Bytes(u))
                /\ Scalar8(SubSeq(Left, 1, Form8(Left[1]))) = u
                /\ direction = given.as => Boundary8(from, pos + Len(Bytes(u)))
                /\ direction # given.as =>
                     /\ SubAt(given.string, Len(to), Units(u))
                     /\ \E M : /\ Marks(M, Whole8, Whole16, Len(Whole8), Len(Whole16))
                               /\ <<pos + Len(Bytes(u)), Len(to) + Len(Units(u))>> \in M
    BY <1>4, <2>1
  <2>3. pos' = pos + Len(Bytes(u)) /\ to' = to \o Units(u)
    BY <2>1, <2>2
  <2>4. Units(u) \in Seq(Unit)
    BY UnitsSeq
  <2>5. /\ to' \in Seq(Unit) /\ Len(to') = Len(to) + Len(Units(u)) /\ Len(to') \in Nat
        /\ Extends(to, to') /\ SubAt(to', Len(to), Units(u))
    BY <1>1, <2>3, <2>4, Concat, ConcatStands, SeqElements
  <2>6. CASE direction = given.as
    <3>1. PICK M : Marks(M, from, to, pos, Len(to)) /\ <<pos, Len(to)>> \in M
      BY <1>3, <2>1, <2>6 DEF Converting, There, Text8, Text16, At8, At16
    <3>2. Extends(from, from)
      BY <1>2, ExtendsSelf
    <3>3. PICK N : /\ Marks(N, from, to', pos + Len(Bytes(u)), Len(to) + Len(Units(u)))
                   /\ <<pos + Len(Bytes(u)), Len(to) + Len(Units(u))>> \in N
      BY <1>2, <2>2, <2>5, <3>1, <3>2, MarksGrow
    <3>4. Marks(N, from, to', pos', Len(to')) /\ <<pos', Len(to')>> \in N
      BY <2>3, <2>5, <3>3
    <3>5. Boundary8(from, pos')
      BY <2>2, <2>3, <2>6
    <3>6. /\ Text8' = from /\ Text16' = to' /\ At8' = pos' /\ At16' = Len(to')
      BY <2>1 DEF Text8, Text16, At8, At16
    <3>7. Boundary8(from, pos)'
      BY <2>1, <3>5 DEF Boundary8
    <3> QED
      BY <2>1, <2>6, <3>4, <3>6, <3>7 DEF There
  <2>7. CASE direction # given.as
    <3>1. SubAt(given.string, 0, to)
      BY <1>3, <2>7 DEF Converting, Returning
    <3>2. SubAt(given.string, 0, to')
      BY <1>1, <2>2, <2>3, <2>4, <2>7, <3>1, PrefixGrows
    <3>3. PICK M : /\ Marks(M, Whole8, Whole16, Len(Whole8), Len(Whole16))
                   /\ <<pos + Len(Bytes(u)), Len(to) + Len(Units(u))>> \in M
      BY <2>2, <2>7
    <3>4. At8' = pos' /\ At16' = Len(to') /\ Whole8' = Whole8 /\ Whole16' = Whole16
      BY <2>1 DEF At8, At16, Whole8, Whole16
    <3>5. <<At8', At16'>> \in M
      BY <2>3, <2>5, <3>3, <3>4
    <3>6. SubAt(given.string, 0, to)'
      BY <2>1, <3>2 DEF SubAt
    <3> QED
      BY <2>1, <2>7, <3>3, <3>4, <3>5, <3>6 DEF Returning
  <2> QED
    BY <2>6, <2>7
<1>7. CASE To8
  <2>1. /\ direction = "16to8" /\ Left # <<>> /\ result = "running"
        /\ UNCHANGED <<from, direction, permissive, result, given>>
        /\ pos' = pos + Form16(Left) /\ to' = to \o Bytes(Scalar16(Left))
    BY <1>7 DEF To8
  <2>2. PICK u \in Scalars :
                /\ SubAt(from, pos, Units(u))
                /\ Form16(Left) = Len(Units(u)) /\ Scalar16(Left) = u
                /\ direction = given.as => Boundary16(from, pos + Len(Units(u)))
                /\ direction # given.as =>
                     /\ SubAt(given.string, Len(to), Bytes(u))
                     /\ \E M : /\ Marks(M, Whole8, Whole16, Len(Whole8), Len(Whole16))
                               /\ <<Len(to) + Len(Bytes(u)), pos + Len(Units(u))>> \in M
    BY <1>5, <2>1
  <2>3. pos' = pos + Len(Units(u)) /\ to' = to \o Bytes(u)
    BY <2>1, <2>2
  <2>4. Bytes(u) \in Seq(Unit)
    BY BytesSeq, BytesAreUnits
  <2>5. /\ to' \in Seq(Unit) /\ Len(to') = Len(to) + Len(Bytes(u)) /\ Len(to') \in Nat
        /\ Extends(to, to') /\ SubAt(to', Len(to), Bytes(u))
    BY <1>1, <2>3, <2>4, Concat, ConcatStands, SeqElements
  <2>6. CASE direction = given.as
    <3>1. PICK M : Marks(M, to, from, Len(to), pos) /\ <<Len(to), pos>> \in M
      BY <1>3, <2>1, <2>6 DEF Converting, There, Text8, Text16, At8, At16
    <3>2. Extends(from, from)
      BY <1>2, ExtendsSelf
    <3>3. PICK N : /\ Marks(N, to', from, Len(to) + Len(Bytes(u)), pos + Len(Units(u)))
                   /\ <<Len(to) + Len(Bytes(u)), pos + Len(Units(u))>> \in N
      BY <1>2, <2>2, <2>5, <3>1, <3>2, MarksGrow
    <3>4. Marks(N, to', from, Len(to'), pos') /\ <<Len(to'), pos'>> \in N
      BY <2>3, <2>5, <3>3
    <3>5. Boundary16(from, pos')
      BY <2>2, <2>3, <2>6
    <3>6. /\ Text8' = to' /\ Text16' = from /\ At8' = Len(to') /\ At16' = pos'
      BY <2>1 DEF Text8, Text16, At8, At16
    <3>7. Boundary16(from, pos)'
      BY <2>1, <3>5 DEF Boundary16
    <3> QED
      BY <2>1, <2>6, <3>4, <3>6, <3>7 DEF There
  <2>7. CASE direction # given.as
    <3>1. SubAt(given.string, 0, to)
      BY <1>3, <2>7 DEF Converting, Returning
    <3>2. SubAt(given.string, 0, to')
      BY <1>1, <2>2, <2>3, <2>4, <2>7, <3>1, PrefixGrows
    <3>3. PICK M : /\ Marks(M, Whole8, Whole16, Len(Whole8), Len(Whole16))
                   /\ <<Len(to) + Len(Bytes(u)), pos + Len(Units(u))>> \in M
      BY <2>2, <2>7
    <3>4. At8' = Len(to') /\ At16' = pos' /\ Whole8' = Whole8 /\ Whole16' = Whole16
      BY <2>1 DEF At8, At16, Whole8, Whole16
    <3>5. <<At8', At16'>> \in M
      BY <2>3, <2>5, <3>3, <3>4
    <3>6. SubAt(given.string, 0, to)'
      BY <2>1, <3>2 DEF SubAt
    <3> QED
      BY <2>1, <2>7, <3>3, <3>4, <3>5, <3>6 DEF Returning
  <2> QED
    BY <2>6, <2>7
<1>8. CASE Replace
  BY <1>4, <1>8 DEF Replace
<1>9. CASE Throw8
  BY <1>4, <1>9 DEF Throw8, Errors
<1>10. CASE Throw16
  <2>1. direction = "16to8" /\ Left # <<>> /\ Outcome16(Left, Room8) # "success"
    BY <1>10 DEF Throw16
  <2> QED
    BY <1>5, <2>1
<1>11. CASE Converted
  <2>1. result' = "success" /\ UNCHANGED <<from, pos, to, direction, permissive, given>>
    BY <1>11 DEF Converted
  <2>2. CASE direction = given.as
    <3>1. There
      BY <1>3, <2>2 DEF Converting
    <3> QED
      BY <2>1, <2>2, <3>1
         DEF There, Text8, Text16, At8, At16, Boundary8, Boundary16
  <2>3. CASE direction # given.as
    <3>1. Returning
      BY <1>3, <2>3 DEF Converting
    <3> QED
      BY <2>1, <2>3, <3>1 DEF Returning, At8, At16, Whole8, Whole16
  <2> QED
    BY <2>2, <2>3
<1>12. CASE Back
  <2>1. /\ direction = given.as /\ from' = to /\ pos' = 0 /\ to' = <<>> /\ result' = "running"
        /\ direction' = IF direction = "8to16" THEN "16to8" ELSE "8to16"
        /\ result = "success"
    BY <1>12 DEF Back
  <2>2. direction' # given'.as
    BY <1>1, <1>3, <2>1
  <2>3. pos = Len(from) /\ from = given.string
    BY <1>1, <2>1 DEF Kinds
  <2>4. PICK M : Marks(M, Text8, Text16, At8, At16)
    BY <1>3, <2>1 DEF Converting, There
  <2>5. Whole8' = Text8 /\ Whole16' = Text16 /\ At8 = Len(Text8) /\ At16 = Len(Text16)
    BY <1>1, <1>3, <2>1, <2>3 DEF Whole8, Whole16, Text8, Text16, At8, At16
  <2>6. Len(to') = 0 /\ At8' = 0 /\ At16' = 0
    BY <2>1, EmptySeq DEF At8, At16
  <2>7. SubAt(given.string, 0, to)'
    <3>1. 0 + 0 <= Len(given.string)
      BY <1>1, SeqElements
    <3> QED
      BY <1>3, <2>6, <3>1 DEF SubAt
  <2>8. <<0, 0>> \in M
    BY <2>4 DEF Marks
  <2> QED
    BY <2>1, <2>2, <2>4, <2>5, <2>6, <2>7, <2>8 DEF Returning
<1>13. CASE UNCHANGED vars
  <2>1. UNCHANGED <<from, pos, to, direction, permissive, result, given>>
    BY <1>13 DEF vars
  <2>2. CASE direction = given.as
    <3>1. There
      BY <1>3, <2>2 DEF Converting
    <3> QED
      BY <2>1, <2>2, <3>1
         DEF There, Text8, Text16, At8, At16, Boundary8, Boundary16
  <2>3. CASE direction # given.as
    <3>1. Returning
      BY <1>3, <2>3 DEF Converting
    <3> QED
      BY <2>1, <2>3, <3>1 DEF Returning, At8, At16, Whole8, Whole16
  <2> QED
    BY <2>2, <2>3
<1> QED
  BY <1>6, <1>7, <1>8, <1>9, <1>10, <1>11, <1>12, <1>13 DEF Next

LEMMA ComesBack == Typed /\ Converting => RoundTrip
<1> SUFFICES ASSUME Typed, Converting, WellFormedGiven
             PROVE  ~Threw /\ (result = "success" /\ direction # given.as => to = given.string)
  BY DEF RoundTrip
<1>1. result \in {"running", "success"}
  BY DEF Converting, There, Returning
<1>2. ~Threw
  BY <1>1 DEF Threw, Errors
<1>3. ASSUME result = "success", direction # given.as
      PROVE  to = given.string
  <2>1. /\ from \in Seq(Unit) /\ to \in Seq(Unit) /\ pos \in 0 .. Len(from) /\ pos = Len(from)
        /\ direction \in {"8to16", "16to8"}
        /\ given.as \in {"8to16", "16to8"} /\ given.string \in Seq(Unit)
    BY <1>3 DEF Typed, TypeOK, Kinds
  <2>2. Len(from) \in Nat /\ Len(to) \in Nat /\ Len(given.string) \in Nat
    BY <2>1, SeqElements
  <2>3. Returning
    BY <1>3 DEF Converting
  <2>4. PICK M : /\ Marks(M, Whole8, Whole16, Len(Whole8), Len(Whole16))
                 /\ <<At8, At16>> \in M
    BY <2>3 DEF Returning
  <2>5. ASSUME NEW u \in Scalars
        PROVE  Len(Bytes(u)) \in Nat \ {0} /\ Len(Units(u)) \in Nat \ {0}
    BY BytesSeq, UnitsSeq
  <2>6. Len(to) = Len(given.string)
    <3>1. CASE direction = "8to16"
      <4>1. Whole8 = from /\ Whole16 = given.string /\ At8 = Len(from) /\ At16 = Len(to)
        BY <1>3, <2>1, <3>1 DEF Whole8, Whole16, At8, At16
      <4>2. \/ Len(to) = Len(given.string)
            \/ \E u \in Scalars : SubAt(from, Len(from), Bytes(u))
        BY <2>2, <2>4, <4>1 DEF Marks
      <4> QED
        BY <2>2, <2>5, <4>2, NotAtEnd
    <3>2. CASE direction = "16to8"
      <4>1. Whole8 = given.string /\ Whole16 = from /\ At8 = Len(to) /\ At16 = Len(from)
        BY <1>3, <2>1, <3>2 DEF Whole8, Whole16, At8, At16
      <4>2. \/ Len(to) = Len(given.string)
            \/ \E u \in Scalars : SubAt(from, Len(from), Units(u))
        BY <2>2, <2>4, <4>1 DEF Marks
      <4> QED
        BY <2>2, <2>5, <4>2, NotAtEnd
    <3> QED
      BY <2>1, <3>1, <3>2
  <2>7. SubAt(given.string, 0, to)
    BY <2>3 DEF Returning
  <2> QED
    BY <2>1, <2>6, <2>7, SamePrefix
<1> QED
  BY <1>2, <1>3

-----------------------------------------------------------------------------
(* The inductive invariant.                                                 *)
Inv == Typed /\ OutputWellFormed /\ PermissiveGoesThrough /\ Converting

LEMMA Invariance == Spec => []Inv
<1>1. Init => Inv
  BY InitTyped, InitOutput, InitConverting DEF Inv, PermissiveGoesThrough, Threw, Init, Errors
<1>2. Inv /\ [Next]_vars => Inv'
  BY StepTyped, StepOutput, StepPermissive, StepConverting DEF Inv
<1> QED
  BY <1>1, <1>2, PTL DEF Spec

(* The loops of aseutfconv.cpp stay within the string they read and write   *)
(* bytes and units only.                                                    *)
THEOREM TypeCorrect == Spec => []TypeOK
<1>1. Inv => TypeOK
  BY DEF Inv, Typed
<1> QED
  BY Invariance, <1>1, PTL

(* pmc_uconv_8to16 after pmc_uconv_16to8 gives back every well-formed       *)
(* string, and so the other way about; neither throws on one, and neither   *)
(* buffer is too small (aseutf16.cpp, asestr.cpp).                          *)
THEOREM StringsComeBack == Spec => []RoundTrip
<1>1. Inv => RoundTrip
  BY ComesBack DEF Inv
<1> QED
  BY Invariance, <1>1, PTL

(* Whatever string is given, what either loop has written is well formed    *)
(* after each iteration.                                                    *)
THEOREM WritesWellFormed == Spec => []OutputWellFormed
<1>1. Inv => OutputWellFormed
  BY DEF Inv
<1> QED
  BY Invariance, <1>1, PTL

(* The permissive create_u16buffer throws for the want of room only, one    *)
(* byte before the end, where a form of four would begin and one unit is    *)
(* left, as each byte before it became one.                                 *)
THEOREM PermissiveEnds == Spec => []PermissiveGoesThrough
<1>1. Inv => PermissiveGoesThrough
  BY DEF Inv
<1> QED
  BY Invariance, <1>1, PTL
=============================================================================
