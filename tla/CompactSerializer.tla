-------------------------- MODULE CompactSerializer --------------------------
(***************************************************************************)
(* The compact serializer (aseserialize.cpp).  A message is a sequence of  *)
(* tokens: a variant without elements is one; an array or a map is an      *)
(* opening token, its elements (of a map: keys and values in turn) and a   *)
(* closing token, the order in which the recursive functions visit them.   *)
(* The bytes of an int, a long, a double and an object id are those of its *)
(* representation, the lowest first.                                       *)
(*                                                                         *)
(* What the reader makes of bytes that the writer never makes (a key that  *)
(* is no string, a closing token too many, a length before an inner array) *)
(* is left out, but for the tags and lengths of single tokens: Error is    *)
(* where the code throws.                                                  *)
(***************************************************************************)
EXTENDS Integers, Sequences, SequencesExt, FiniteSetsExt

Byte == 0 .. 255

Void == [t |-> "void"]
Bool(v) == [t |-> "bool", v |-> v]
IntV(b) == [t |-> "int", b |-> b]
LongV(b) == [t |-> "long", b |-> b]
Double(b) == [t |-> "double", b |-> b]
String(b) == [t |-> "string", b |-> b]
ObjectRef(remote, id) == [t |-> "object", remote |-> remote, id |-> id]
ArrayBegin == [t |-> "array"]
ArrayEnd == [t |-> "end_array"]
AssocBegin == [t |-> "assoc"]
AssocEnd == [t |-> "end_assoc"]
Error == [t |-> "error"]

IntSize == 4
LongSize == 8

(* What a variant becomes when it is read: a small long is an int.          *)
Negative(b) == Last(b) >= 128
Extended(b, size) ==
    [i \in 1 .. size |-> IF i <= Len(b) THEN b[i] ELSE IF Negative(b) THEN 255 ELSE 0]

Normal(v) ==
    IF v.t = "long" /\ v.b = Extended(SubSeq(v.b, 1, IntSize), LongSize)
    THEN IntV(SubSeq(v.b, 1, IntSize)) ELSE v

-----------------------------------------------------------------------------
(* Writing.                                                                 *)

(* byte_length_unsigned, and the memcpy of that many bytes.                 *)
(* Bound: lengths below 2^24 here and in UnsignedValue.                     *)
UnsignedBytes(n) ==
    IF n = 0 THEN <<>>
    ELSE IF n < 256 THEN <<n>>
    ELSE IF n < 65536 THEN <<n % 256, n \div 256>>
    ELSE <<n % 256, (n \div 256) % 256, n \div 65536>>

(* Mutant of Minimal: the sign of the byte below is not looked at.          *)
MinimalUnsigned(b) ==
    LET Droppable(p) == \A q \in (Len(b) - p + 1) .. Len(b) : b[q] \in {0, 255}
    IN  SubSeq(b, 1, Len(b) - Max({p \in 0 .. Len(b) - 1 : Droppable(p)}))

(* byte_length_signed_little_endian: the bytes that are left when the       *)
(* highest ones that only repeat the sign are dropped.                      *)
Minimal(b) ==
    LET Droppable(p) ==
            \A q \in (Len(b) - p + 1) .. Len(b) :
                \/ b[q] = 255 /\ b[q - 1] >= 128
                \/ b[q] = 0 /\ b[q - 1] < 128
    IN  SubSeq(b, 1, Len(b) - Max({p \in 0 .. Len(b) - 1 : Droppable(p)}))

ShortForm(typetag, b) == <<typetag + (Len(b) % 32)>> \o b

LongForm(typetag, b) ==
    LET n == UnsignedBytes(Len(b))
    IN  <<192 + (typetag \div 4) + (Len(n) % 8)>> \o n \o b

FitsShort(n) == n <= 31

Form(typetag, b) ==
    IF FitsShort(Len(b)) THEN ShortForm(typetag, b) ELSE LongForm(typetag, b)

WriteObjectRef(v) ==
    ShortForm(64, <<IF v.remote THEN 255 ELSE 0>> \o Minimal(v.id))

(* ase_serialize_compact_internal                                           *)
WriteToken(v) ==
    CASE v.t = "void" -> <<240>>
      [] v.t = "bool" -> <<IF v.v THEN 243 ELSE 242>>
      [] v.t = "array" -> <<244>>
      [] v.t = "end_array" -> <<245>>
      [] v.t = "assoc" -> <<246>>
      [] v.t = "end_assoc" -> <<247>>
      [] v.t \in {"int", "long"} -> ShortForm(0, Minimal(v.b))
      [] v.t = "double" -> ShortForm(32, v.b)
      [] v.t = "string" -> Form(96, v.b)
      [] v.t = "object" -> WriteObjectRef(v)

(* ase_serialize_compact: a packet is an array of known length.  A packet   *)
(* of ase_serialize_compact_object_op is one of an int and an object.       *)
Serialize(m) == Form(128, FlattenSeq([i \in DOMAIN m |-> WriteToken(m[i])]))

-----------------------------------------------------------------------------
(* Reading the packet s.                                                    *)

UnsignedValue(b) ==
    LET at(i) == IF i \in DOMAIN b THEN b[i] ELSE 0
    IN  at(1) + 256 * at(2) + 65536 * at(3)

ReadInt(b) ==
    CASE Len(b) > LongSize -> Error
      [] b = <<>> -> IntV(<<0, 0, 0, 0>>)
      [] Len(b) \in 1 .. IntSize -> IntV(Extended(b, IntSize))
      [] OTHER -> LongV(Extended(b, LongSize))

ReadDouble(b) == IF Len(b) # LongSize THEN Error ELSE Double(b)

ReadObject(b) ==
    CASE b = <<>> \/ Len(b) - 1 > LongSize -> Error
      [] Len(b) = 1 -> ObjectRef(b[1] # 0, Extended(<<0>>, LongSize))
      [] OTHER -> ObjectRef(b[1] # 0, Extended(Tail(b), LongSize))

Immediate(tag) ==
    CASE tag = 240 -> Void
      [] tag \in {242, 243} -> Bool(tag = 243)
      [] tag = 244 -> ArrayBegin
      [] tag = 245 -> ArrayEnd
      [] tag = 246 -> AssocBegin
      [] tag = 247 -> AssocEnd
      [] OTHER -> Error

ReadData(typetag, b) ==
    CASE typetag = 0 -> ReadInt(b)
      [] typetag = 32 -> ReadDouble(b)
      [] typetag = 64 -> ReadObject(b)
      [] typetag = 96 -> String(b)
      [] OTHER -> Error

(* The header at position i: the type, and where the data begins and ends.  *)
Header(s, i) ==
    LET ll == IF s[i] < 192 THEN 0 ELSE s[i] % 8
        tag == IF s[i] < 192 THEN s[i] ELSE (s[i] * 4) % 256
        n == IF s[i] < 192 THEN s[i] % 32 ELSE UnsignedValue(SubSeq(s, i + 1, i + ll))
    IN  [typetag |-> (tag \div 32) * 32, first |-> i + ll + 1, last |-> i + ll + n]

(* ase_deserialize_compact_internal at position i: the token and the        *)
(* position after it.  The length or the data may be cut off.               *)
ReadToken(s, i) ==
    LET h == Header(s, i)
        TooShort == h.first > Len(s) + 1 \/ h.last > Len(s)
    IN  IF s[i] >= 240 THEN <<Immediate(s[i]), i + 1>>
        ELSE IF TooShort THEN <<Error, Len(s) + 1>>
        ELSE <<ReadData(h.typetag, SubSeq(s, h.first, h.last)), h.last + 1>>

Deserialize(s) ==
    LET outer == Header(s, 1)
        elements[i \in 1 .. Len(s) + 1] ==
            IF i > Len(s) THEN <<>>
            ELSE LET r == ReadToken(s, i) IN <<r[1]>> \o elements[r[2]]
    IN  IF outer.typetag # 128 \/ outer.last # Len(s) THEN <<Error>>
        ELSE elements[outer.first]

(* ase_deserialize_compact_get_length_internal: 0 when it is not known.     *)
GetLength(s) ==
    LET ll == s[1] % 8
    IN  IF s = <<>> THEN 0
        ELSE IF s[1] >= 240 THEN 1
        ELSE IF s[1] < 192 THEN (s[1] % 32) + 1
        ELSE IF Len(s) - 1 < ll THEN 0
        ELSE UnsignedValue(SubSeq(s, 2, ll + 1)) + ll + 1
=============================================================================
