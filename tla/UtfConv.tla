------------------------------- MODULE UtfConv -------------------------------
(***************************************************************************)
(* The conversion of strings between UTF-8 and UTF-16 (aseutfconv.cpp) as  *)
(* ase_utf16_string and ase_string use it (aseutf16.cpp, asestr.cpp).      *)
(* Strings of ASE are UTF-8; Java, JavaScript, .NET and COM have UTF-16.   *)
(*                                                                         *)
(* One behaviour converts a given string and, if that succeeds, converts   *)
(* the result back; each iteration of a conversion loop is a step.  A      *)
(* permissive conversion replaces what it cannot convert.                  *)
(***************************************************************************)
EXTENDS Naturals, Sequences

CONSTANTS
    Strings8,       \* the UTF-8 strings that are given
    Strings16       \* the UTF-16 strings that are given

Byte == 0 .. 255

(* Ranges are made of blocks of 0x400 numbers: as many as there are high or *)
(* low surrogates, 64 to a plane.                                           *)
Block == 1024
Plane == 64 * Block
Unit == 0 .. Plane - 1

ASSUME StringsAssumption ==
    Strings8 \subseteq Seq(Byte) /\ Strings16 \subseteq Seq(Unit)

VARIABLES
    from,           \* the string converted now
    pos,            \* r8 or r16: the units of it that are converted
    to,             \* the units written
    direction,      \* "8to16" or "16to8"
    permissive,
    result,         \* "running", or the pmc_uconv_err_t it ended with
    given           \* the string the behaviour began with, and its encoding

vars == <<from, pos, to, direction, permissive, result, given>>

Errors == {"malformed", "range", "incomplete", "bufferfull"}

TypeOK ==
    /\ from \in Seq(Unit) /\ to \in Seq(Unit)
    /\ pos \in 0 .. Len(from)
    /\ direction \in {"8to16", "16to8"} /\ permissive \in BOOLEAN
    /\ result \in {"running", "success"} \cup Errors

Init ==
    /\ \/ from \in Strings8 /\ direction = "8to16" /\ permissive \in BOOLEAN
       \/ from \in Strings16 /\ direction = "16to8" /\ permissive = FALSE
    /\ pos = 0 /\ to = <<>> /\ result = "running"
    /\ given = [string |-> from, as |-> direction]

(* What is left to convert.                                                 *)
Left == SubSeq(from, pos + 1, Len(from))

-----------------------------------------------------------------------------
(* From UTF-8.                                                              *)

Trail == 128 .. 191
HighSurrogates == 54 * Block .. 55 * Block - 1      \* from 0xD800
LowSurrogates == 55 * Block .. 56 * Block - 1       \* from 0xDC00
Surrogates == HighSurrogates \cup LowSurrogates

(* The length of the form that begins with byte c; 0 if none does.          *)
Form8(c) ==
    CASE c < 128 -> 1
      [] c \in 192 .. 223 -> 2
      [] c \in 224 .. 239 -> 3
      [] c \in 240 .. 247 -> 4
      [] OTHER -> 0

Low6(c) == c % 64
Above6(c) == c \div 64
Shift6(high, c) == high * 64 + Low6(c)

(* The number in the form s.                                                *)
Scalar8(s) ==
    CASE Len(s) = 1 -> s[1]
      [] Len(s) = 2 -> Shift6(s[1] % 32, s[2])
      [] Len(s) = 3 -> Shift6(Shift6(s[1] % 16, s[2]), s[3])
      [] Len(s) = 4 -> Shift6(Shift6(Shift6(s[1] % 8, s[2]), s[3]), s[4])

(* The least number that may take a form of this length.                    *)
Shortest == <<0, 128, 2 * Block, Plane>>

(* The last number of the seventeen planes of Unicode.                      *)
MaxScalar == 17 * Plane - 1

(* Mutant of InRange: surrogates are not looked for.                        *)
InRangeNoSurrogates(u, n) == u >= Shortest[n] /\ u <= MaxScalar

(* The numbers that a form of length n may hold.                            *)
InRange(u, n) == u >= Shortest[n] /\ u <= MaxScalar /\ (n = 3 => u \notin Surrogates)

(* Mutant of Room: a buffer of half the length.                             *)
RoomHalf == IF 2 * Len(to) >= Len(from) THEN 0 ELSE (Len(from) + 1) \div 2 - Len(to)

(* create_u16buffer: as many units as there are bytes.                      *)
Room == Len(from) - Len(to)

(* What pmc_uconv_8to16 finds at the beginning of s, with room for so many  *)
(* units.  The second byte of a form of two is not looked at.               *)
Outcome8(s, room) ==
    LET n == Form8(s[1])
        form == SubSeq(s, 1, n)
    IN  IF room = 0 \/ (n = 4 /\ room = 1) THEN "bufferfull"
        ELSE IF n = 0 THEN "malformed"
        ELSE IF Len(s) < n THEN "incomplete"
        ELSE IF n > 2 /\ \E i \in 2 .. n : form[i] \notin Trail THEN "malformed"
        ELSE IF ~InRange(Scalar8(form), n) THEN "range"
        ELSE "success"

(* Mutant of Units: the offset of the surrogates is left out.               *)
UnitsNoOffset(u) ==
    IF u < Plane THEN <<u>> ELSE <<54 * Block + (u \div Block), 55 * Block + (u % Block)>>

(* A number in UTF-16.                                                      *)
Units(u) ==
    IF u < Plane THEN <<u>>
    ELSE <<54 * Block + (u - Plane) \div Block, 55 * Block + ((u - Plane) % Block)>>

To16 ==
    /\ direction = "8to16" /\ result = "running" /\ Left # <<>>
    /\ Outcome8(Left, Room) = "success"
    /\ LET n == Form8(Left[1])
       IN  /\ pos' = pos + n
           /\ to' = to \o Units(Scalar8(SubSeq(Left, 1, n)))
    /\ UNCHANGED <<from, direction, permissive, result, given>>

(* The byte in error and the trailing bytes after it.                       *)
Skipped ==
    CHOOSE n \in 1 .. Len(Left) :
        /\ \A i \in 2 .. n : Left[i] \in Trail
        /\ n < Len(Left) => Left[n + 1] \notin Trail

Replacement == Plane - 3    \* U+FFFD

(* create_u16buffer, permissive: U+FFFD for what cannot be converted.       *)
Replace ==
    /\ direction = "8to16" /\ result = "running" /\ Left # <<>> /\ permissive
    /\ Outcome8(Left, Room) \notin {"success", "bufferfull"}
    /\ pos' = pos + Skipped
    /\ to' = Append(to, Replacement)
    /\ UNCHANGED <<from, direction, permissive, result, given>>

(* An exception; also of a permissive conversion if the buffer is full.     *)
Throw8 ==
    /\ direction = "8to16" /\ result = "running" /\ Left # <<>>
    /\ Outcome8(Left, Room) \in (IF permissive THEN {"bufferfull"} ELSE Errors)
    /\ result' = Outcome8(Left, Room)
    /\ UNCHANGED <<from, pos, to, direction, permissive, given>>

-----------------------------------------------------------------------------
(* From UTF-16.                                                             *)

(* The number at the beginning of s.                                        *)
Scalar16(s) ==
    IF s[1] \in HighSurrogates
    THEN (s[1] - 54 * Block) * Block + (s[2] % Block) + Plane
    ELSE s[1]

Form16(s) == IF s[1] \in HighSurrogates THEN 2 ELSE 1

(* The length of the form that pmc_uconv_16to8 writes for u.                *)
Length8(u) == IF u < 128 THEN 1 ELSE IF u < 2 * Block THEN 2 ELSE IF u < Plane THEN 3 ELSE 4

Bytes(u) ==
    CASE Length8(u) = 1 -> <<u>>
      [] Length8(u) = 2 -> <<192 + Above6(u), 128 + Low6(u)>>
      [] Length8(u) = 3 -> <<224 + Above6(Above6(u)), 128 + Low6(Above6(u)), 128 + Low6(u)>>
      [] Length8(u) = 4 -> <<240 + Above6(Above6(Above6(u))), 128 + Low6(Above6(Above6(u))),
                             128 + Low6(Above6(u)), 128 + Low6(u)>>

(* What pmc_uconv_16to8 finds at the beginning of s, with room for so many  *)
(* bytes.                                                                   *)
Outcome16(s, room) ==
    IF s[1] \in LowSurrogates /\ room > 0 THEN "malformed"
    ELSE IF s[1] \in HighSurrogates
    THEN IF room < 4 THEN "bufferfull"
         ELSE IF Len(s) = 1 THEN "incomplete"
         ELSE IF s[2] \notin LowSurrogates THEN "malformed" ELSE "success"
    ELSE IF room < Length8(s[1]) THEN "bufferfull" ELSE "success"

(* ase_string::init_16: three bytes for each unit.                          *)
Room8 == 3 * Len(from) - Len(to)

To8 ==
    /\ direction = "16to8" /\ result = "running" /\ Left # <<>>
    /\ Outcome16(Left, Room8) = "success"
    /\ pos' = pos + Form16(Left)
    /\ to' = to \o Bytes(Scalar16(Left))
    /\ UNCHANGED <<from, direction, permissive, result, given>>

Throw16 ==
    /\ direction = "16to8" /\ result = "running" /\ Left # <<>>
    /\ Outcome16(Left, Room8) # "success"
    /\ result' = Outcome16(Left, Room8)
    /\ UNCHANGED <<from, pos, to, direction, permissive, given>>

-----------------------------------------------------------------------------
Converted ==
    /\ result = "running" /\ Left = <<>>
    /\ result' = "success"
    /\ UNCHANGED <<from, pos, to, direction, permissive, given>>

(* The string goes back to where it came from.                              *)
Back ==
    /\ result = "success" /\ direction = given.as
    /\ from' = to /\ pos' = 0 /\ to' = <<>> /\ result' = "running"
    /\ direction' = IF direction = "8to16" THEN "16to8" ELSE "8to16"
    /\ permissive' = FALSE
    /\ UNCHANGED given

Next == To16 \/ Replace \/ Throw8 \/ To8 \/ Throw16 \/ Converted \/ Back

Spec == Init /\ [][Next]_vars

-----------------------------------------------------------------------------
(* The forms of UTF-8 as the Unicode standard lists them.                   *)
StandardForm(s) ==
    \/ Len(s) = 1 /\ s[1] < 128
    \/ Len(s) = 2 /\ s[1] \in 194 .. 223 /\ s[2] \in Trail
    \/ Len(s) = 3 /\ s[3] \in Trail
       /\ \/ s[1] = 224 /\ s[2] \in 160 .. 191
          \/ s[1] \in 225 .. 239 \ {237} /\ s[2] \in Trail
          \/ s[1] = 237 /\ s[2] \in 128 .. 159
    \/ Len(s) = 4 /\ s[3] \in Trail /\ s[4] \in Trail
       /\ \/ s[1] = 240 /\ s[2] \in 144 .. 191
          \/ s[1] \in 241 .. 243 /\ s[2] \in Trail
          \/ s[1] = 244 /\ s[2] \in 128 .. 143

(* No byte can both begin a form and continue one, and its first byte tells *)
(* how long a form is: forms do not overlap, and a string of bytes that     *)
(* all lie in forms is a sequence of forms.                                 *)
FormAt(s, i, n) == i + n <= Len(s) + 1 /\ StandardForm(SubSeq(s, i, i + n - 1))

WellFormed8(s) ==
    \A k \in 1 .. Len(s) : \E i \in 1 .. k, n \in 1 .. 4 : k < i + n /\ FormAt(s, i, n)

WellFormed16(s) ==
    \A i \in 1 .. Len(s) :
        /\ s[i] \in HighSurrogates => i < Len(s) /\ s[i + 1] \in LowSurrogates
        /\ s[i] \in LowSurrogates => i > 1 /\ s[i - 1] \in HighSurrogates

WellFormedGiven ==
    IF given.as = "8to16" THEN WellFormed8(given.string) ELSE WellFormed16(given.string)

Threw == result \in Errors

(* A well-formed string is converted, whichever way, and is itself when it  *)
(* comes back from the other virtual machine.                               *)
RoundTrip ==
    WellFormedGiven =>
        /\ ~Threw
        /\ result = "success" /\ direction # given.as => to = given.string

(* What is written is well formed after each iteration, whatever is read:   *)
(* no virtual machine gets a lone surrogate or a piece of a form.           *)
OutputWellFormed ==
    IF direction = "8to16" THEN WellFormed16(to) ELSE WellFormed8(to)

(* A permissive conversion, whatever it is given, goes through to the end   *)
(* of the string, unless the last byte is the first one of a form of four   *)
(* and each byte before it has become one unit.                             *)
PermissiveGoesThrough ==
    permissive /\ Threw =>
        /\ pos = Len(from) - 1 /\ Form8(from[Len(from)]) = 4
        /\ Len(to) = pos
=============================================================================
