------------------------------ MODULE MCUtfConv ------------------------------
(* Instances of UtfConv for TLC: the bytes and units at the ends of the     *)
(* ranges that the code and the standard tell apart.                        *)
EXTENDS UtfConv
Bytes8 == {65, 128, 143, 144, 159, 160, 191, 193, 194, 224, 237, 239, 240, 244, 245, 248}
Units16 == {65, 127, 128, 2047, 2048, 55295, 55296, 56319, 56320, 57343, 57344, 65535}

UpTo(n, S) == UNION {[1 .. k -> S] : k \in 0 .. n}
FourBytes == UpTo(4, Bytes8)
ThreeUnits == UpTo(3, Units16)
=============================================================================
