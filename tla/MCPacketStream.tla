---------------------------- MODULE MCPacketStream ----------------------------
(* PacketStream with the packets of the compact serializer, for TLC.  A     *)
(* message is a sequence of tokens; the set holds the integers, strings   *)
(* and lengths around each change of form.                                  *)
EXTENDS PacketStream, CompactSerializer

Repeated(b, n) == [i \in 1 .. n |-> b]

Ints == <<IntV(<<0, 0, 0, 0>>), IntV(<<127, 0, 0, 0>>), IntV(<<128, 0, 0, 0>>),
          IntV(<<255, 255, 255, 255>>), IntV(<<128, 255, 255, 255>>),
          IntV(<<127, 255, 255, 255>>), IntV(<<0, 128, 0, 0>>),
          IntV(<<0, 0, 0, 128>>), IntV(<<255, 255, 255, 127>>)>>

Longs == <<LongV(<<255, 255, 255, 127, 0, 0, 0, 0>>), LongV(<<0, 0, 0, 128, 0, 0, 0, 0>>),
           LongV(<<255, 255, 255, 127, 255, 255, 255, 255>>),
           LongV(<<0, 0, 0, 0, 0, 0, 0, 128>>), Double(<<0, 0, 0, 0, 0, 0, 248, 127>>)>>

Text(n) == String(Repeated(96, n))
Ref(remote) == ObjectRef(remote, <<200, 0, 0, 0, 0, 0, 0, 0>>)

Nested == <<ArrayBegin, ArrayEnd, ArrayBegin, Void, ArrayBegin, Bool(TRUE), ArrayEnd,
            String(<<245>>), ArrayEnd, AssocBegin, AssocEnd, AssocBegin, String(<<247>>),
            Ref(TRUE), String(<<>>), AssocBegin, AssocEnd, AssocEnd>>

(* A call with its arguments: a packet of 31 bytes and of 32, with the tag. *)
Call(n) == <<IntV(<<0, 0, 0, 0>>), Ref(TRUE), Text(n)>>

CompactMessages ==
    {<<>>, Ints, Longs, Nested, Call(24), Call(25), <<Text(0), Ref(FALSE), Bool(FALSE)>>,
     <<Text(31)>>, <<Text(32)>>, <<Text(256)>>}

CompactWire == [m \in CompactMessages |-> Serialize(m)]
CompactReturned(m) == [i \in DOMAIN m |-> Normal(m[i])]
OneByte == {1}
=============================================================================
