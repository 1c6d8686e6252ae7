----------------------------- MODULE PacketStream -----------------------------
(***************************************************************************)
(* One direction of a connection: remote_handle::packet_write and          *)
(* packet_read (asermt_protocol.cpp) on a buffered stream                  *)
(* (aseio_bufstream.cpp) over a socket (aseio_listener.cpp), which breaks  *)
(* the packets into pieces, stops in the middle of a write, times out and  *)
(* closes.  RemoteProtocol takes for granted what this module is about:    *)
(* packets arrive whole, in order and once.                                *)
(*                                                                         *)
(* The serializer is given by its functions: Wire[m] is the packet of      *)
(* message m, Read(p) the message of packet p, and PacketLength(s) what    *)
(* the bytes s, which begin a packet, say of its length, 0 for not yet.    *)
(* Returned(m) is what the reader of message m should get.                 *)
(***************************************************************************)
EXTENDS Naturals, Sequences

CONSTANTS
    Messages,
    Bytes,
    Wire,
    Read(_),
    PacketLength(_),
    Returned(_),
    ReadSizes,      \* bound: how much one read returns
    MaxSent         \* bound: packets

ASSUME BoundsAssumption == ReadSizes \subseteq Nat \ {0} /\ MaxSent \in Nat
ASSUME WireAssumption ==
    /\ Wire \in [Messages -> Seq(Bytes)]
    /\ \A m \in Messages : Wire[m] # <<>>

VARIABLES
    sent,       \* the messages whose packets were written
    writing,    \* the writer's stream is open
    transit,    \* bytes on the way
    reading,    \* the reader's stream is open
    read_buffer,
    received    \* the messages that packet_read returned

vars == <<sent, writing, transit, reading, read_buffer, received>>

TypeOK ==
    /\ sent \in Seq(Messages)
    /\ writing \in BOOLEAN /\ reading \in BOOLEAN
    /\ transit \in Seq(Bytes) /\ read_buffer \in Seq(Bytes)
    /\ received \in Seq({Read(s) : s \in Seq(Bytes)})

Init ==
    /\ sent = <<>> /\ received = <<>>
    /\ writing = TRUE /\ reading = TRUE
    /\ transit = <<>> /\ read_buffer = <<>>

(* packet_write: the socket takes all bytes.                                *)
Write(m) ==
    /\ writing /\ Len(sent) < MaxSent
    /\ sent' = Append(sent, m)
    /\ transit' = transit \o Wire[m]
    /\ UNCHANGED <<writing, reading, read_buffer, received>>

(* Bound: where a write stops.                                              *)
CutPoints(m) == {0, 1, 2, Len(Wire[m]) - 1}

(* Mutant of AfterShortWrite: the stream stays open.                        *)
AfterShortWriteOpen == TRUE

(* close, and RemoteWrite is thrown                                         *)
AfterShortWrite == FALSE

(* The socket takes n bytes only, none when its peer is gone: a timeout or  *)
(* an error.                                                                *)
ShortWrite(m, n) ==
    /\ writing /\ Len(sent) < MaxSent
    /\ n < Len(Wire[m])
    /\ transit' = transit \o SubSeq(Wire[m], 1, n)
    /\ writing' = AfterShortWrite
    /\ UNCHANGED <<sent, reading, read_buffer, received>>

(* The writer's side closes the stream.                                     *)
Close ==
    /\ writing
    /\ writing' = FALSE
    /\ UNCHANGED <<sent, transit, reading, read_buffer, received>>

Complete ==
    /\ PacketLength(read_buffer) # 0
    /\ PacketLength(read_buffer) <= Len(read_buffer)

(* packet_read finds a whole packet in the buffer, and consumes it.         *)
PacketRead ==
    /\ reading /\ Complete
    /\ LET n == PacketLength(read_buffer)
       IN  /\ received' = Append(received, Read(SubSeq(read_buffer, 1, n)))
           /\ read_buffer' = SubSeq(read_buffer, n + 1, Len(read_buffer))
    /\ UNCHANGED <<sent, writing, transit, reading>>

(* read_more: the socket gives n bytes, or all it has.                      *)
ReadMore(n) ==
    /\ reading /\ ~Complete
    /\ n <= Len(transit)
    /\ read_buffer' = read_buffer \o SubSeq(transit, 1, n)
    /\ transit' = SubSeq(transit, n + 1, Len(transit))
    /\ UNCHANGED <<sent, writing, reading, received>>

(* read_more: end of the stream, a timeout or an error; the buffer is       *)
(* cleared and RemoteRead thrown.                                           *)
ReadFails ==
    /\ reading /\ ~Complete
    /\ reading' = FALSE
    /\ read_buffer' = <<>>
    /\ UNCHANGED <<sent, writing, transit, received>>

ReadSome == \E n \in ReadSizes \cup {Len(transit)} : n > 0 /\ ReadMore(n)

Next ==
    \/ \E m \in Messages : Write(m) \/ \E n \in CutPoints(m) : ShortWrite(m, n)
    \/ Close \/ PacketRead \/ ReadSome \/ ReadFails

Spec == Init /\ [][Next]_vars

-----------------------------------------------------------------------------
(* The messages that packet_read returns are the ones written, in order,    *)
(* whole and once, however the socket breaks them into pieces and wherever  *)
(* a write stops; a packet that was not written to its end is not read.     *)
DeliveredExactly ==
    /\ Len(received) <= Len(sent)
    /\ \A i \in 1 .. Len(received) : received[i] = Returned(sent[i])

(* The stream implements Channel: on the way are the messages that were     *)
(* written and not yet returned; the packet of a write that failed is none. *)
Undelivered ==
    [i \in 1 .. Len(sent) - Len(received) |-> Returned(sent[Len(received) + i])]

Pipe == INSTANCE Channel WITH
    Values <- {Returned(m) : m \in Messages},
    queue <- Undelivered,
    got <- received

(* However the bytes are cut, a read returns the message at the head of     *)
(* those on the way, also after the writer has closed, and after a write or *)
(* a read that failed there is no other.                                    *)
ImplementsChannel == Pipe!Spec
=============================================================================
