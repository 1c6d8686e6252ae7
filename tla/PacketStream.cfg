CONSTANTS
    Messages <- CompactMessages
    Bytes <- Byte
    Wire <- CompactWire
    Read <- Deserialize
    PacketLength <- GetLength
    Returned <- CompactReturned
    ReadSizes <- OneByte
    MaxSent = 2
SPECIFICATION Spec
PROPERTIES
    ImplementsChannel
CHECK_DEADLOCK FALSE
