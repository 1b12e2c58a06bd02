SPECIFICATION FairSpec
CONSTANTS
    BASE = 2
    TYPE_UNIT = 1
    UINT = 128
    Commands <- AllBytes
    Parsed <- Known
INVARIANTS
    TypeOK
    PayloadInBounds
    OneBuffer
PROPERTIES
    ImplementsFraming
    PacketFinished
