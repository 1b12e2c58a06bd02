SPECIFICATION Spec
CONSTANTS
    BASE = 3
    TYPE_UNIT = 2
    UINT = 512
    BYTE = 3
    MaxLen = 28
INVARIANTS
    TypeOK
    StringsInside
    HandlerHasAll
    WriteFits
    Readable
