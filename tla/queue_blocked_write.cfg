SPECIFICATION Spec
CONSTANTS
    Owner = owner
    Publishers = {p1}
    Cells = {c1, c2}
    NULL = NULL
    MaxMsgs = 2
    Lens = {2}
    UINT = 8
SYMMETRY Symmetric
INVARIANTS
    WholePackets
