SPECIFICATION FairSpec
CONSTANTS
    Owner = owner
    Publishers = {p1, p2}
    Cells = {c1, c2, c3}
    NULL = NULL
    MaxMsgs = 3
    Lens = {2}
    UINT = 8
INVARIANTS
    TypeOK
    CurrentAllocated
    ListIntact
    CountBounded
    NoGap
PROPERTIES
    ImplementsOutbox
    EventuallyTaken
