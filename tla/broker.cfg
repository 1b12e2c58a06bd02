SPECIFICATION Spec
CONSTANTS
    exact = exact
    hash = hash
    below = below
    a = a
    Threads = {t1, t2}
    Slots = {c1, c2}
    NULL = NULL
    Ids = {A, B}
    Filters = {exact, hash, below}
    Topics = {a}
    Matches <- MatchA
    Hides <- HideAll
    MaxConns = 3
    MaxPublished = 2
    MaxRequests = 4
    MaxEvents = 7
INVARIANTS
    TypeOK
    InOrder
    Reached
    Isolated
    FirstAnswerCounted
SYMMETRY Symmetric
