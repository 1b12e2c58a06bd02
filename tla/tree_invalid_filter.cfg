SPECIFICATION Spec
CONSTANTS
    t1 = t1
    t2 = t2
    c1 = c1
    c2 = c2
    A = A
    B = B
    NULL = NULL
    Threads = {t1, t2}
    Clients = {c1, c2}
    Loop <- OneEach
    IdsOf <- OwnIds
    FiltersOf <- Below
    Topics <- TopicA
    Dollar <- Dollars
    OOM = FALSE
INVARIANTS
    NoneMissed
