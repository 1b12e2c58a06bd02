SPECIFICATION Spec
CONSTANTS
    t1 = t1
    t2 = t2
    c1 = c1
    c2 = c2
    A = A
    B = B
    NULL = NULL
    Threads = {t1}
    Clients = {c1}
    Loop <- Alone
    IdsOf <- AloneId
    FiltersOf <- ManyFilters
    Topics <- ManyTopics
    Dollar <- Dollars
    OOM = FALSE
INVARIANTS
    OnlyMatching
    NoneMissed
