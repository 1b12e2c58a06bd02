CONSTANTS
    Threads = {t1, t2}
    Fds = {1, 2, 3, 4, 5, 6}
    MAX_FD_PER_LOOP = 2
    MAX_EVENT_PER_LOOP = 2
    LOOP_COUNT = 3
    MAX_USER_WATCHES = 5
    NULL = NULL
SPECIFICATION Spec
INVARIANTS TypeOK TableIntact OneServer AllAccounted FaultsExplained
SYMMETRY Sym
CHECK_DEADLOCK FALSE
