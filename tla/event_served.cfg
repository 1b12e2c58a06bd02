CONSTANTS
    Threads = {t1, t2}
    Fds = {1, 2, 3, 4}
    MAX_FD_PER_LOOP = 3
    MAX_EVENT_PER_LOOP = 2
    LOOP_COUNT = 2
    MAX_USER_WATCHES = 3
    NULL = NULL
SPECIFICATION FairSpec
PROPERTY Served
CHECK_DEADLOCK FALSE
