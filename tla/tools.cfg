CONSTANTS
    NUM_CORES = 2
    Loads <- SmallLoads
    MaxQueued = 1
    Fds = {3, 4, 5}
    NULL = NULL
SPECIFICATION FairSpec
INVARIANTS IdsDistinct SocketsOwned StatsExact
PROPERTY StopsOnSignal
CHECK_DEADLOCK FALSE
