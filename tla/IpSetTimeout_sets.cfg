SPECIFICATION MCSpec
INVARIANTS TablesSound FullMeansAllAlive NoStrayGc FoundInTime ExpiredGo
CONSTANTS
    a = a
    b = b
    c = c
    Elem = {a, b}
    jhash2 <- MCHashPair
    AHASH_INIT_SIZE = 1
    AHASH_MAX = 2
    InitBits = 0
    MaxBits = 0
    maxelem = 2
    Timeout = {0, 2, 6}
    HZ = 1
    MSEC_PER_SEC = 2
    U32 = 10
    J = 12
    GC_PERIOD = 1
    GcDelay = 1
    Watched = {a}
    NULL = NULL
