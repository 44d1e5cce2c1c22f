\* insert never initialises refcnt (cache.c:310-319): a block malloc
\* recycles from a freed cache block starts with the count it left.
CONSTANTS
    t1 = t1  t2 = t2  t3 = t3
    k1 = k1  k2 = k2  k3 = k3
    b1 = b1  b2 = b2  b3 = b3  b4 = b4
    NULL = NULL
    Threads <- MC_Threads3
    Keys <- MC_Keys
    BlockIds <- MC_BlockIds
    MAX_OBJECT_SIZE <- MC_MAX_OBJECT_SIZE
    MAX_CACHE_SIZE <- MC_MAX_CACHE_SIZE
    UninitRefcnt <- MC_CacheOnly
SPECIFICATION Spec
SYMMETRY Symm
CHECK_DEADLOCK FALSE
INVARIANT RefcntCountsReaders
