\* Two readers hold a block when it is evicted; the first decrement_ref
\* frees it under the second (cache.c:193 tests `dead && refcnt`).
CONSTANTS
    t1 = t1  t2 = t2  t3 = t3
    k1 = k1  k2 = k2  k3 = k3
    b1 = b1  b2 = b2  b3 = b3  b4 = b4
    NULL = NULL
    Threads <- MC_Threads3
    Keys <- MC_Keys
    BlockIds <- MC_BlockIds
    MAX_OBJECT_SIZE <- MC_MAX_OBJECT_SIZE
    MAX_CACHE_SIZE <- MC_MAX_CACHE_SIZE
    UninitRefcnt <- MC_CacheOnly
SPECIFICATION Spec
SYMMETRY Symm
CHECK_DEADLOCK FALSE
INVARIANT NoUseAfterFree
