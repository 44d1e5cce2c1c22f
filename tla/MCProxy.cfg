\* Proxy threads over the cache: list structure, size accounting and
\* eviction safety under every interleaving of hits, misses and inserts.
CONSTANTS
    t1 = t1  t2 = t2  t3 = t3
    k1 = k1  k2 = k2  k3 = k3
    b1 = b1  b2 = b2  b3 = b3  b4 = b4
    NULL = NULL
    Threads <- MC_Threads
    Keys <- MC_Keys
    BlockIds <- MC_BlockIds
    MAX_OBJECT_SIZE <- MC_MAX_OBJECT_SIZE
    MAX_CACHE_SIZE <- MC_MAX_CACHE_SIZE
    UninitRefcnt <- MC_UninitRefcnt
SPECIFICATION Spec
SYMMETRY Symm
\* The process stops when it aborts on a double free, and inserts stop
\* once every address of BlockIds is in use.
CHECK_DEADLOCK FALSE
INVARIANTS
    TypeOK
    ListWellFormed
    SizeAccounted
    EvictionSafe
PROPERTY
    LRUBehaviour
