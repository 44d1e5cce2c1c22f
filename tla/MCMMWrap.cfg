CONSTANTS
    MEM_BASE <- MCW_MEM_BASE
    MAX_HEAP <- MCW_MAX_HEAP
    Arenas <- MCW_Arenas
    CHUNKSIZE <- MCW_CHUNKSIZE
    SEGLIST_LENGTH <- MCW_SEGLIST_LENGTH
    MAX_CHECK <- MCW_MAX_CHECK
    SIZE_BITS <- MCW_SIZE_BITS
    Requests <- MCW_Requests
    CallocCounts <- MCW_CallocCounts
    CallocSizes <- MCW_CallocSizes
    UNINIT = UNINIT
SPECIFICATION Spec
INVARIANT AllocatedIsLive
