CONSTANTS
    MEM_BASE <- MC_MEM_BASE
    MAX_HEAP <- MC_MAX_HEAP
    Arenas <- MC_Arenas
    CHUNKSIZE <- MC_CHUNKSIZE
    SEGLIST_LENGTH <- MC_SEGLIST_LENGTH
    MAX_CHECK <- MC_MAX_CHECK
    SIZE_BITS <- MC_SIZE_BITS
    Requests <- MC_Requests
    CallocCounts <- MC_CallocCounts
    CallocSizes <- MC_CallocSizes
    UNINIT = UNINIT

SPECIFICATION Spec

INVARIANT TypeOK
INVARIANT HeapTiled
INVARIANT PrevAllocAccurate
INVARIANT NoAdjacentFree
INVARIANT BoundaryTagsSound
INVARIANT FreeListsMatchHeap
INVARIANT AllocatedIsLive
INVARIANT PayloadIntact
INVARIANT MallocFailsOnlyWhenFull
INVARIANT FailureIsClean
INVARIANT CheckheapVerdict
