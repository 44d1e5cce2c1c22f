----------------------------- MODULE MCMMWrap --------------------------------
(* The allocator with an 8-bit size_t, so that malloc's size + wsize wraps  *)
(* at requests the model can enumerate: 248 is SIZE_MAX - 7 at this width.  *)
(* calloc(2, 248) overflows too, and its explicit check must catch it.      *)
EXTENDS MM

MCW_MEM_BASE == 16
MCW_MAX_HEAP == 96
MCW_Arenas == {96}
MCW_CHUNKSIZE == 32
MCW_SEGLIST_LENGTH == 3
MCW_MAX_CHECK == 1
MCW_SIZE_BITS == 8
MCW_Requests == {8, 248}
MCW_CallocCounts == {2}
MCW_CallocSizes == {8}
=============================================================================
