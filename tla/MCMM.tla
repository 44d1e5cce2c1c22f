------------------------------- MODULE MCMM ---------------------------------
(* The allocator in a 96-byte arena: the prologue/epilogue pair and up to *)
(* 80 bytes of blocks, grown in 32-byte chunks; three seglists (16, 32-63, *)
(* 64 and up, the last one clamped) and a lookahead of one.  Requests of 8 *)
(* and 40 bytes make 16- and 48-byte blocks, so that mini blocks, splits   *)
(* into 32-byte remainders, both coalescing directions, heap growth and   *)
(* its failure, the fallback to a larger list and find_fit's early return *)
(* all occur.  size_t has 8 bits, so calloc(2, 136) wraps to 16 bytes and *)
(* only calloc's overflow check refuses it; the other requests stay far  *)
(* below the wrap.  A second build has a 32-byte arena, where mm_init's   *)
(* first chunk does not fit and every later call works from that failure. *)
EXTENDS MM

MC_MEM_BASE == 16
MC_MAX_HEAP == 96
MC_Arenas == {32, 96}
MC_CHUNKSIZE == 32
MC_SEGLIST_LENGTH == 3
MC_MAX_CHECK == 1
MC_SIZE_BITS == 8
MC_Requests == {8, 40}
MC_CallocCounts == {2}
MC_CallocSizes == {8, 40, 136}
=============================================================================
