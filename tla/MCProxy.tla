------------------------------- MODULE MCProxy --------------------------------
(***************************************************************************)
(* Proxy for TLC.  Two threads let a reader hold a block while the other *)
(* evicts it; three (MC_Threads3: two readers of one block and an         *)
(* evictor) are needed to free a block under a reader.  Three keys, since *)
(* eviction needs a miss while two blocks are cached; four block          *)
(* addresses: the cached blocks plus one evicted while read.  The sizes   *)
(* keep the code's ratio where it matters: MAX_CACHE_SIZE above twice     *)
(* MAX_OBJECT_SIZE (1 MiB and 100 KiB in cache.c).                        *)
(***************************************************************************)
EXTENDS Proxy, TLC

CONSTANTS t1, t2, t3, k1, k2, k3, b1, b2, b3, b4

MC_Threads == {t1, t2}
MC_Threads3 == {t1, t2, t3}
MC_Keys == {k1, k2, k3}
MC_BlockIds == {b1, b2, b3, b4}
MC_MAX_OBJECT_SIZE == 1
MC_MAX_CACHE_SIZE == 3

\* Besides what the last cache block at an address left: 0 or 1 left by
\* another object (MC_UninitRefcnt), or nothing else (MC_CacheOnly), so
\* that a stale count can only come from a recycled cache block.
MC_UninitRefcnt == {0, 1}
MC_CacheOnly == {}

Symm == Permutations(MC_Threads) \cup Permutations(MC_Keys) \cup Permutations(MC_BlockIds)
=============================================================================
