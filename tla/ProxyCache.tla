----------------------------- MODULE ProxyCache ------------------------------
(***************************************************************************)
(* The LRU cache of src/proxy/cache.c.                                     *)
(*                                                                         *)
(* Cache blocks are the model values BlockIds: the addresses malloc may    *)
(* hand out for a cache_block_t (with its payload and strings, which are   *)
(* allocated and freed together).  The list is kept exactly as the code    *)
(* keeps it: head, tail and every block's prev and next pointers.  Each    *)
(* function of cache.c is an operator from a cache record to a new one, so *)
(* a caller's step can run a whole call; a memory error the code would    *)
(* commit (a NULL dereference, a free of freed memory, an endless          *)
(* makeSpace) is recorded in the field fault and ends the process.         *)
(***************************************************************************)
EXTENDS Integers, Sequences, FiniteSets

CONSTANTS
    Keys,             \* (host, port, path) triples the clients ask for
    BlockIds,         \* addresses malloc can return for a cache block
    MAX_OBJECT_SIZE,  \* 100 * 1024 in the code
    MAX_CACHE_SIZE,   \* 1024 * 1024 in the code
    UninitRefcnt,     \* refcnt values left by other objects in memory malloc reuses
    NULL

ASSUME NULL \notin BlockIds
ASSUME MAX_OBJECT_SIZE \in Nat /\ MAX_CACHE_SIZE \in Nat
ASSUME UninitRefcnt \subseteq Int

VARIABLES
    head, tail,     \* most and least recently used block, NULL when empty
    prv, nxt,       \* block -> its prev and next pointers
    bkey, bsize,    \* block -> the key it caches and its payload size
    refcnt, dead,   \* block -> readers of its payload; evicted while read
    allocated,      \* blocks malloc has handed out and nobody has freed
    cache_size,     \* sum of the sizes of the listed blocks
    fault           \* "none", or the memory error the process died of

cache_vars == <<head, tail, prv, nxt, bkey, bsize, refcnt, dead, allocated,
                cache_size, fault>>

Faults == {"none", "segv", "double_free", "hang"}
Sizes == 0 .. MAX_OBJECT_SIZE

\* The cache as one record; freed collects the blocks a call frees.
Cache == [head |-> head, tail |-> tail, prv |-> prv, nxt |-> nxt,
          bkey |-> bkey, bsize |-> bsize, refcnt |-> refcnt, dead |-> dead,
          allocated |-> allocated, cache_size |-> cache_size, fault |-> fault,
          freed |-> {}]

SetCache(c) ==
    /\ head' = c.head /\ tail' = c.tail /\ prv' = c.prv /\ nxt' = c.nxt
    /\ bkey' = c.bkey /\ bsize' = c.bsize /\ refcnt' = c.refcnt /\ dead' = c.dead
    /\ allocated' = c.allocated /\ cache_size' = c.cache_size /\ fault' = c.fault

\* What an unwritten key field holds; it is never read before written.
AnyKey == CHOOSE k \in Keys : TRUE

\* init_cache; block memory starts out as it was (fresh: zero, not dead).
CacheInit ==
    /\ head = NULL /\ tail = NULL
    /\ prv = [b \in BlockIds |-> NULL] /\ nxt = [b \in BlockIds |-> NULL]
    /\ bkey = [b \in BlockIds |-> AnyKey] /\ bsize = [b \in BlockIds |-> 0]
    /\ refcnt = [b \in BlockIds |-> 0] /\ dead = [b \in BlockIds |-> FALSE]
    /\ allocated = {} /\ cache_size = 0 /\ fault = "none"

Crash(c, why) == [c EXCEPT !.fault = why]

\* free(): glibc aborts on a block that is already free.  Of a freed
\* block's memory only refcnt and dead are read again (by a late
\* decrement_ref); its other fields are reset, which no step can observe.
free_mem(c, b) ==
    IF b \notin c.allocated THEN Crash(c, "double_free")
    ELSE [c EXCEPT !.allocated = @ \ {b}, !.freed = @ \cup {b},
                   !.bkey[b] = AnyKey, !.bsize[b] = 0,
                   !.prv[b] = NULL, !.nxt[b] = NULL]

-----------------------------------------------------------------------------
(* The list (cache.c 119-167).                                             *)

insert_head(c, b) ==
    IF c.head = NULL
    THEN [c EXCEPT !.head = b, !.tail = b, !.prv[b] = NULL, !.nxt[b] = NULL]
    ELSE [c EXCEPT !.prv[c.head] = b, !.nxt[b] = c.head, !.prv[b] = NULL, !.head = b]

\* Mutant: the tail branch forgets `tail = prev`.
visit_keep_tail(c, b) ==
    LET prev == c.prv[b]
        next == c.nxt[b]
    IN  CASE b = c.head -> c
          [] b = c.tail -> insert_head([c EXCEPT !.nxt[prev] = NULL], b)
          [] OTHER      -> insert_head([c EXCEPT !.nxt[prev] = next, !.prv[next] = prev], b)

visit(c, b) ==
    LET prev == c.prv[b]
        next == c.nxt[b]
    IN  CASE b = c.head -> c
          [] b = c.tail -> insert_head([c EXCEPT !.nxt[prev] = NULL, !.tail = prev], b)
          [] OTHER      -> insert_head([c EXCEPT !.nxt[prev] = next, !.prv[next] = prev], b)

-----------------------------------------------------------------------------
(* Reference counts (cache.c 70-88, 174-198).                              *)

\* Frees host, path and port; the payload and block only if unread.
free_block(c, b) ==
    IF c.refcnt[b] = 0 THEN free_mem(c, b) ELSE [c EXCEPT !.dead[b] = TRUE]

increment_ref(c, b) == [c EXCEPT !.refcnt[b] = @ + 1]

\* The test reads `dead && refcnt`, as written in the code.
decrement_ref(c, b) ==
    LET Check(c1) == IF c1.dead[b] /\ c1.refcnt[b] /= 0 THEN free_mem(c1, b) ELSE c1
    IN  Check([c EXCEPT !.refcnt[b] = @ - 1])

-----------------------------------------------------------------------------
(* Lookup, eviction and insertion (cache.c 212-324).                       *)

\* The walk from head along next pointers to the first block with key k.
RECURSIVE find_block(_, _, _, _)
find_block(c, block, k, fuel) ==
    CASE block = NULL \/ fuel = 0 -> NULL
      [] c.bkey[block] = k        -> block
      [] OTHER                    -> find_block(c, c.nxt[block], k, fuel - 1)

\* in_cache: on a hit the block is visited and its refcnt raised.
in_cache(c, k) ==
    LET Hit(b) == IF b = NULL THEN [st |-> c, blk |-> NULL]
                  ELSE [st |-> increment_ref(visit(c, b), b), blk |-> b]
    IN  Hit(find_block(c, c.head, k, Cardinality(BlockIds)))

\* Mutant: cache_size is not lowered by the evicted block's size.
removeLRU_no_size(c) ==
    LET removed == c.tail
        prev    == c.prv[removed]
    IN  CASE removed = NULL -> c
          [] prev = NULL    -> Crash(c, "segv")
          [] OTHER -> free_block([c EXCEPT !.nxt[prev] = NULL, !.tail = prev], removed)

\* `(tail->prev)->next = NULL` faults when the tail is the only block.
removeLRU(c) ==
    LET removed == c.tail
        prev    == c.prv[removed]
    IN  CASE removed = NULL -> c
          [] prev = NULL    -> Crash(c, "segv")
          [] OTHER -> free_block([c EXCEPT !.nxt[prev] = NULL, !.tail = prev,
                                           !.cache_size = @ - c.bsize[removed]],
                                 removed)

\* The loop spins forever once the list is empty and there is no room.
RECURSIVE makeSpace_loop(_, _, _)
makeSpace_loop(c, space, fuel) ==
    CASE c.fault /= "none"                     -> c
      [] MAX_CACHE_SIZE - c.cache_size > space -> c
      [] fuel = 0                              -> Crash(c, "hang")
      [] OTHER -> makeSpace_loop(removeLRU(c), space, fuel - 1)

makeSpace(c, space) == makeSpace_loop(c, space, Cardinality(BlockIds) + 1)

\* What the never-written refcnt of a block malloc returns at b holds: the
\* count the last cache_block_t at b left there (0 for memory no cache
\* block has used, since the heap starts zeroed), or a value another
\* object left in that memory.
LeftRefcnt(c, b) == {c.refcnt[b]} \cup UninitRefcnt

\* Mutant: insert forgets `cache_size += block->size`.
new_block_no_size(c, b, k, size, r) ==
    insert_head([c EXCEPT !.allocated = @ \cup {b}, !.bkey[b] = k, !.bsize[b] = size,
                          !.dead[b] = FALSE, !.refcnt[b] = r], b)

\* The new block's fields; refcnt is never written, so it keeps r.
new_block(c, b, k, size, r) ==
    insert_head([c EXCEPT !.allocated = @ \cup {b}, !.bkey[b] = k, !.bsize[b] = size,
                          !.dead[b] = FALSE, !.refcnt[b] = r,
                          !.cache_size = @ + size], b)

\* Mutant: insert without its in_cache check.
insert_no_lookup(c, k, size) ==
    LET Room(c1) ==
            IF c1.fault /= "none" THEN {c1}
            ELSE UNION {{new_block(c1, b, k, size, r) : r \in LeftRefcnt(c1, b)} :
                        b \in BlockIds \ c1.allocated}
    IN  Room(makeSpace(c, size))

\* insert: every outcome, one per block address malloc may return and
\* per value its uninitialised refcnt may hold.
insert(c, k, size) ==
    LET Present(h) == decrement_ref(h.st, h.blk)
        Room(c1) ==
            IF c1.fault /= "none" THEN {c1}
            ELSE UNION {{new_block(c1, b, k, size, r) : r \in LeftRefcnt(c1, b)} :
                        b \in BlockIds \ c1.allocated}
        Lookup(h) == IF h.blk /= NULL THEN {Present(h)} ELSE Room(makeSpace(c, size))
    IN  Lookup(in_cache(c, k))

-----------------------------------------------------------------------------
(* The list as mm-style walks, for the properties.                         *)

\* Blocks from head along next pointers.
RECURSIVE ListFrom(_, _)
ListFrom(b, fuel) ==
    IF b = NULL \/ fuel = 0 THEN <<>> ELSE <<b>> \o ListFrom(nxt[b], fuel - 1)

List == ListFrom(head, Cardinality(BlockIds) + 1)
Listed == {List[i] : i \in DOMAIN List}

=============================================================================
