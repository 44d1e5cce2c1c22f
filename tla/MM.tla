-------------------------------- MODULE MM ----------------------------------
(***************************************************************************)
(* The segregated-free-list allocator of src/malloc/mm.c, modelled at the  *)
(* level of 8-byte heap words.                                             *)
(*                                                                         *)
(* The heap is the function mem from word addresses of the memlib arena to *)
(* word values.  Headers, footers and free-list links are integers that    *)
(* hold the same bits the C code packs into them: a block size in the     *)
(* bits above 0xF, the allocated bit (0x1), the previous-allocated bit     *)
(* (0x2) and the mini bit (0x4); a free mini block keeps its predecessor   *)
(* pointer in the upper bits of its header and its successor, or-ed with   *)
(* the mini bit, in its one payload word.  Every C helper is an operator   *)
(* from an allocator state to a new state (and, where the C function       *)
(* returns one, a result), so a public call is one step that performs the *)
(* whole handler.                                                          *)
(*                                                                         *)
(* The client of the allocator (the mdriver) is part of each step: after a *)
(* successful malloc it fills the requested bytes with its own data, the   *)
(* negated payload address, so that a later overwrite by the allocator is  *)
(* visible; live records what every live payload must still contain.      *)
(***************************************************************************)
EXTENDS Integers, Sequences, FiniteSets, Functions

CONSTANTS
    MEM_BASE,       \* mem_heap_lo(): first byte of the memlib arena
    MAX_HEAP,       \* largest memlib arena in bytes: the words mem has
    Arenas,         \* arena sizes memlib may be built with (mem_sbrk fails past it)
    CHUNKSIZE,      \* chunksize, 1 << 12 in the code
    SEGLIST_LENGTH, \* seglist_length, 15 in the code
    MAX_CHECK,      \* max_check of find_fit, 9 in the code
    SIZE_BITS,      \* width of size_t, 64 in the code
    Requests,       \* byte counts the client passes to malloc and realloc
    CallocCounts,   \* element counts the client passes to calloc
    CallocSizes,    \* element sizes the client passes to calloc
    UNINIT          \* content of arena words nobody has written yet

ASSUME MEM_BASE % 16 = 0 /\ MEM_BASE > 0
ASSUME MAX_HEAP % 16 = 0 /\ CHUNKSIZE % 16 = 0
ASSUME \A a \in Arenas : a % 16 = 0 /\ 16 <= a /\ a <= MAX_HEAP
ASSUME SEGLIST_LENGTH \in Nat \ {0} /\ MAX_CHECK \in Nat
\* Client data is written word by word: requests are whole words.
ASSUME \A r \in Requests \cup {e * n : e \in CallocCounts, n \in CallocSizes} : r % 8 = 0

VARIABLES
    mem,         \* word address -> word value
    free_root,   \* free_root[i]: head of seglist i, NULL when empty
    brk,         \* mem_brk: one past the last byte of the heap
    heap_start,  \* heap_start: first block header, NULL before mm_init
    live,        \* client view: payload address -> words it must hold
    arena        \* the size of this build's memlib arena

vars == <<mem, free_root, brk, heap_start, live, arena>>

NULL == 0
wsize == 8
dsize == 16
min_block_size == dsize
alloc_mask == 1
alloc_prev_mask == 2
mini_mask == 4
SIZE_MOD == 2^SIZE_BITS

Addr == {MEM_BASE + wsize * i : i \in 0 .. (MAX_HEAP \div wsize) - 1}
HeapEnd == MEM_BASE + arena

-----------------------------------------------------------------------------
(* Short helpers: arithmetic and bit packing (mm.c lines 183-419).         *)

max(x, y) == IF x > y THEN x ELSE y
min(x, y) == IF x < y THEN x ELSE y

\* n * ((size + (n - 1)) / n), in size_t arithmetic
round_up(size, n) == (n * (((size + (n - 1)) % SIZE_MOD) \div n)) % SIZE_MOD

\* The bit of w selected by a one-bit mask, and w with that bit set to on.
HasBit(w, mask) == (w \div mask) % 2 = 1
WithBit(w, mask, on) ==
    w - (IF HasBit(w, mask) THEN mask ELSE 0) + (IF on THEN mask ELSE 0)

\* size is a multiple of 16, so or-ing in the flag bits is adding them
pack(size, alloc, prev_alloc) ==
    size + (IF alloc THEN alloc_mask ELSE 0)
         + (IF prev_alloc THEN alloc_prev_mask ELSE 0)
         + (IF size = min_block_size THEN mini_mask ELSE 0)

\* word & size_mask, size_mask = ~0xF
extract_size(w) == w - (w % 16)
extract_alloc(w) == HasBit(w, alloc_mask)
extract_prev_alloc(w) == HasBit(w, alloc_prev_mask)
extract_mini(w) == HasBit(w, mini_mask)

get_size(m, b) ==
    IF extract_mini(m[b]) THEN min_block_size ELSE extract_size(m[b])
get_alloc(m, b) == extract_alloc(m[b])
get_prev_alloc(m, b) == extract_prev_alloc(m[b])
get_mini(m, b) == extract_mini(m[b])
get_payload_size(m, b) == get_size(m, b) - wsize

set_prev_alloc(m, b, prev_alloc) ==
    [m EXCEPT ![b] = WithBit(@, alloc_prev_mask, prev_alloc)]

header_to_footer(m, b) == b + wsize + get_size(m, b) - dsize
footer_to_header(m, f) == f + wsize - extract_size(m[f])


write_epilogue(m, b) == [m EXCEPT ![b] = pack(0, TRUE, FALSE)]

\* Mutant: the footer of a free block is never written.
write_block_no_footer(m, b, size, alloc, prev_alloc) ==
    [m EXCEPT ![b] = pack(size, alloc, prev_alloc)]

\* The header, and for a free block that is not mini the footer as well.
write_block(m, b, size, alloc, prev_alloc) ==
    LET m1 == [m EXCEPT ![b] = pack(size, alloc, prev_alloc)]
    IN  IF ~alloc /\ size /= min_block_size
        THEN [m1 EXCEPT ![header_to_footer(m1, b)] = pack(size, alloc, prev_alloc)]
        ELSE m1

write_footer(m, b) == [m EXCEPT ![header_to_footer(m, b)] = m[b]]

find_next(m, b) == b + get_size(m, b)

\* The word before a header is the successor word of a free mini block
\* (mini bit set) or the footer of a free block; size 0 is the prologue.
find_prev(m, b) ==
    LET f == b - wsize
    IN  CASE extract_mini(m[f])     -> f - wsize
          [] extract_size(m[f]) = 0 -> NULL
          [] OTHER                  -> footer_to_header(m, f)

-----------------------------------------------------------------------------
(* Explicit lists (mm.c lines 532-690).  Block addresses are multiples of  *)
(* 8, so `p & ~0x7` is p - (p % 8) and `(h & 0x7) | p` is (h % 8) + p.         *)

ClearLow3(w) == w - (w % 8)

get_next_free(m, b) == ClearLow3(m[b + wsize])

RECURSIVE BitLength(_)
BitLength(x) == IF x = 0 THEN 0 ELSE 1 + BitLength(x \div 2)

get_seglist_ind(size) ==
    LET count == IF size <= 16 THEN 1 ELSE BitLength(size \div 16)
    IN  min(count - 1, SEGLIST_LENGTH - 1)

get_prev_free(m, b) ==
    IF get_mini(m, b) THEN ClearLow3(m[b]) ELSE m[b + 2 * wsize]

set_prev_free(m, b, prev) ==
    IF get_mini(m, b) THEN [m EXCEPT ![b] = (@ % 8) + prev]
                      ELSE [m EXCEPT ![b + 2 * wsize] = prev]

set_next_free(m, b, next) ==
    [m EXCEPT ![b + wsize] = next + (IF get_mini(m, b) THEN mini_mask ELSE 0)]

\* An allocator state: heap words, seglist roots, break and heap_start.
State(m, root, top, start) == [mem |-> m, root |-> root, brk |-> top, start |-> start]
WithMem(s, m) == [s EXCEPT !.mem = m]

\* Mutant: a new list head keeps its stale predecessor link.
remove_from_free_keep_prev(s, b) ==
    LET m    == s.mem
        prev == get_prev_free(m, b)
        next == get_next_free(m, b)
        ind  == get_seglist_ind(get_size(m, b))
    IN  CASE next = NULL /\ prev = NULL -> [s EXCEPT !.root[ind] = NULL]
          [] next = NULL -> WithMem(s, set_next_free(m, prev, NULL))
          [] prev = NULL -> [s EXCEPT !.root[ind] = next]
          [] OTHER -> WithMem(s, set_prev_free(set_next_free(m, prev, next), next, prev))

\* Mutant: a list's last block is taken off without clearing its root.
remove_from_free_keep_root(s, b) ==
    LET m    == s.mem
        prev == get_prev_free(m, b)
        next == get_next_free(m, b)
        ind  == get_seglist_ind(get_size(m, b))
    IN  CASE next = NULL /\ prev = NULL -> s
          [] next = NULL -> WithMem(s, set_next_free(m, prev, NULL))
          [] prev = NULL -> [s EXCEPT !.mem = set_prev_free(m, next, NULL), !.root[ind] = next]
          [] OTHER -> WithMem(s, set_prev_free(set_next_free(m, prev, next), next, prev))

remove_from_free(s, b) ==
    LET m    == s.mem
        prev == get_prev_free(m, b)
        next == get_next_free(m, b)
        ind  == get_seglist_ind(get_size(m, b))
    IN  CASE next = NULL /\ prev = NULL ->
                 [s EXCEPT !.root[ind] = NULL]
          [] next = NULL ->
                 WithMem(s, set_next_free(m, prev, NULL))
          [] prev = NULL ->
                 [s EXCEPT !.mem = set_prev_free(m, next, NULL), !.root[ind] = next]
          [] OTHER ->
                 WithMem(s, set_prev_free(set_next_free(m, prev, next), next, prev))

add_to_free(s, b) ==
    LET ind  == get_seglist_ind(get_size(s.mem, b))
        head == s.root[ind]
    IN  IF head = NULL
        THEN [s EXCEPT !.root[ind] = b,
                       !.mem = set_next_free(set_prev_free(s.mem, b, NULL), b, NULL)]
        ELSE [s EXCEPT !.root[ind] = b,
                       !.mem = set_prev_free(set_next_free(set_prev_free(s.mem, head, b),
                                                           b, head), b, NULL)]


-----------------------------------------------------------------------------
(* Coalescing, heap growth, splitting and fit finding (mm.c 713-945).      *)

\* The four neighbour cases; sizes are read before any list is touched.
\* Merge removes the parts from their lists in the code's order, then
\* writes and lists the merged block.
coalesce_block(s, b) ==
    LET m            == s.mem
        prev_alloced == get_prev_alloc(m, b)
        next         == find_next(m, b)
        next_alloced == get_alloc(m, next)
        prev         == find_prev(m, b)
        Merge(s1, into, new_size) ==
            [st  |-> add_to_free(WithMem(s1, write_block(s1.mem, into, new_size, FALSE, TRUE)), into),
             blk |-> into]
    IN  CASE ~next_alloced /\ ~prev_alloced ->
                 Merge(remove_from_free(remove_from_free(remove_from_free(s, prev), next), b),
                       prev, get_size(m, prev) + get_size(m, b) + get_size(m, next))
          [] ~next_alloced ->
                 Merge(remove_from_free(remove_from_free(s, next), b),
                       b, get_size(m, next) + get_size(m, b))
          [] ~prev_alloced ->
                 Merge(remove_from_free(remove_from_free(s, prev), b),
                       prev, get_size(m, b) + get_size(m, prev))
          [] OTHER -> [st |-> s, blk |-> b]

\* memlib's mem_sbrk: incr is read as intptr_t and must not pass the arena.
sbrk_ok(s, incr) == incr < 2^(SIZE_BITS - 1) /\ s.brk + incr <= HeapEnd

\* The new block starts at the old epilogue, whose prev-alloc bit it keeps;
\* it is listed, the epilogue is rewritten after it, and it is coalesced.
extend_heap(s, size) ==
    LET sz    == round_up(size, dsize)
        block == s.brk - wsize
        Listed(s0) ==
            add_to_free(WithMem(s0, write_block(s0.mem, block, sz, FALSE,
                                                get_prev_alloc(s0.mem, block))), block)
        Closed(s1) == WithMem(s1, write_epilogue(s1.mem, find_next(s1.mem, block)))
    IN  IF ~sbrk_ok(s, sz)
        THEN [st |-> s, blk |-> NULL]
        ELSE coalesce_block(Closed(Listed([s EXCEPT !.brk = @ + sz])), block)

\* Mutant: the remainder is placed by the size the block had before the split.
split_block_next_first(s, b, asize) ==
    LET block_size == get_size(s.mem, b)
        block_next == find_next(s.mem, b)
        Rest(m1) == add_to_free(WithMem(s, write_block(m1, block_next, block_size - asize,
                                                       FALSE, TRUE)), block_next)
    IN  IF block_size - asize >= min_block_size
        THEN Rest(write_block(s.mem, b, asize, TRUE, TRUE))
        ELSE s

split_block(s, b, asize) ==
    LET block_size == get_size(s.mem, b)
        Rest(m1) ==
            LET block_next == find_next(m1, b)
            IN  add_to_free(WithMem(s, write_block(m1, block_next, block_size - asize,
                                                   FALSE, TRUE)), block_next)
    IN  IF block_size - asize >= min_block_size
        THEN Rest(write_block(s.mem, b, asize, TRUE, TRUE))
        ELSE s

\* The home-list scan: the smallest fitting block, returned early once a
\* fitting block is met after more than MAX_CHECK blocks were looked at.
RECURSIVE scan_seglist(_, _, _, _, _)
scan_seglist(m, asize, block, minb, checked) ==
    IF block = NULL THEN minb
    ELSE IF asize <= get_size(m, block)
         THEN LET m1 == IF minb = NULL THEN block ELSE minb
                  m2 == IF get_size(m, block) < get_size(m, m1) THEN block ELSE m1
              IN  IF checked > MAX_CHECK THEN m2
                  ELSE scan_seglist(m, asize, get_next_free(m, block), m2, checked + 1)
         ELSE scan_seglist(m, asize, get_next_free(m, block), minb, checked + 1)

\* Mutant: no fallback; only the home list is searched.
find_fit_no_fallback(s, asize) ==
    scan_seglist(s.mem, asize, s.root[get_seglist_ind(asize)], NULL, 0)

\* Mutant: the fallback also takes the head of the home list.
find_fit_home_fallback(s, asize) ==
    LET ind    == get_seglist_ind(asize)
        larger == {i \in ind .. SEGLIST_LENGTH - 1 : s.root[i] /= NULL}
        Pick(home) == CASE home /= NULL -> home
                        [] larger = {}  -> NULL
                        [] OTHER        -> s.root[CHOOSE i \in larger : \A j \in larger : i <= j]
    IN  Pick(scan_seglist(s.mem, asize, s.root[ind], NULL, 0))

\* Otherwise the head of the first non-empty larger list.
find_fit(s, asize) ==
    LET ind    == get_seglist_ind(asize)
        larger == {i \in ind + 1 .. SEGLIST_LENGTH - 1 : s.root[i] /= NULL}
        Pick(home) == CASE home /= NULL -> home
                        [] larger = {}  -> NULL
                        [] OTHER        -> s.root[CHOOSE i \in larger : \A j \in larger : i <= j]
    IN  Pick(scan_seglist(s.mem, asize, s.root[ind], NULL, 0))

\* Mutant: the next block's prev-alloc bit is left as it was.
update_next_keep_bit(m, b, alloc) ==
    IF ~alloc /\ ~get_mini(m, b) THEN write_footer(m, b) ELSE m

update_next(m, b, alloc) ==
    LET m1 == set_prev_alloc(m, find_next(m, b), alloc)
    IN  IF ~alloc /\ ~get_mini(m1, b) THEN write_footer(m1, b) ELSE m1


-----------------------------------------------------------------------------
(* Public operations (mm.c 1203-1459).                                     *)

\* Mutant: the loop runs to i <= seglist_length.
free_root_init_inclusive == [i \in 0 .. SEGLIST_LENGTH |-> NULL]

free_root_init == [i \in 0 .. SEGLIST_LENGTH - 1 |-> NULL]

\* Mutant: heap_start is set only once the first chunk is in place, so a
\* failed mm_init leaves it NULL and the next malloc runs mm_init again.
mm_init_late_start(s) ==
    LET s0    == [s EXCEPT !.root = free_root_init]
        start == s.brk
        Result(e) == [st |-> IF e.blk = NULL THEN [e.st EXCEPT !.start = NULL] ELSE e.st,
                      ok |-> e.blk /= NULL]
    IN  IF ~sbrk_ok(s, 2 * wsize) THEN [st |-> s0, ok |-> FALSE]
        ELSE Result(extend_heap(
                 [s0 EXCEPT !.brk   = @ + 2 * wsize,
                            !.mem   = [@ EXCEPT ![start]         = pack(0, TRUE, TRUE),
                                                ![start + wsize] = pack(0, TRUE, TRUE)],
                            !.start = start + wsize],
                 CHUNKSIZE))

\* free_root_init runs before the first mem_sbrk is checked.
mm_init(s) ==
    LET s0    == [s EXCEPT !.root = free_root_init]
        start == s.brk
        Result(e) == [st |-> e.st, ok |-> e.blk /= NULL]
    IN  IF ~sbrk_ok(s, 2 * wsize) THEN [st |-> s0, ok |-> FALSE]
        ELSE Result(extend_heap(
                 [s0 EXCEPT !.brk   = @ + 2 * wsize,
                            !.mem   = [@ EXCEPT ![start]         = pack(0, TRUE, TRUE),
                                                ![start + wsize] = pack(0, TRUE, TRUE)],
                            !.start = start + wsize],
                 CHUNKSIZE))

\* `max(round_up(size + wsize, dsize), min_block_size)`, in size_t.
adjusted_size(size) == max(round_up((size + wsize) % SIZE_MOD, dsize), min_block_size)

\* The lazy mm_init's result is ignored, as in the code.  Take removes the
\* block from its list, marks it allocated, splits it and tells the next
\* block; Grow takes the block extend_heap returned, if any.
malloc(s, size) ==
    LET asize == adjusted_size(size)
        Marked(s2, block) ==
            WithMem(s2, write_block(s2.mem, block, get_size(s2.mem, block), TRUE, TRUE))
        Done(s4, block) ==
            [st |-> WithMem(s4, update_next(s4.mem, block, TRUE)), ret |-> block + wsize]
        Take(s1, block) ==
            IF block = NULL THEN [st |-> s1, ret |-> NULL]
            ELSE Done(split_block(Marked(remove_from_free(s1, block), block), block, asize), block)
        Grow(ext) == Take(ext.st, ext.blk)
        Place(s0, fit) ==
            IF fit /= NULL THEN Take(s0, fit)
            ELSE Grow(extend_heap(s0, max(asize, CHUNKSIZE)))
        Start(s0) ==
            IF size = 0 THEN [st |-> s0, ret |-> NULL]
            ELSE Place(s0, find_fit(s0, asize))
    IN  Start(IF s.start = NULL THEN mm_init(s).st ELSE s)

\* Mutant: the freed block is put on its list but never coalesced.
free_no_coalesce(s, bp) ==
    LET block == bp - wsize
        Told(s1) == WithMem(s1, update_next(s1.mem, block, FALSE))
    IN  IF bp = NULL THEN s
        ELSE Told(add_to_free(WithMem(s, write_block(s.mem, block, get_size(s.mem, block),
                                                     FALSE, get_prev_alloc(s.mem, block))), block))

free(s, bp) ==
    LET block == bp - wsize
        Told(c) == WithMem(c.st, update_next(c.st.mem, c.blk, FALSE))
    IN  IF bp = NULL THEN s
        ELSE Told(coalesce_block(
                 add_to_free(WithMem(s, write_block(s.mem, block, get_size(s.mem, block),
                                                    FALSE, get_prev_alloc(s.mem, block))), block),
                 block))

\* memcpy and memset over whole words (every length here is a multiple of 8).
memcpy(m, dst, src, n) ==
    [a \in DOMAIN m |-> IF dst <= a /\ a < dst + n THEN m[src + (a - dst)] ELSE m[a]]
memset(m, dst, c, n) ==
    [a \in DOMAIN m |-> IF dst <= a /\ a < dst + n THEN c ELSE m[a]]

\* Mutant: calloc without its overflow check.
calloc_unchecked(s, elements, size) ==
    LET asize == (elements * size) % SIZE_MOD
        Zeroed(r) ==
            IF r.ret = NULL THEN r
            ELSE [st |-> WithMem(r.st, memset(r.st.mem, r.ret, 0, asize)), ret |-> r.ret]
    IN  IF elements = 0 THEN [st |-> s, ret |-> NULL] ELSE Zeroed(malloc(s, asize))

\* Mutant: the old block is freed before its data is copied.
realloc_free_first(s, ptr, size) ==
    LET CopyFreed(s1, ret) ==
            [st  |-> WithMem(s1, memcpy(s1.mem, ret, ptr,
                                        min(get_payload_size(s1.mem, ptr - wsize), size))),
             ret |-> ret]
        Copied(r) == IF r.ret = NULL THEN r ELSE CopyFreed(free(r.st, ptr), r.ret)
    IN  CASE size = 0   -> [st |-> free(s, ptr), ret |-> NULL]
          [] ptr = NULL -> malloc(s, size)
          [] OTHER      -> Copied(malloc(s, size))

\* Mutant: the old block is released before the new one is taken.
realloc_release_first(s, ptr, size) ==
    LET old == get_payload_size(s.mem, ptr - wsize)
        Copied(r) ==
            IF r.ret = NULL THEN r
            ELSE [st |-> WithMem(r.st, memcpy(r.st.mem, r.ret, ptr, min(old, size))),
                  ret |-> r.ret]
    IN  CASE size = 0   -> [st |-> free(s, ptr), ret |-> NULL]
          [] ptr = NULL -> malloc(s, size)
          [] OTHER      -> Copied(malloc(free(s, ptr), size))

\* The old payload size is read after the new block is taken.
realloc(s, ptr, size) ==
    LET Copy(r, copysize) ==
            [st  |-> free(WithMem(r.st, memcpy(r.st.mem, r.ret, ptr, copysize)), ptr),
             ret |-> r.ret]
        Copied(r) ==
            IF r.ret = NULL THEN r
            ELSE Copy(r, min(get_payload_size(r.st.mem, ptr - wsize), size))
    IN  CASE size = 0   -> [st |-> free(s, ptr), ret |-> NULL]
          [] ptr = NULL -> malloc(s, size)
          [] OTHER      -> Copied(malloc(s, size))

calloc(s, elements, size) ==
    LET asize == (elements * size) % SIZE_MOD
        Zeroed(r) ==
            IF r.ret = NULL THEN r
            ELSE [st |-> WithMem(r.st, memset(r.st.mem, r.ret, 0, asize)), ret |-> r.ret]
    IN  CASE elements = 0                -> [st |-> s, ret |-> NULL]
          [] asize \div elements /= size -> [st |-> s, ret |-> NULL]
          [] OTHER                       -> Zeroed(malloc(s, asize))

-----------------------------------------------------------------------------
(* The specification: the driver's calls, each with the client's own       *)
(* writes into what it was given.                                          *)

Sys == State(mem, free_root, brk, heap_start)

Apply(s) ==
    /\ mem' = s.mem
    /\ free_root' = s.root
    /\ brk' = s.brk
    /\ heap_start' = s.start
    /\ UNCHANGED arena

\* The client's data: the words of a payload, first to last.
Fill(m, p, data) ==
    [a \in DOMAIN m |-> IF p <= a /\ a < p + wsize * Len(data)
                        THEN data[(a - p) \div wsize + 1] ELSE m[a]]

Own(p, n) == [i \in 1 .. n \div wsize |-> -p]

\* A call that returned q, after which the client expects data at q; it
\* writes the words past the first `kept` itself (all of a malloc, none of
\* a calloc's zeroes, the tail of a realloc beyond the copied prefix).
Hold(r, q, data, gone, kept) ==
    /\ Apply(WithMem(r.st, Fill(r.st.mem, q + wsize * kept,
                                 SubSeq(data, kept + 1, Len(data)))))
    /\ live' = [x \in (DOMAIN live \ gone) \cup {q} |-> IF x = q THEN data ELSE live[x]]

Init ==
    /\ mem = [a \in Addr |-> UNINIT]
    /\ free_root = [i \in 0 .. SEGLIST_LENGTH - 1 |-> NULL]
    /\ brk = MEM_BASE
    /\ heap_start = NULL
    /\ live = <<>>
    /\ arena \in Arenas

\* The driver's explicit mm_init before the first request.
MmInit ==
    /\ heap_start = NULL
    /\ Apply(mm_init(Sys).st)
    /\ UNCHANGED live

Malloc(n) ==
    LET After(r) ==
            IF r.ret = NULL THEN Apply(r.st) /\ UNCHANGED live
            ELSE Hold(r, r.ret, Own(r.ret, n), {}, 0)
    IN  After(malloc(Sys, n))

Free(p) ==
    /\ Apply(free(Sys, p))
    /\ live' = [x \in DOMAIN live \ {p} |-> live[x]]

\* The client relies on the first min(old, new) bytes and refills the rest.
Realloc(p, n) ==
    LET keep == IF p = NULL THEN 0 ELSE min(Len(live[p]), n \div wsize)
        After(r) ==
            IF r.ret = NULL
            THEN /\ Apply(r.st)
                 /\ live' = [x \in DOMAIN live \ (IF n = 0 THEN {p} ELSE {}) |-> live[x]]
            ELSE Hold(r, r.ret, [i \in 1 .. n \div wsize |-> IF i <= keep THEN live[p][i]
                                                              ELSE -r.ret],
                      {p}, keep)
    IN  After(realloc(Sys, p, n))

Calloc(e, n) ==
    LET zeroes == [i \in 1 .. (e * n) \div wsize |-> 0]
        After(r) ==
            IF r.ret = NULL THEN Apply(r.st) /\ UNCHANGED live
            ELSE Hold(r, r.ret, zeroes, {}, Len(zeroes))
    IN  After(calloc(Sys, e, n))

Next ==
    \/ MmInit
    \/ \E n \in Requests \cup {0} : Malloc(n)
    \/ \E p \in (DOMAIN live) \cup {NULL} : Free(p)
    \/ \E p \in (DOMAIN live) \cup {NULL}, n \in Requests \cup {0} : Realloc(p, n)
    \/ \E e \in CallocCounts, n \in CallocSizes : Calloc(e, n)

Spec == Init /\ [][Next]_vars


-----------------------------------------------------------------------------
(* The heap as mm_checkheap walks it.                                      *)

Fuel == MAX_HEAP \div dsize + 1

\* Headers from b up to the first size-0 header (the epilogue).
RECURSIVE WalkFrom(_, _, _)
WalkFrom(m, b, fuel) ==
    IF fuel = 0 \/ b \notin Addr \/ m[b] = UNINIT \/ get_size(m, b) = 0 THEN <<>>
    ELSE <<b>> \o WalkFrom(m, find_next(m, b), fuel - 1)

Blocks == IF heap_start = NULL THEN <<>> ELSE WalkFrom(mem, heap_start, Fuel)
Epilogue == IF Blocks = <<>> THEN heap_start ELSE find_next(mem, Blocks[Len(Blocks)])
IsFree(b) == ~get_alloc(mem, b)
FreeBlocks == {Blocks[i] : i \in {k \in DOMAIN Blocks : IsFree(Blocks[k])}}
AllocBlocks == {Blocks[i] : i \in DOMAIN Blocks} \ FreeBlocks

\* A seglist from b following successor words.
RECURSIVE ListFrom(_, _, _)
ListFrom(m, b, fuel) ==
    IF b = NULL \/ fuel = 0 \/ b \notin Addr THEN <<>>
    ELSE <<b>> \o ListFrom(m, get_next_free(m, b), fuel - 1)

Lists == [i \in 0 .. SEGLIST_LENGTH - 1 |-> ListFrom(mem, free_root[i], Fuel)]

-----------------------------------------------------------------------------
(* mm_checkheap and its helpers (mm.c 961-1180), over the current heap.    *)
(* mem_heap_lo() is MEM_BASE and mem_heap_hi() is brk - 1.                 *)

\* A word the checker may read: in the arena and written.  On a corrupt
\* heap the C code reads wherever a link points; here that read fails the
\* test that makes it.
Readable(a) == a \in Addr /\ mem[a] /= UNINIT

check_address_alignment(b) == (b + wsize) % 16 = 0

check_prologue ==
    get_size(mem, MEM_BASE) = 0 /\ get_alloc(mem, MEM_BASE) /\ get_prev_alloc(mem, MEM_BASE)

check_epilogue == get_size(mem, brk - wsize) = 0 /\ get_alloc(mem, brk - wsize)

consecutive_free(b) == ~get_alloc(mem, b) /\ ~get_prev_alloc(mem, b)

within_heap_boundaries(b) == b > MEM_BASE /\ b < brk - 1

\* Every free block, mini or not, must have a footer equal to its header.
check_header_and_footer(b) ==
    /\ get_size(mem, b) >= min_block_size
    /\ ~get_alloc(mem, b) =>
         LET f == header_to_footer(mem, b) IN Readable(f) /\ mem[f] = mem[b]

explicit_list_pointer_consistency(b) ==
    /\ get_mini(mem, b) \/ Readable(b + 2 * wsize)
    /\ LET prev == get_prev_free(mem, b)
       IN  prev /= NULL /\ Readable(prev + wsize) /\ get_next_free(mem, prev) = b

check_explicit_list(i) ==
    \A k \in DOMAIN Lists[i] :
        LET b == Lists[i][k]
        IN  /\ Readable(b) /\ Readable(b + wsize)
            /\ ~get_alloc(mem, b)
            /\ get_mini(mem, b) => get_size(mem, b) = min_block_size
            /\ b /= free_root[i] => explicit_list_pointer_consistency(b)
            /\ within_heap_boundaries(b)
            /\ i = get_seglist_ind(get_size(mem, b))

\* The implicit walk skips the footer and coalescing tests for heap_start;
\* the free count of the seglists must equal count_free's.
mm_checkheap ==
    /\ check_prologue
    /\ check_epilogue
    /\ \A k \in DOMAIN Blocks :
         LET b == Blocks[k]
         IN  /\ check_address_alignment(b)
             /\ within_heap_boundaries(b)
             /\ b /= heap_start => check_header_and_footer(b) /\ ~consecutive_free(b)
    /\ \A i \in DOMAIN Lists : check_explicit_list(i)
    /\ FoldFunction(LAMBDA l, n : Len(l) + n, 0, Lists) = Cardinality(FreeBlocks)

-----------------------------------------------------------------------------
(* Properties.                                                             *)

\* What mm_checkheap, which malloc asserts on entry in a DEBUG build
\* (dbg_requires(mm_checkheap(__LINE__))), says of every heap the
\* allocator leaves between two calls: it accepts the heap exactly when
\* no free mini block lies past heap_start.  Its prologue, epilogue,
\* alignment, bounds, coalescing, seglist and free-count tests all pass;
\* only check_header_and_footer misfires, since a free mini block has no
\* footer and header_to_footer names its successor word, which never
\* equals its header (the header carries the prev-alloc bit).
CheckheapVerdict ==
    heap_start /= NULL =>
        (mm_checkheap <=> \A b \in FreeBlocks \ {heap_start} : ~get_mini(mem, b))

TypeOK ==
    /\ mem \in [Addr -> Int \cup {UNINIT}]
    /\ free_root \in [0 .. SEGLIST_LENGTH - 1 -> Addr \cup {NULL}]
    /\ arena \in Arenas /\ brk \in MEM_BASE .. HeapEnd
    /\ heap_start \in Addr \cup {NULL}
    /\ DOMAIN live \subseteq Addr
    /\ \A p \in DOMAIN live : live[p] \in Seq(Int)

\* The implicit list mm_checkheap walks is sound after every call: the
\* prologue is intact at mem_heap_lo(), where check_prologue reads it, and
\* the blocks start right after it, so no byte below the break is lost
\* (a failed mm_init, which malloc ignores, is never redone); every block is aligned and at least 16 bytes, and
\* the walk by sizes from heap_start lands exactly on the epilogue that
\* extend_heap left in the last word below the break.
HeapTiled ==
    /\ brk /= MEM_BASE => heap_start = MEM_BASE + wsize
    /\ heap_start /= NULL =>
        /\ mem[MEM_BASE] = pack(0, TRUE, TRUE)
        /\ \A i \in DOMAIN Blocks : /\ get_size(mem, Blocks[i]) >= min_block_size
                                    /\ get_size(mem, Blocks[i]) % dsize = 0
                                    /\ (Blocks[i] + wsize) % dsize = 0
        /\ Epilogue = brk - wsize
        /\ get_size(mem, Epilogue) = 0 /\ get_alloc(mem, Epilogue)

\* Every header's previous-allocated bit (the epilogue's too) tells the
\* truth about the block before it; coalesce_block trusts it and never
\* looks at the neighbour (malloc, split_block, free and update_next).
PrevAllocAccurate ==
    LET hs == Blocks \o <<Epilogue>>
    IN  heap_start /= NULL =>
            \A i \in DOMAIN hs :
                get_prev_alloc(mem, hs[i]) = (i = 1 \/ get_alloc(mem, hs[i - 1]))

\* No two neighbouring blocks are free: every free, malloc split and heap
\* extension coalesces immediately (coalesce_block).
NoAdjacentFree ==
    \A i \in 1 .. Len(Blocks) - 1 : ~(IsFree(Blocks[i]) /\ IsFree(Blocks[i + 1]))

\* find_prev, reading only the word before a header (the footer of a free
\* block, or the successor word of a free mini block with its mini bit),
\* finds every free block from its right neighbour; the free non-mini
\* blocks carry a footer equal to their header, as mm_checkheap demands.
BoundaryTagsSound ==
    LET hs == Blocks \o <<Epilogue>>
    IN  \A i \in 1 .. Len(hs) - 1 :
            IsFree(hs[i]) =>
                /\ ~get_mini(mem, hs[i]) => mem[header_to_footer(mem, hs[i])] = mem[hs[i]]
                /\ find_prev(mem, hs[i + 1]) = hs[i]

\* The seglists hold exactly the free blocks of the heap, each once, in
\* the list its size selects, ending in NULL and doubly linked: the
\* successor word and the predecessor (the header bits of a mini block)
\* agree, and every root has no predecessor.
FreeListsMatchHeap ==
    /\ \A i \in DOMAIN Lists :
         LET l == Lists[i]
         IN  /\ \A k \in DOMAIN l : /\ l[k] \in FreeBlocks
                                    /\ get_seglist_ind(get_size(mem, l[k])) = i
             /\ l /= <<>> => /\ get_next_free(mem, l[Len(l)]) = NULL
                             /\ get_prev_free(mem, l[1]) = NULL
             /\ \A k \in 1 .. Len(l) - 1 : get_prev_free(mem, l[k + 1]) = l[k]
    /\ LET counted == {<<i, k>> : i \in DOMAIN Lists, k \in 1 .. Fuel}
           onList  == {c \in counted : c[2] \in DOMAIN Lists[c[1]]}
       IN  /\ Cardinality(onList) = Cardinality(FreeBlocks)
           /\ \A b \in FreeBlocks : \E c \in onList : Lists[c[1]][c[2]] = b

\* The allocated blocks are exactly the ones the client holds, and each
\* has room for what was asked: nothing is handed out twice, lost by a
\* free, or left allocated behind the client's back.
AllocatedIsLive ==
    /\ AllocBlocks = {p - wsize : p \in DOMAIN live}
    /\ \A p \in DOMAIN live : get_payload_size(mem, p - wsize) >= wsize * Len(live[p])

\* What the client wrote (or calloc zeroed, or realloc copied) is still
\* there: no header, footer, link or copy of the allocator lands on a
\* live payload.
PayloadIntact ==
    \A p \in DOMAIN live : \A i \in DOMAIN live[p] :
        LET a == p + wsize * (i - 1) IN a \in Addr /\ mem[a] = live[p][i]

\* The spec (4.3): malloc fails only when the heap extension fails, and
\* never while a free block could hold the request.  find_fit must reach
\* every free block that fits, in the home list or a larger one, and only
\* then may extend_heap's mem_sbrk of max(asize, chunksize) fail.
MallocFailsOnlyWhenFull ==
    heap_start /= NULL =>
        \A n \in Requests :
            malloc(Sys, n).ret = NULL =>
                /\ \A b \in FreeBlocks : get_size(mem, b) < adjusted_size(n)
                /\ ~sbrk_ok(Sys, round_up(max(adjusted_size(n), CHUNKSIZE), dsize))

\* A call that returns NULL leaves no trace.
Unchanged(r) == r.ret = NULL => r.st = Sys

\* The spec (5): running out of memory is recoverable, with no partial
\* state change; realloc's comment: "If malloc fails, the original block
\* is left untouched".  Every malloc, realloc or calloc the client could
\* make now that fails leaves the heap, the lists and the break as they
\* were.
FailureIsClean ==
    heap_start /= NULL =>
        /\ \A n \in Requests : Unchanged(malloc(Sys, n))
        /\ \A p \in DOMAIN live, n \in Requests : Unchanged(realloc(Sys, p, n))
        /\ \A e \in CallocCounts, n \in CallocSizes : Unchanged(calloc(Sys, e, n))

=============================================================================
