# TLA+ models of Systems_labs

This directory holds TLA+ models of the programs under `src/`, the TLC
configurations that check them, and `PROJECT.json`, which records every
component, run, mutant, source mapping, finding and hazard.

## The system

| Part | Source | State and operations | Concurrency |
|---|---|---|---|
| Allocator | `src/malloc/mm.c` (over memlib's `mem_sbrk`) | A heap of 8-byte words holding headers, footers and free-list links. It has 15 segregated free lists (`free_root`), `heap_start` and the break. Its operations are `mm_init`, `malloc`, `free`, `realloc` and `calloc`. | None: sequential by contract (spec §5). |
| Proxy cache | `src/proxy/cache.c`, `cache.h` | A doubly linked LRU list (`head`, `tail`) with `cache_size`. Each block has a `refcnt`, a `dead` flag and a `ref_lock`. Its operations are `insert`, `in_cache`/`visit`, `removeLRU`/`makeSpace`, `increment_ref`/`decrement_ref` and `free_block`. | A global `cache_lock` plus a per-block `ref_lock`. |
| Proxy server | `src/proxy/proxy.c` | One detached thread per connection. On a hit it looks up under `cache_lock`, sends the payload after unlocking, then calls `decrement_ref`. On a miss it fetches from the server, then calls `insert` under `cache_lock`. | Many threads share the cache. |
| Tiny shell | `src/tsh/tsh.c` | A job list, and `eval`, which forks, adds a job and waits for the foreground job with `sigsuspend`. Builtins are `bg`, `fg`, `jobs` and `quit`. The SIGCHLD, SIGINT and SIGTSTP handlers reap, stop and kill jobs. | Asynchronous signal handlers against the main loop, with blocked masks. |
| Cache simulator | `src/cache/csim.c` | The sets and lines of a cache with LRU replacement, run over a trace, counting hits, misses and evictions. | None. |
| Transpose | `src/cache/trans.c` | Six registered transposes of an N×M `A` into `B`: a plain loop (`trans_basic` and `garboTranspose`), a loop through `tmp` (`trans_tmp`), two 8×8 blocked loops (`largeTranspose`, and `smallTranspose`, which writes a diagonal block's diagonal after its row), and `transpose_submit`, which picks one by size. | None. |
| Bit puzzles | `src/datalab/bits.c`, `decl.c` | Pure functions: nine puzzles on 64-bit `long`s and five on single-precision floats held in `unsigned`s. `decl.c`'s `test_set` lists each with its argument range for the `btest` driver. | None. |
| Recitation solver | `src/cache/rec6/pyth_solver.c` | An unfinished option parser around a Pythagorean check. | None. |

The spec (`spec.md`) specifies the allocator, which is the core of the
bundle. The proxy and the shell are the two concurrent programs. The
hazards that a test would hardly reach are listed in `PROJECT.json` at the
lines where they bite.

## What is modelled now

### `MM.tla`: the allocator

`MM` models `mm.c` at the level of heap words. `mem` maps each word
address of the memlib arena either to an integer or to `UNINIT`. The
integers carry exactly the bits the C code packs:

- bits 0x1, 0x2 and 0x4 are the alloc, prev-alloc and mini flags;
- the bits above 0xF hold the size;
- a free mini block keeps its predecessor in its header's upper bits;
- a free mini block keeps its successor, or-ed with 0x4, in its one payload word.

The remaining state is `free_root` (the seglist heads), `brk` (memlib's
break) and `heap_start`, and `arena`, the size memlib was built with,
chosen once at the start from `Arenas`.

Every C helper is an operator with the C function's name, from an
allocator state `[mem, root, brk, start]` to the new state and, where the C
function returns a value, that result. So `remove_from_free`,
`add_to_free`, `coalesce_block` (its four cases), `extend_heap`,
`split_block`, `find_fit` (with `scan_seglist` for the bounded-lookahead
loop) and `update_next` each translate one C function. The public calls
are the actions `MmInit`, `Malloc`, `Free`, `Realloc` and `Calloc`, and
each performs the whole call in one step. The lazy `mm_init` inside
malloc, the trailing `update_next` and `realloc`'s malloc, memcpy and free
are all inside the step. `size_t` arithmetic is kept modulo
`2^SIZE_BITS`, where it can wrap (`round_up`, the `size + wsize` of
malloc, calloc's product).

The client (the driver that calls the allocator) is part of each step:

- After a successful malloc, it writes its own tag into every word it asked for.
- After a realloc, it writes the words past the copied prefix.
- After a calloc, it only expects zeroes.

The ghost variable `live` records what every live payload must hold. The
client only frees and reallocs pointers it holds, because double free is
undefined behaviour by contract (spec §7).

The invariants are the checks of `mm_checkheap` and the round-trip
property of spec §8:

- `TypeOK`: the variables' types, including that the seglist array has exactly `seglist_length` entries.
- `HeapTiled`: the prologue is intact. Blocks are aligned and at least 16 bytes, and the size walk from `heap_start` ends exactly at the epilogue below the break.
- `PrevAllocAccurate`: every header's prev-alloc bit, the epilogue's included, tells the truth about the block before it.
- `NoAdjacentFree`: coalescing is complete.
- `BoundaryTagsSound`: a free non-mini block's footer equals its header, and `find_prev` of every block after a free block finds that block. Since `find_prev` reads a single word, this covers the mini-block encoding too.
- `FreeListsMatchHeap`: the seglists hold exactly the free blocks, each once, in the bucket their size selects. The lists end in NULL, the predecessor and successor links agree, and every root has no predecessor.
- `AllocatedIsLive`: the allocated blocks are exactly the payloads the client holds, and each is big enough for its request.
- `PayloadIntact`: what the client wrote, what calloc zeroed and what realloc copied are still there.

Two more invariants ask, in every reachable heap, what each call the client
could make next would do. Each evaluates `malloc`, `realloc` or `calloc` on
the current state without taking the step:

- `MallocFailsOnlyWhenFull` (spec §4.3, and `find_fit`'s "a block of at least asize if available"): a malloc that would return NULL has no free block that fits, and `mem_sbrk` of `max(asize, chunksize)` would fail.
- `FailureIsClean` (spec §5, and realloc's "If malloc fails, the original block is left untouched"): a malloc, realloc or calloc that would fail leaves the heap, the lists and the break exactly as they were.

The heap checker itself is translated too. `mm_checkheap` and its helpers
(`check_prologue`, `check_epilogue`, `check_address_alignment`,
`within_heap_boundaries`, `check_header_and_footer`, `consecutive_free`,
`check_explicit_list`, `explicit_list_pointer_consistency`, and the free
counts) are operators over the current heap. A read that a corrupt link
would send outside the arena, or to a word never written, fails the test
that makes it. A DEBUG build asserts the checker on entry to malloc.

- `CheckheapVerdict`: the checker accepts a reached heap exactly when no
  free mini block lies past `heap_start`. All of its tests pass on every
  reached heap except the footer test, which misfires on free mini blocks
  (see Findings).

### `ProxyCache`, `Proxy` and `LRUCache`: the caching proxy

`ProxyCache` models `cache.c`. The list is kept as the code keeps it:

- `head` and `tail`;
- each block's `prv` and `nxt` pointers;
- each block's key (`bkey`), payload size (`bsize`), `refcnt` and `dead` flag;
- `allocated`, the blocks malloc has handed out and nobody has freed;
- `cache_size`.

A block is one of the model values `BlockIds`. It stands for the address
malloc returns for a `cache_block_t`, together with the payload and strings
that are allocated and freed with it. Each cache function is an operator
from a cache record to a new one, under its C name:

- `insert_head`, `visit`;
- `in_cache` (with `find_block` for its walk);
- `increment_ref`, `decrement_ref`, `free_block`;
- `removeLRU`, `makeSpace` (`makeSpace_loop`);
- `insert`.

`insert` returns the set of its possible outcomes: one for each free
address malloc may return, and one for each value the uninitialised
`refcnt` may hold. A memory error the code would commit ends the process
and is recorded in `fault`:

- `"segv"`: removeLRU on a one-block list;
- `"double_free"`: glibc's abort on a second free;
- `"hang"`: makeSpace spinning on an empty list.

`Proxy` extends it with thread slots. Each slot serves one connection after
another, with a program counter `pc` and the `req`uested key. A hit keeps
the `blk` that `in_cache` returned. `cache_lock` is held only across
`in_cache` and across `insert`, and a thread does nothing else while it
holds it, so each critical section is one step:

| Action | Code |
|---|---|
| `Lookup(t, k)` | `serve`: lock, `in_cache`, unlock (`proxy.c` 290–300, 308) |
| `Send(t)` | `rio_writen(block->payload, block->size)` (302) |
| `Release(t)` | `decrement_ref(block)` (303) |
| `ServerDown(t)` | `open_clientfd` fails (310–315) |
| `Forward(t, n)` | `forward_to_client` with an `n`-byte response; `insert` under the lock if `n <= MAX_OBJECT_SIZE` (181–203) |

The ghost `stale` holds the threads whose block was freed while they held it.

`LRUCache` is the promise: a sequence of `[key, size]` entries, most
recent first. A hit moves its entry to the front. A new key goes in front
after as few least-recently-used entries are dropped as make room. `Proxy`
maps its pointer list to that sequence (`ListEntries`) and checks
`LRU!Spec` as a property, so every thread step is an abstract hit, an
abstract insert or a stutter.

The properties:

- `ListWellFormed`: the `next` walk from `head` ends at `tail` without repeats, `prev` mirrors `next`, and the listed blocks are exactly the allocated blocks that are not dead.
- `SizeAccounted`: `cache_size` is the sum of the listed sizes and never exceeds `MAX_CACHE_SIZE`.
- `EvictionSafe`: `removeLRU` never runs on a one-block list and `makeSpace` never spins.
- `LRUBehaviour`: the refinement above.
- `NoUseAfterFree`: a thread that `in_cache` handed a block sends it and decrements it before anyone frees it.
- `RefcntCountsReaders`: `refcnt` counts the threads between `in_cache` and `decrement_ref`.

### `Tsh`: the tiny shell's job control

The actors are the shell's main flow, its three signal handlers, its
children and the terminal. A handler is one step, enabled when its signal
is pending and not in the main context's mask `blocked`. It can run
between any two steps of the main flow. Children are named by the pid
`fork` returns, and jobs by that pid. `jobs[p]` is the job list entry
(`"FG"`, `"BG"`, `"ST"` or `"none"`), and `proc[p]` is what the child is
doing. `pid` is the global `volatile sig_atomic_t pid`.

| Action | Code |
|---|---|
| `Eval(p, fg)` | `eval`: block `mask_3`, `fork`, `add_job`, `pid = 0` (`tsh.c` 312–380) |
| `WaitDone`, `Suspend` | `while (!pid && fg_job() != 0) sigsuspend(&prev)`, then restore `prev` (381–386, and fg's copy at 274–276) |
| `Fg(p)`, `Bg(p)` | the builtins: `kill(-id, SIGCONT)`, `job_set_state`, fg's `pid = 0` and wait (236–273) |
| `SigchldHandler` | `sigchld_handler`'s `waitpid(-1, WUNTRACED \| WNOHANG)` loop (400–434) |
| `ForwardHandler(sig)` | `sigint_handler`, `sigtstp_handler`: `kill(-fg_pid, sig)` (443–483) |
| `Exec(p)` | the child from `fork` to `execve`. It runs the program, exits (a failed `open`, or `execve` failing with an errno other than ENOENT), or returns from `eval` on ENOENT (323–366). |
| `Exit`, `Stop`, `Killed`, `Keyboard` | the environment: the program exits (mysigfun's alarm), stops, or is killed from elsewhere, and the user types ctrl-c or ctrl-z |

The handler's loop ends with `pid` at 0 when children remain and at -1
when none does, because the last `waitpid` returns that. Every zombie and
every newly stopped child is collected in one run, since SIGCHLDs merge
into one pending signal. A job that receives a forwarded signal reacts as
its program does: it is terminated or stopped (the default actions, or
mysigfun's handlers), or it ignores the signal. A job still before
`execve` has no process group of its own. The signal goes to no process,
or to the child's inherited tsh handler, which finds its job list copy
without a foreground job. A signal sent to a stopped but unreported job is
dropped. In the code, SIGINT would stay pending in the child until it is
continued.

The properties:

- `JobsMatchChildren`: a job is listed exactly while its child is unreaped, and a job marked stopped is not running.
- `ForegroundExclusive`: at most one job is in the foreground, and none is when the shell is at its prompt.
- `FgWaitEnds` (liveness): once the foreground job has stopped or terminated, the shell returns to its prompt.
- `NoSecondShell` and `InterruptReachesJob`, checked by the violation runs: no child runs the shell's loop, and a forwarded keyboard signal reaches the job.

### `Csim` and `SetLRU`: the cache simulator

`Csim` keeps the `cache_t` that `makeSets` and `makeCache` build. Each set
has its `tags`, `dirty`, `valid` and `lastModified` arrays. The state also
holds the five `stats` and `parseFile`'s `time`. A step, `Step(op,
address, kind)`, is one iteration of `parseFile`'s loop. It is the line's
operation letter and address as `processLine` returns them, then
`executeInstruction` with the hit scan or `handleMiss`
(`getFreeSpace`, `getLeastRecentlyUsed`), then `time++`. `time` is a C
`int` of `INT_BITS` bits that wraps. The ghost `read` counts lines
against the trace length.

`fgets` fills the 24-byte `linebuf` with at most 23 characters, so a
line's `kind` is one of three. A line that `"fits"` is processed whole.
A `"long"` line has its operation and address in its first 23
characters. The next `fgets` returns the rest of it (`rest`), which is
one token. A `"blank"` line has no address. `processLine` on a chunk with
one token gets NULL from its second `strtok` and passes it to `strtol`.
`Crash` is that iteration: the program dies (`crashed`) and takes no
further step.

- `ParsesEveryLine`, checked by the violation run: no chunk reaches `processLine` without an address.

`SetLRU` is the promise: each set is a sequence of `[tag, dirty]` lines,
most recent first, at most `E` long, with the five counters. `Csim` maps
each set's valid lines, sorted by `lastModified` newest first, to that
sequence (`Recency`), and checks `SetLRUSpec!Spec` as `SimulatesLRU`.
Every line is then an abstract hit, fill or eviction, and every counter
moves as the abstract one does. `StampsOrdered` is the invariant that
`getLeastRecentlyUsed` depends on: a set's valid stamps are distinct,
positive and older than `time`.

### `Bits` and `Words`: the datalab puzzles

TLC's integers have 32 bits, so `Words` keeps a w-bit machine word as a
function from bit positions `0 .. w-1` to `{0, 1}`. It defines the C
operators on such words: `~ & | ^`, `+` with the carry dropped, `<<`,
arithmetic and logical `>>`, unsigned `<`, truncation and zero and sign
extension. It also has `Pat(n, w)`, the pattern of an integer, and
`Field`, the value of a bit range. Each operator builds its bits once
(`Now`), so nested puzzles do not recompute their inputs bit by bit.

`Bits` writes each puzzle of `bits.c` from its C body, one operator per
expression or intermediate the body names. `allOddBits` builds `odds` with
`OddsStep`, `isPalindrome` reverses the high half with the five `Swap`
steps, and `floatUnsigned2Float` finds the top bit (`HighBit`), then
rounds with the code's guard, round and sticky bits (`U2FFrom`). Beside
each puzzle is a reference written from its header comment, not from the
code:

- bitwise contracts for the integer puzzles;
- exact 66-bit arithmetic for `trueThreeFourths`;
- the IEEE order of sign and magnitude, NaN and the two zeros for the float comparisons;
- doubling and overflow to infinity for `floatScale2`;
- round-to-nearest-even for the conversion.

The harness is `decl.c`'s `test_set`. `pc` walks the table in its order,
and a step calls the current puzzle on arguments from its range
(`Call`), then `Checked` moves to the next puzzle. The `btest` driver and
its `test_` functions are not in the repository.

### `Trans`: the matrix transposes

A call is the driver calling one registered function (`entry`) on an
`A` of `N` rows and `M` columns. `transpose_submit` is resolved at the
call to the function it picks (`Submit`, by the sizes 1024 and 32).
Each loop nest is a mixed-radix counter: `Trips` gives each function's
trip counts, outermost first, and `Digits(iter, ...)` the indices of
iteration `iter`. One `Body` step runs one innermost body, the write
`Write` gives: `B[j][i] = A[i][j]` for the plain loops, the 8×8 block
indices for the blocked ones, and for `smallTranspose` a ninth inner
step after the `c` loop that writes the diagonal it skipped. `trans_tmp`
stores into `tmp[2*(i%2) + (j%2)]` and copies that slot into `B`.
`Return` ends the call. `A` holds distinct values, and `B` starts as
`Garbage`, so a misplaced read or a missing write shows. A write is
`(dst :> v) @@ B`, so a write out of bounds grows `B`'s domain, and
`TypeOK` sees it.

- `WritesTransposed`: every entry of `B` is `Garbage` or the element of `A` transposed into it.
- `TransposedOnReturn`: at return `B` is the transpose of `A` (`is_transpose`, which all but `garboTranspose` assert) on the sizes the function is meant for. `transpose_submit` is meant for every size, the plain loops work at every size, and the blocked loops work when 8 divides both sides.

### Runs

| Run | Config | Expect | What it shows |
|---|---|---|---|
| `mm_core` | `MCMM.cfg` | pass | All eleven invariants hold after every sequence of calls in a 32- or a 96-byte arena. `mm_checkheap` rejects exactly the heaps with a free mini block past `heap_start`. With an 8-bit `size_t`, `calloc(2, 136)` wraps, and calloc's division check refuses it. |
| `mm_size_wrap` | `MCMMWrap.cfg` | violation | With an 8-bit `size_t`, `malloc(248)` (`SIZE_MAX - 7`) wraps `size + wsize` to 0 and returns a 16-byte block. This is a code bug in `mm.c:1288`. |
| `proxy_cache` | `MCProxy.cfg` | pass | Two threads, every interleaving: the list, `cache_size`, eviction and the LRU refinement hold. |
| `proxy_uaf` | `MCProxyUAF.cfg` | violation | Two readers of one block and an evicting inserter. The first reader's `decrement_ref` frees the block before the second sends it (`cache.c:193`). |
| `proxy_uninit_refcnt` | `MCProxyRefcnt.cfg` | violation | A block `insert` places where `decrement_ref` freed one with a non-zero count starts with that stale `refcnt` (`cache.c:310`). |
| `tsh_core` | `MCTsh.cfg` | pass | Two children, every interleaving of forks, execs, stops, exits, kills, keyboard signals and handlers: the job list matches the children, there is one foreground job at most, and every wait ends. |
| `tsh_second_shell` | `MCTshEnoent.cfg` | violation | A child whose `execve` fails with ENOENT returns into the read/eval loop (`tsh.c:363`). |
| `tsh_lost_interrupt` | `MCTshLostSignal.cfg` | violation | A ctrl-c or ctrl-z typed before the child's `setpgid` reaches no process (`tsh.c:356`). |
| `csim_lru` | `MCCsim.cfg` | pass | Every five-line trace on two 2-way sets: the simulator refines LRU, and its counters count LRU's hits, misses, evictions and dirty bytes. |
| `bits_puzzles` | `MCBits.cfg` | pass | Every datalab puzzle returns what its header comment promises on every sampled argument: the range edges, sums that overflow, all IEEE classes of both signs, and every rounding case of the conversion. |
| `trans_blocked` | `MCTrans.cfg` | pass | Every registered transpose, on 32×32, 8×16, 16×8, 3×5 and 1×1: no write lands outside `B`, every write puts `A[i][j]` in `B[j][i]`, and at return `B` is the transpose of `A` on each size the function is meant for. |
| `csim_bad_line` | `MCCsimLine.cfg` | violation | A blank first line makes `processLine` pass NULL to `strtol` (`csim.c:101`). A line longer than 23 characters does the same one `fgets` later. |

### Bounds

`MCMM` runs two memlib builds. In the 32-byte arena the prologue and
epilogue fit but the first 32-byte chunk does not, so `mm_init` fails
after setting `heap_start`, malloc ignores that (`mm.c:1278`), and every
later call must fail cleanly from a heap with no block. The rest of this
paragraph is about the 96-byte arena. There the heap holds at most 80 bytes of blocks
between the prologue and epilogue. It uses 32-byte chunks, three seglists
(16, 32–63, and 64 and up, the last one clamped as `seglist_length` clamps
in the code) and `max_check = 1`. Requests are 8 and 40 bytes, which make
16- and 48-byte blocks. With these bounds the search reaches:

- three free mini blocks in one list, so find_fit's early return happens;
- two blocks in the 32–63 list;
- the last list;
- a full arena, with failing heap growth inside malloc and realloc;
- frees with free blocks on both sides.

The fallback to a larger list is reached from an empty home list. A home
list that is non-empty but too small, with a larger list also non-empty,
needs at least 112 bytes of blocks. A 112-byte arena was too large for
TLC; that case is exercised only by the `find_fit` mutant.

`SIZE_BITS` is 8 in both allocator configurations. TLC's integers are
32-bit, so the 64-bit width of the code is scaled down, while the wrap is
kept as a modulus. In `MCMM` the malloc and realloc requests (8 and 40)
are far below the wrap, and `calloc(2, 136)` is the one call whose
product wraps. `MCMMWrap` requests 8 and 248 bytes.

The run explores 23,220 distinct states.

`MCProxy` uses:

- two threads; `MC_Threads3` adds a third for `proxy_uaf`, which needs two readers of one block and an evictor;
- three keys, because eviction needs a miss while two blocks are cached;
- four block addresses: the cached blocks plus one evicted while still read;
- `MAX_OBJECT_SIZE = 1` and `MAX_CACHE_SIZE = 3`, responses of 0–2 bytes (2 is too big to cache).

The sizes keep the one relation of the real constants (100 KiB and 1 MiB)
that the code relies on: the cache holds more than two maximal objects, so
one entry always leaves room for another. The never-written `refcnt` of a
new block holds what the last `cache_block_t` at that address left there
(`LeftRefcnt`; 0 at an address no block has used, since the heap starts
zeroed). The passing run adds 0 or 1 left by other objects in recycled
memory (`MC_UninitRefcnt`); `proxy_uninit_refcnt` and `proxy_uaf` add
nothing (`MC_CacheOnly`), so a stale count there comes only from a freed
cache block. Symmetry is taken over
threads, keys and addresses, all of them interchangeable model values.
Freeing resets a block's key, size and links: no later step reads them
(a late `decrement_ref` reads only `refcnt` and `dead`). `insert` is not
explored once all four addresses are in use, and a double free ends the
process, so the configurations set `CHECK_DEADLOCK FALSE`. The passing
run explores 97,277 distinct states.

`MCTsh` uses two pids. With two, a background job can change state while
the shell waits for a foreground one, and the handler's `pid = 0` (children
remain) and `pid = -1` (none remains) both happen. A third pid adds only
more of the same. The run explores 2,664 distinct states. Deadlock is
checked: the shell can always read another command line or take a signal,
and once both pids are used and reaped the terminal can still send
signals.

`MCCsim` simulates `-s 1 -E 2 -b 1` over the addresses 0, 1, 2, 4 and 8,
with the letters L, S and I. Addresses 0 and 1 share a block. 0, 4 and 8
are three tags of set 0, so the set overflows and evicts. 2 is set 1.
Five lines are enough to dirty a line, fill the set and evict the dirty
line, and to hit a line again after a newer one was filled. Every line
may fit, be long or be blank, so a crash can follow any prefix.
`INT_BITS` is 8, which no five-line trace wraps (TLC's integers are
32-bit, so the real `int` is scaled down). With `INT_BITS = 3`, TLC finds
`SimulatesLRU` violated at the fourth line, which is the `csim.c:218`
finding below. No run keeps that configuration. The run explores 49,261
distinct states. `MCCsimLine.cfg` needs only two lines. The program ends after the last line, so these
configurations do not check deadlock.

`MCBits` samples 27 longs. They are the small values and their
negatives, `TMin`, `TMax` and their neighbours, `2^62` and `-2^62 - 1`
(where `3x` overflows), the alternating patterns, a 64-bit palindrome
with a one-bit miss, and `0xFFFFFFFDFFFFFFFD`. `bitMask` takes its whole
range `0 .. 63` squared; `conditional` takes four selectors (0, 1, -1,
`TMin`) against every pair of longs. The 28 floats are both signs of
zero, of the least, middle and greatest denormals, of the least normal,
1.0 and 2.0, of exponents 253 and 254, of the greatest finite value, of
infinity and of two NaNs. The 22 unsigneds cover the exact range below
`2^24` and, above it, remainders below, at and above one half with an
even and an odd kept bit, plus `0xFFFFFF80` and `0xFFFFFFFF`, which
round up into the next exponent. The run explores 10,266 distinct
states. `btest` ends after the last entry of the table, so this run does
not check deadlock.

`MCTrans` runs each of the six registered functions on five sizes.
32×32 is the size `transpose_submit` hands to `smallTranspose`. It
has 16 blocks of 8×8, 4 of them on the diagonal. 8×16 and 16×8 are non-square
multiples of 8, so a swapped `i`/`j` or `M`/`N` shows. 3×5 and 1×1 are
sizes that 8 does not divide: the plain loops must cover them, and the
blocked loops write nothing there. 1024×1024, the one size
`transpose_submit` gives `largeTranspose`, has a million entries, which
is out of reach. `largeTranspose` is registered on its own, though, and
its index arithmetic does not depend on the size beyond the block count,
so the run checks it at the other sizes. The 8,092 states are one
straight line per call. A call ends at return, so deadlock is not
checked.

### Mutants

Each property of a passing run has a mutant in its own module, defined just
before the operator it replaces. Each mutant stands for a plausible bug,
and the property catches it:

| Mutant | Stands for | Caught by |
|---|---|---|
| `free_root_init_inclusive` | `i <= seglist_length` | `TypeOK` |
| `split_block_next_first` | the remainder located before the header is rewritten | `HeapTiled` |
| `update_next_keep_bit` | `set_prev_alloc` forgotten | `PrevAllocAccurate` |
| `free_no_coalesce` | free without coalescing | `NoAdjacentFree` |
| `write_block_no_footer` | the footer never written | `BoundaryTagsSound` |
| `remove_from_free_keep_prev` | the new head keeps its old predecessor | `FreeListsMatchHeap` |
| `find_fit_home_fallback` | the fallback loop starts at the home bucket | `AllocatedIsLive` |
| `realloc_free_first` | free before memcpy | `PayloadIntact` |
| `find_fit_no_fallback` | only the home list searched | `MallocFailsOnlyWhenFull` |
| `mm_init_late_start` | `heap_start` set only once the first chunk is in place, so a failed `mm_init` is redone | `HeapTiled` |
| `realloc_release_first` | the old block freed before the new one is taken | `FailureIsClean` |
| `calloc_unchecked` | no overflow check | `AllocatedIsLive` |
| `remove_from_free_keep_root` | a list's last block removed without clearing its root | `CheckheapVerdict` |
| `Forward_unguarded` | the `mem_written <= MAX_OBJECT_SIZE` check dropped | `TypeOK` (proxy) |
| `visit_keep_tail` | `visit` forgets `tail = prev` | `ListWellFormed` |
| `new_block_no_size` | `insert` forgets `cache_size += block->size` | `SizeAccounted` |
| `removeLRU_no_size` | `cache_size` not lowered on eviction | `EvictionSafe` |
| `insert_no_lookup` | `insert` without its `in_cache` check | `LRUBehaviour` |
| `Eval_no_reset` | `pid = 0` after `add_job` dropped | `TypeOK` (tsh) |
| `sigchld_handler_no_signaled` | the `WIFSIGNALED` branch missing | `JobsMatchChildren` |
| `WaitOver_inverted` | `pid` for `!pid` in the wait loop | `ForegroundExclusive` |
| `sigchld_handler_no_untraced` | `waitpid` without `WUNTRACED` | `FgWaitEnds` |
| `handleMiss_unconditional` | `if (set.dirty[LRU])` dropped | `TypeOK` (csim) |
| `Step_no_tick` | `time++` forgotten | `StampsOrdered` |
| `IsLessFrom_no_mask` | `isLess` without its final `& 1` | `TypeOK` (bits) |
| `isLess_overflowing` | the `sameSign` mask dropped, so `x - y` decides | `IntegerPuzzlesCorrect` |
| `U2FFrom_ties_up` | round half up, the guard bit ignored | `FloatPuzzlesCorrect` |
| `Trips_ceil` | block counts rounded up, `(N + 7) / 8` | `TypeOK` (trans) |
| `Write_swapped_kc` | `largeTranspose` reading `A[8*i+c][8*j+k]` | `WritesTransposed` |
| `Write_no_diagonal` | `smallTranspose`'s diagonal skipped and never written | `TransposedOnReturn` |
| `handleMiss_keep_dirty` | the evicted line's bytes left in `dirty_bytes` | `SimulatesLRU` |

### Fairness

Only `tsh_core` assumes fairness. It assumes weak fairness of the shell's
wait loop (`WaitDone` and `Suspend`) and strong fairness of the SIGCHLD
handler. The shell process is scheduled whenever it can run. On every
return to user mode the kernel delivers the pending signals that are not
blocked. So a SIGCHLD that stays pending while the shell sleeps in
`sigsuspend` with an empty mask cannot be put off forever. The children,
the user and the terminal owe nothing: a job may run forever, and then
the wait rightly never ends. Every other property is an invariant or, for
`LRUBehaviour` and `InterruptReachesJob`, a safety property of the form
`[][A]_v`.

The allocator runs have no fairness and no liveness. The allocator is a
library of synchronous calls, with no waiting and no process that must
make progress. Every property is an invariant.

## Findings

- `mm.c:1288`: malloc rounds `size + wsize` in `size_t` without an
  overflow check. For a request within 22 bytes of `SIZE_MAX`, it returns a
  16-byte block instead of NULL.
  - The spec's round-trip property says every live region stays usable
    for its requested size (§8); this one is not.
  - The spec's error design asks for an overflow check only in calloc's
    `count * size` (§7). It does not say malloc must detect this case,
    only that the region malloc returns must hold the request.

  calloc guards its product, but malloc does not guard its own sum.
- `mm.c:1029`: `check_header_and_footer` demands that every free block
  have a footer equal to its header, but a free mini block has no
  footer. `header_to_footer` names its successor word, which never equals
  its header, because the header carries the prev-alloc bit. So
  `mm_checkheap` rejects every correct heap with a free mini block past
  `heap_start`, and one `malloc(8)` from a fresh chunk leaves such a
  block. In a DEBUG build, the next malloc aborts on
  `dbg_requires(mm_checkheap(__LINE__))`. The checker's comment says it
  returns false only if the heap violates an invariant. `mm_core` shows
  this through `CheckheapVerdict`. It is a passing run, because the
  property states the checker's exact verdict, the false rejections
  included.
- `cache.c:193`: `decrement_ref` frees when `dead && refcnt`, a test that
  is inverted. `proxy_uaf` shows a block freed while a second reader is about
  to send it. The same test has the last reader of an evicted block, which
  brings `refcnt` to 0, skip the free, so the payload leaks. No run of
  its own shows the leak, because it comes from the same line. `free_block`'s comment promises that
  `decrement_ref` frees the block when the count reaches 0.
- `cache.c:310`: `insert` never initialises `refcnt`. In the trace,
  `decrement_ref`'s inverted test frees an evicted block while its count
  is still 1, malloc returns that address for the next `insert`, and the
  new block starts with `refcnt` 1 and no reader. `free_block` would then
  keep it as dead instead of freeing it.
- `cache.c:245` is not a bug. `removeLRU` would dereference a NULL
  `tail->prev` on a one-entry list. `EvictionSafe` shows this never happens
  while the cache holds more than two maximal objects, which the code's
  constants ensure.
- `tsh.c:363`: when `execve` fails with ENOENT, the child returns from
  `eval` ("if directory doesnt exist return") instead of exiting. A
  second shell then reads the same input beside the real one, with a copy
  of its job list.
- `tsh.c:356`: only the child calls `setpgid(0, 0)`, after it unblocks its
  signals. Until then it is in the shell's group, and a ctrl-c or ctrl-z
  handled by the shell in `sigsuspend` goes to a group that does not
  exist yet. The child consumes it with the inherited tsh handler, so
  the signal is lost. `sigint_handler`'s comment says it sends SIGINT to
  the foreground job. The usual remedy is for the parent to call
  `setpgid(pid, pid)` as well; the model does not check that remedy.
- `csim.c:218`: `time` is an `int` incremented per trace line with no
  bound. After 2^31 - 1 lines it wraps, in the build's arithmetic. The
  newest line then carries the least stamp, and it is the next one
  evicted. The header comment says each set tracks the last time each
  line was used. This needs a trace of over two billion lines. It is
  shown by setting `INT_BITS = 3` in `MCCsim.cfg`. It has no run of its own.
- `csim.c:101`: `processLine` passes the second `strtok` token to
  `strtol` without checking it for NULL. A blank line has one token
  (`"\n"`). So does the tail that `fgets` returns after a line of 23 or
  more characters. Either one kills the simulator mid-trace
  (`csim_bad_line`). `parseFile`'s comment assumes lines of at most 21
  characters, and nothing checks this. A trailing empty line in a trace
  file is enough.
- `mm.c:599` is a divergence from the spec's words that no property rests on. The spec (§4.2) says a mini block's predecessor is not stored. The code stores it in the upper bits of the mini block's own header. The model follows the code.

## Plan for the remaining components

Every component with state is modelled. What is left:

1. **`trans.c`'s miss count.** The lab scores each transpose by the
   misses it causes under the driver's cache, at the driver's addresses
   for `A` and `B`. Neither the driver nor `cachelab.h` is in the
   repository. `Trans` checks correctness only. Feeding `Trans`'s
   accesses to `Csim` would need those parameters to be assumed.
2. **An abstract allocator refined by `MM`** was planned. Its promises
   are disjoint, aligned live payloads that keep their contents, failure
   only when the heap is full, and failures that leave no trace. They are
   now checked directly as `AllocatedIsLive`, `PayloadIntact`,
   `MallocFailsOnlyWhenFull` and `FailureIsClean`, so a refinement
   mapping would add no new question. It is not planned further.

## Not modelled, and why

- memlib (`mem_sbrk`, `mem_memcpy`, `mem_memset`) is not in the
  repository. It is modelled from the spec: growth fails when the arena is
  exhausted or the increment is negative as `intptr_t`.
- The heap checker's printing, `print_heap` and the debug macros change no
  state.
- Socket I/O, HTTP parsing, header forwarding and string handling in the
  proxy are pure I/O. Cache keys are model values and responses are sizes.
  So two hazards of that code are listed without a property. A client
  that closes in the middle of its headers makes `parse_headers` spin
  (proxy.c:166). A read error of `rio_readnb`, -1 stored in `size_t n`,
  keeps `forward_to_client` looping (proxy.c:188). An empty request also
  leaves `buf` uninitialised when the parser reads it (proxy.c:146). Each
  of these depends on csapp's `rio`, which is not in the repository.
- `free_cache` is never reached: `main` accepts connections forever.
- In the shell, command-line parsing, I/O redirection and the `jobs`
  listing are abstracted to what they change: a child runs its program,
  exits, or returns from `eval`. `tsh_helper.c` (the job list) is not in
  the repository, so `fg_job` and `job_exists` are modelled from the spec.
- In the cache simulator, argument parsing, `printSummary` and the trace
  file's text are left out. A trace line is its operation letter and
  address, plus whether it fits `linebuf`, is longer than it, or has no
  address.
- The `btest` driver of the datalab and its `test_` reference functions
  are not in the repository. The references in `Bits` are written from
  the header comments in `bits.c`.
- `trans.c`'s miss count, for the reason given in the plan. `pyth_solver.c` is a recitation
  skeleton. Its getopt loop is called as `getopt(0, NULL, "")`, so the loop never runs.
  `a`, `b` and `c` stay -1, and `main` prints an error only when it is given 2 or 3 arguments.
  There is no state to check.
