-------------------------------- MODULE Csim ----------------------------------
(***************************************************************************)
(* The cache simulator of src/cache/csim.c.                                *)
(*                                                                         *)
(* The state is the cache_t the simulator builds: one set_t per set, with  *)
(* its tags, dirty, valid and lastModified arrays, and the stats; and      *)
(* parseFile's time.  Each step is one iteration of parseFile's loop: a   *)
(* trace line is read (its operation and its address, as processLine      *)
(* leaves them), executeInstruction runs on it, and time is incremented.   *)
(* time is a C int; it wraps at INT_BITS bits.                              *)
(*                                                                         *)
(* fgets reads at most 23 characters into the 24-byte linebuf, so a line  *)
(* is one of LineKinds: "fits" (an operation and an address within 23     *)
(* characters with its newline), "long" (more: the first 23 characters    *)
(* hold the operation and address, and the next fgets returns the rest,   *)
(* one token such as "\n" or the last digits of the size) or "blank" (no  *)
(* address).  processLine on a chunk with one token gets NULL from its    *)
(* second strtok and passes it to strtol: the program crashes.             *)
(***************************************************************************)
EXTENDS Integers, Bitwise, SequencesExt

CONSTANTS
    setBits,        \* -s
    associativity,  \* -E
    blockBits,      \* -b
    Addresses,      \* the addresses a trace line may carry
    Ops,            \* operation letters: "L", "S" and any other
    LineKinds,      \* "fits", "long", "blank": the lines a trace may hold
    TRACE_LEN,      \* lines in the trace file
    INT_BITS        \* width of C's int

ASSUME associativity \in Nat \ {0} /\ setBits \in Nat /\ blockBits \in Nat
ASSUME Addresses \subseteq Nat /\ TRACE_LEN \in Nat

VARIABLES
    sets,   \* set number -> [tags, dirty, valid, lastModified]
    stats,  \* [hits, misses, evictions, dirty_bytes, dirty_evictions]
    time,   \* parseFile's time, the stamp of the current line
    read,   \* trace lines read so far (bounds the trace)
    rest,   \* fgets still holds the tail of a long line
    crashed \* processLine dereferenced NULL: the program is dead

vars == <<sets, stats, time, read, rest, crashed>>

SetNums == 0 .. 2^setBits - 1
Lines == 0 .. associativity - 1

\* `1 << cache->blockBits`
BlockBytes == 2^blockBits

\* C's int arithmetic as the build does it: two's complement wraparound.
IntWrap(x) == ((x + 2^(INT_BITS - 1)) % 2^INT_BITS) - 2^(INT_BITS - 1)

-----------------------------------------------------------------------------
(* The helpers of csim.c 106-134.                                          *)

\* `(address >> blockBits) & ~(-1 << setBits)`
getSetNum(address) == shiftR(address, blockBits) & (2^setBits - 1)

\* `address >> (setBits + blockBits)`
getTag(address) == shiftR(address, setBits + blockBits)

\* The first line not valid, or -1.
getFreeSpace(set) ==
    LET free == {i \in Lines : ~set.valid[i]}
    IN  IF free = {} THEN -1 ELSE CHOOSE i \in free : \A j \in free : i <= j

\* The loop keeps the first line whose stamp is strictly least so far.
RECURSIVE lruFrom(_, _, _)
lruFrom(lastModified, i, min) ==
    IF i >= associativity THEN min
    ELSE lruFrom(lastModified, i + 1,
                 IF lastModified[i] < lastModified[min] THEN i ELSE min)

getLeastRecentlyUsed(lastModified) == lruFrom(lastModified, 0, 0)

-----------------------------------------------------------------------------
(* executeInstruction and handleMiss (csim.c 137-200), on a cache record.  *)

Cache == [sets |-> sets, stats |-> stats]

\* A store into a clean line adds a block to dirty_bytes.
Dirtied(store) == IF store THEN BlockBytes ELSE 0

\* Mutant: an eviction does not take the evicted line's dirt off the count.
handleMiss_keep_dirty(c, s, t, isStore, tag) ==
    LET set == c.sets[s]
        freeSpace == getFreeSpace(set)
        LRU == getLeastRecentlyUsed(set.lastModified)
    IN  IF freeSpace /= -1
        THEN [c EXCEPT !.stats.misses = @ + 1,
                       !.sets[s].valid[freeSpace] = TRUE,
                       !.sets[s].tags[freeSpace] = tag,
                       !.sets[s].lastModified[freeSpace] = t,
                       !.sets[s].dirty[freeSpace] = isStore,
                       !.stats.dirty_bytes = @ + Dirtied(isStore)]
        ELSE [c EXCEPT !.stats.misses = @ + 1,
                       !.stats.evictions = @ + 1,
                       !.sets[s].lastModified[LRU] = t,
                       !.sets[s].tags[LRU] = tag,
                       !.stats.dirty_evictions = @ + Dirtied(set.dirty[LRU]),
                       !.sets[s].dirty[LRU] = isStore,
                       !.stats.dirty_bytes = @ + Dirtied(isStore)]

\* Mutant: `if (set.dirty[LRU])` dropped around the dirty accounting.
handleMiss_unconditional(c, s, t, isStore, tag) ==
    LET set == c.sets[s]
        freeSpace == getFreeSpace(set)
        LRU == getLeastRecentlyUsed(set.lastModified)
    IN  IF freeSpace /= -1
        THEN [c EXCEPT !.stats.misses = @ + 1,
                       !.sets[s].valid[freeSpace] = TRUE,
                       !.sets[s].tags[freeSpace] = tag,
                       !.sets[s].lastModified[freeSpace] = t,
                       !.sets[s].dirty[freeSpace] = isStore,
                       !.stats.dirty_bytes = @ + Dirtied(isStore)]
        ELSE [c EXCEPT !.stats.misses = @ + 1,
                       !.stats.evictions = @ + 1,
                       !.sets[s].lastModified[LRU] = t,
                       !.sets[s].tags[LRU] = tag,
                       !.stats.dirty_evictions = @ + BlockBytes,
                       !.sets[s].dirty[LRU] = isStore,
                       !.stats.dirty_bytes = @ - BlockBytes + Dirtied(isStore)]

\* A free line is filled; otherwise the least recently used line is
\* evicted, its dirty bytes moving from dirty_bytes to dirty_evictions.
handleMiss(c, s, t, isStore, tag) ==
    LET set == c.sets[s]
        freeSpace == getFreeSpace(set)
        LRU == getLeastRecentlyUsed(set.lastModified)
    IN  IF freeSpace /= -1
        THEN [c EXCEPT !.stats.misses = @ + 1,
                       !.sets[s].valid[freeSpace] = TRUE,
                       !.sets[s].tags[freeSpace] = tag,
                       !.sets[s].lastModified[freeSpace] = t,
                       !.sets[s].dirty[freeSpace] = isStore,
                       !.stats.dirty_bytes = @ + Dirtied(isStore)]
        ELSE [c EXCEPT !.stats.misses = @ + 1,
                       !.stats.evictions = @ + 1,
                       !.sets[s].lastModified[LRU] = t,
                       !.sets[s].tags[LRU] = tag,
                       !.stats.dirty_evictions = @ + Dirtied(set.dirty[LRU]),
                       !.sets[s].dirty[LRU] = isStore,
                       !.stats.dirty_bytes = @ - Dirtied(set.dirty[LRU])
                                               + Dirtied(isStore)]

\* The first valid line holding tag, or -1.
findLine(set, tag) ==
    LET hit == {i \in Lines : set.valid[i] /\ set.tags[i] = tag}
    IN  IF hit = {} THEN -1 ELSE CHOOSE i \in hit : \A j \in hit : i <= j

\* An operation other than L or S is reported and skipped.
executeInstruction(c, op, address, t) ==
    LET isStore == op = "S"
        s == getSetNum(address)
        tag == getTag(address)
        i == findLine(c.sets[s], tag)
        Hit == [c EXCEPT !.stats.hits = @ + 1,
                         !.sets[s].lastModified[i] = t,
                         !.stats.dirty_bytes = @ + Dirtied(isStore /\ ~c.sets[s].dirty[i]),
                         !.sets[s].dirty[i] = @ \/ isStore]
    IN  CASE op \notin {"S", "L"} -> c
          [] i /= -1              -> Hit
          [] OTHER                -> handleMiss(c, s, t, isStore, tag)

-----------------------------------------------------------------------------

\* makeSets, makeCache, and parseFile's `time = 1`.
Init ==
    /\ sets = [s \in SetNums |->
                 [tags |-> [i \in Lines |-> 0], dirty |-> [i \in Lines |-> FALSE],
                  valid |-> [i \in Lines |-> FALSE],
                  lastModified |-> [i \in Lines |-> -1]]]
    /\ stats = [hits |-> 0, misses |-> 0, evictions |-> 0,
                dirty_bytes |-> 0, dirty_evictions |-> 0]
    /\ time = 1
    /\ read = 0
    /\ rest = FALSE
    /\ crashed = FALSE

\* processLine finds an address token: the chunk is not a tail or blank.
HasAddress(kind) == kind \in {"fits", "long"}

\* Mutant: the loop forgets time++.
Step_no_tick(op, address, kind) ==
    /\ read < TRACE_LEN /\ ~rest /\ ~crashed /\ HasAddress(kind)
    /\ LET c == executeInstruction(Cache, op, address, time)
       IN  sets' = c.sets /\ stats' = c.stats
    /\ time' = time
    /\ read' = read + 1
    /\ rest' = (kind = "long")
    /\ UNCHANGED crashed

\* One iteration of parseFile's loop: fgets, processLine, executeInstruction,
\* time++.
Step(op, address, kind) ==
    /\ read < TRACE_LEN /\ ~rest /\ ~crashed /\ HasAddress(kind)
    /\ LET c == executeInstruction(Cache, op, address, time)
       IN  sets' = c.sets /\ stats' = c.stats
    /\ time' = IntWrap(time + 1)
    /\ read' = read + 1
    /\ rest' = (kind = "long")
    /\ UNCHANGED crashed

\* An iteration whose chunk has no address: a blank line, or the tail of a
\* long line.  strtol(NULL, NULL, 16) faults before executeInstruction.
Crash(kind) ==
    /\ ~crashed
    /\ \/ rest
       \/ read < TRACE_LEN /\ ~HasAddress(kind)
    /\ crashed' = TRUE
    /\ read' = IF rest THEN read ELSE read + 1
    /\ rest' = FALSE
    /\ UNCHANGED <<sets, stats, time>>

Next ==
    \/ \E op \in Ops, a \in Addresses, k \in LineKinds : Step(op, a, k)
    \/ \E k \in LineKinds : Crash(k)

Spec == Init /\ [][Next]_vars

-----------------------------------------------------------------------------
(* Properties.                                                             *)

TypeOK ==
    /\ sets \in [SetNums -> [tags : [Lines -> Nat], dirty : [Lines -> BOOLEAN],
                             valid : [Lines -> BOOLEAN],
                             lastModified : [Lines -> Int]]]
    /\ stats \in [{"hits", "misses", "evictions", "dirty_bytes", "dirty_evictions"} -> Nat]
    /\ time \in Int /\ read \in 0 .. TRACE_LEN
    /\ rest \in BOOLEAN /\ crashed \in BOOLEAN

\* getLeastRecentlyUsed picks the line with the least stamp, which is the
\* least recently used one only if the stamps of a set's valid lines are
\* distinct, positive and older than the current time.
StampsOrdered ==
    \A s \in SetNums, i, j \in Lines :
        LET set == sets[s] IN
        /\ set.valid[i] => 0 < set.lastModified[i] /\ set.lastModified[i] < time
        /\ set.valid[i] /\ set.valid[j] /\ i /= j =>
             set.lastModified[i] /= set.lastModified[j]

\* A set's valid lines, most recently used first, as SetLRU's sequence.
Recency(set) ==
    LET ls == SetToSortSeq({i \in Lines : set.valid[i]},
                           LAMBDA i, j : set.lastModified[i] > set.lastModified[j])
    IN  [k \in DOMAIN ls |-> [tag |-> set.tags[ls[k]], dirty |-> set.dirty[ls[k]]]]

SetLRUSpec == INSTANCE SetLRU WITH
    Sets <- SetNums, Tags <- {getTag(a) : a \in Addresses}, E <- associativity,
    lru <- [s \in SetNums |-> Recency(sets[s])],
    hits <- stats.hits, misses <- stats.misses, evictions <- stats.evictions,
    dirty_bytes <- stats.dirty_bytes, dirty_evictions <- stats.dirty_evictions

\* The simulator is an LRU cache: every trace line is a hit, a fill of a
\* free line or an eviction of the least recently used line of its set,
\* and the five counters printSummary reports count exactly those, with
\* the dirty bytes held and evicted.
SimulatesLRU == SetLRUSpec!Spec

\* The header of parseFile: "Trace file lines are probably not going to be
\* longer than 8+8+2+3 = 21".  Every chunk fgets hands processLine carries
\* an operation and an address, so the simulator runs to the end of the
\* trace.
ParsesEveryLine == ~crashed

=============================================================================
