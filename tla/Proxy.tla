-------------------------------- MODULE Proxy ---------------------------------
(***************************************************************************)
(* The connection threads of src/proxy/proxy.c over the cache of           *)
(* ProxyCache.                                                             *)
(*                                                                         *)
(* Each thread slot runs serve() for one connection after another.  A     *)
(* request names a key.  cache_lock is held only across in_cache (serve,   *)
(* 298-300/308) and across insert (forward_to_client, 198-200), and a      *)
(* thread does nothing else while it holds it, so each of those critical   *)
(* sections is one step.  ref_lock sections are inside those steps or are  *)
(* decrement_ref, a step of its own.  Between the steps are the blocking   *)
(* socket writes and reads, where other threads run.                       *)
(*                                                                         *)
(* stale is a ghost: the threads whose block was freed while they held it. *)
(***************************************************************************)
EXTENDS ProxyCache

CONSTANT Threads

VARIABLES
    pc,     \* thread -> "idle", "send", "decref" or "fetch"
    req,    \* thread -> the key of its request
    blk,    \* thread -> the block in_cache returned it, or NULL
    stale   \* set of threads whose block has been freed under them

vars == <<cache_vars, pc, req, blk, stale>>

\* Threads between in_cache and the end of decrement_ref.
Holding == {"send", "decref"}

Init ==
    /\ CacheInit
    /\ pc = [t \in Threads |-> "idle"]
    /\ req = [t \in Threads |-> AnyKey]
    /\ blk = [t \in Threads |-> NULL]
    /\ stale = {}

\* Commit a cache call; holders of a block it freed become stale.
Commit(c) ==
    /\ SetCache(c)
    /\ stale' = stale \cup {t \in Threads : pc[t] \in Holding /\ blk[t] \in c.freed}

Alive == fault = "none"

\* serve, 290-300 and 308: a new connection for key k; lock, in_cache,
\* unlock.  On a hit the thread goes on to send, else to the server.
Lookup(t, k) ==
    LET Serve(h) ==
            /\ blk' = [blk EXCEPT ![t] = h.blk]
            /\ IF h.blk /= NULL
               THEN /\ SetCache(h.st)
                    /\ pc' = [pc EXCEPT ![t] = "send"]
               ELSE /\ UNCHANGED cache_vars
                    /\ pc' = [pc EXCEPT ![t] = "fetch"]
    IN  /\ Alive
        /\ pc[t] = "idle"
        /\ req' = [req EXCEPT ![t] = k]
        /\ stale' = stale \ {t}
        /\ Serve(in_cache(Cache, k))

\* serve, 302: rio_writen of block->payload and block->size.
Send(t) ==
    /\ Alive
    /\ pc[t] = "send"
    /\ pc' = [pc EXCEPT ![t] = "decref"]
    /\ UNCHANGED <<cache_vars, req, blk, stale>>

\* serve, 303-306: decrement_ref(block), then the thread ends.
Release(t) ==
    /\ Alive
    /\ pc[t] = "decref"
    /\ Commit(decrement_ref(Cache, blk[t]))
    /\ pc' = [pc EXCEPT ![t] = "idle"]
    /\ blk' = [blk EXCEPT ![t] = NULL]
    /\ UNCHANGED req

\* serve, 310-315: open_clientfd fails and the thread ends.
ServerDown(t) ==
    /\ Alive
    /\ pc[t] = "fetch"
    /\ pc' = [pc EXCEPT ![t] = "idle"]
    /\ UNCHANGED <<cache_vars, req, blk, stale>>

\* Mutant: the response is cached whatever its size.
Forward_unguarded(t, n) ==
    /\ Alive
    /\ pc[t] = "fetch"
    /\ \E c \in insert(Cache, req[t], n) : Commit(c)
    /\ pc' = [pc EXCEPT ![t] = "idle"]
    /\ UNCHANGED <<req, blk>>

\* forward_to_client: the response has n bytes; if it fits in
\* MAX_OBJECT_SIZE it is inserted under cache_lock.  malloc's choice of
\* address is one of insert's outcomes; none is left when every address
\* of BlockIds is in use (the bound of the model).
Forward(t, n) ==
    /\ Alive
    /\ pc[t] = "fetch"
    /\ IF n <= MAX_OBJECT_SIZE
       THEN \E c \in insert(Cache, req[t], n) : Commit(c)
       ELSE UNCHANGED <<cache_vars, stale>>
    /\ pc' = [pc EXCEPT ![t] = "idle"]
    /\ UNCHANGED <<req, blk>>

Next ==
    \E t \in Threads :
        \/ \E k \in Keys : Lookup(t, k)
        \/ Send(t)
        \/ Release(t)
        \/ ServerDown(t)
        \/ \E n \in 0 .. MAX_OBJECT_SIZE + 1 : Forward(t, n)

Spec == Init /\ [][Next]_vars

-----------------------------------------------------------------------------
(* Properties.                                                             *)

TypeOK ==
    /\ head \in BlockIds \cup {NULL} /\ tail \in BlockIds \cup {NULL}
    /\ prv \in [BlockIds -> BlockIds \cup {NULL}]
    /\ nxt \in [BlockIds -> BlockIds \cup {NULL}]
    /\ bkey \in [BlockIds -> Keys] /\ bsize \in [BlockIds -> Sizes]
    /\ refcnt \in [BlockIds -> Int] /\ dead \in [BlockIds -> BOOLEAN]
    /\ allocated \subseteq BlockIds
    /\ cache_size \in 0 .. MAX_CACHE_SIZE
    /\ fault \in Faults
    /\ pc \in [Threads -> {"idle", "send", "decref", "fetch"}]
    /\ req \in [Threads -> Keys]
    /\ blk \in [Threads -> BlockIds \cup {NULL}]
    /\ stale \subseteq Threads

\* The list insert_head, visit and removeLRU maintain: walking next from
\* head reaches tail without a repeat, prev mirrors next, the ends are
\* NULL-terminated, and the listed blocks are exactly the allocated blocks
\* that free_block has not marked dead.
ListWellFormed ==
    /\ (head = NULL) = (tail = NULL)
    /\ Len(List) = Cardinality(Listed)
    /\ Listed = {b \in allocated : ~dead[b]}
    /\ head /= NULL =>
         /\ prv[head] = NULL /\ nxt[tail] = NULL
         /\ List[Len(List)] = tail
         /\ \A i \in 2 .. Len(List) : prv[List[i]] = List[i - 1]

RECURSIVE SizeOf(_)
SizeOf(s) == IF s = <<>> THEN 0 ELSE bsize[Head(s)] + SizeOf(Tail(s))

\* cache_size, which insert raises and removeLRU lowers, is the total size
\* of the listed blocks, and makeSpace keeps it within MAX_CACHE_SIZE.
SizeAccounted ==
    /\ cache_size = SizeOf(List)
    /\ cache_size <= MAX_CACHE_SIZE

\* makeSpace never calls removeLRU on a one-block list (whose
\* `(tail->prev)->next` is a NULL dereference) nor spins on an empty one:
\* with MAX_CACHE_SIZE above twice MAX_OBJECT_SIZE one block always leaves
\* room for another.
EvictionSafe == fault \notin {"segv", "hang"}

\* A thread that in_cache handed a block sends its payload (serve, 302)
\* and calls decrement_ref on it (303) before anyone frees it: the
\* refcount taken under cache_lock protects the payload after the unlock.
NoUseAfterFree ==
    \A t \in Threads : pc[t] \in Holding => t \notin stale

\* refcnt counts the threads between in_cache and decrement_ref.
RefcntCountsReaders ==
    \A b \in allocated :
        refcnt[b] = Cardinality({t \in Threads : pc[t] \in Holding /\ blk[t] = b
                                                 /\ t \notin stale})

\* The pointer list read as LRUCache's entries, head first.
ListEntries ==
    [i \in DOMAIN List |-> [key |-> bkey[List[i]], size |-> bsize[List[i]]]]

LRU == INSTANCE LRUCache WITH entries <- ListEntries

\* The proxy's cache behaves as an LRU cache: every step of every thread
\* either leaves the listed entries alone or is a hit that moves one to the
\* front or an insert of a new key that evicts the least recently used
\* entries, as few as make room; insert's in_cache check keeps keys unique.
LRUBehaviour == LRU!Spec

=============================================================================
