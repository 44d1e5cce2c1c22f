------------------------------- MODULE SetLRU --------------------------------
(***************************************************************************)
(* What the cache simulator promises: every set of a set-associative      *)
(* cache holds at most E blocks, ordered from most to least recently used. *)
(* An access to a held block is a hit and moves it to the front; any other *)
(* access is a miss that puts the block in front, evicting the least      *)
(* recently used one when the set is full.  A store marks its block dirty. *)
(* dirty_bytes counts the bytes of the dirty blocks held, and             *)
(* dirty_evictions the bytes of the dirty blocks evicted.                  *)
(***************************************************************************)
EXTENDS Integers, SequencesExt

CONSTANTS
    Sets,         \* set numbers
    Tags,         \* the tags the accesses can carry
    E,            \* lines per set
    BlockBytes    \* bytes per block

VARIABLES lru, hits, misses, evictions, dirty_bytes, dirty_evictions

vars == <<lru, hits, misses, evictions, dirty_bytes, dirty_evictions>>

Line == [tag : Tags, dirty : BOOLEAN]

Held(s) == {lru[s][i].tag : i \in DOMAIN lru[s]}

\* The bytes a store makes dirty, or 0.
Bytes(cond) == IF cond THEN BlockBytes ELSE 0

Init ==
    /\ lru = [s \in Sets |-> <<>>]
    /\ hits = 0 /\ misses = 0 /\ evictions = 0
    /\ dirty_bytes = 0 /\ dirty_evictions = 0

Hit(s, tag, store) ==
    LET l == CHOOSE x \in ToSet(lru[s]) : x.tag = tag
    IN  /\ tag \in Held(s)
        /\ lru' = [lru EXCEPT ![s] = Cons([tag |-> tag, dirty |-> l.dirty \/ store],
                                          Remove(@, l))]
        /\ hits' = hits + 1
        /\ dirty_bytes' = dirty_bytes + Bytes(store /\ ~l.dirty)
        /\ UNCHANGED <<misses, evictions, dirty_evictions>>

Fill(s, tag, store) ==
    /\ tag \notin Held(s)
    /\ Len(lru[s]) < E
    /\ lru' = [lru EXCEPT ![s] = Cons([tag |-> tag, dirty |-> store], @)]
    /\ misses' = misses + 1
    /\ dirty_bytes' = dirty_bytes + Bytes(store)
    /\ UNCHANGED <<hits, evictions, dirty_evictions>>

Evict(s, tag, store) ==
    LET victim == Last(lru[s])
    IN  /\ tag \notin Held(s)
        /\ Len(lru[s]) = E
        /\ lru' = [lru EXCEPT ![s] = Cons([tag |-> tag, dirty |-> store], Front(@))]
        /\ misses' = misses + 1
        /\ evictions' = evictions + 1
        /\ dirty_evictions' = dirty_evictions + Bytes(victim.dirty)
        /\ dirty_bytes' = dirty_bytes - Bytes(victim.dirty) + Bytes(store)
        /\ UNCHANGED hits

Next ==
    \E s \in Sets, tag \in Tags, store \in BOOLEAN :
        Hit(s, tag, store) \/ Fill(s, tag, store) \/ Evict(s, tag, store)

Spec == Init /\ [][Next]_vars

=============================================================================
