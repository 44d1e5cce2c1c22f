------------------------------ MODULE LRUCache -------------------------------
(***************************************************************************)
(* What the proxy's cache promises (cache.c's comments and the proxy       *)
(* handout): a sequence of entries, most recently used first, each key at *)
(* most once, whose sizes stay below MAX_CACHE_SIZE.  A hit moves its      *)
(* entry to the front; a new object of at most MAX_OBJECT_SIZE bytes goes *)
(* in front after the least recently used entries are dropped, as few as  *)
(* leave room for it.                                                      *)
(***************************************************************************)
EXTENDS Integers, SequencesExt

CONSTANTS Keys, MAX_OBJECT_SIZE, MAX_CACHE_SIZE

VARIABLE entries   \* <<[key, size], ...>>, most recently used first

Entry == [key : Keys, size : 0 .. MAX_OBJECT_SIZE]

Cached == {entries[i].key : i \in DOMAIN entries}

Used(s) == FoldSeq(LAMBDA e, acc : e.size + acc, 0, s)

\* Drop least recently used entries until `space` more bytes fit.
RECURSIVE Evict(_, _)
Evict(s, space) ==
    IF s = <<>> \/ MAX_CACHE_SIZE - Used(s) > space THEN s
    ELSE Evict(Front(s), space)

Init == entries = <<>>

\* A lookup or a repeated insert of a cached key.
Touch(k) ==
    /\ k \in Cached
    /\ LET e == CHOOSE x \in ToSet(entries) : x.key = k
       IN  entries' = Cons(e, Remove(entries, e))

\* A new object is cached.
Add(k, n) ==
    /\ k \notin Cached
    /\ n \in 0 .. MAX_OBJECT_SIZE
    /\ entries' = Cons([key |-> k, size |-> n], Evict(entries, n))

Next == \E k \in Keys : Touch(k) \/ \E n \in 0 .. MAX_OBJECT_SIZE : Add(k, n)

Spec == Init /\ [][Next]_entries

\* The promised shape: entries are typed, keys unique, and within bounds.
Consistent ==
    /\ entries \in Seq(Entry)
    /\ \A i, j \in DOMAIN entries : i /= j => entries[i].key /= entries[j].key
    /\ Used(entries) < MAX_CACHE_SIZE
=============================================================================
