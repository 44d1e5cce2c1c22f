-------------------------------- MODULE Words ---------------------------------
(***************************************************************************)
(* Machine words as C computes on them: a w-bit word is a function from   *)
(* bit positions 0 .. w-1 (least significant first) to {0, 1}.  TLC's     *)
(* integers have 32 bits, so 64-bit longs and 32-bit unsigneds are kept   *)
(* bit by bit; every operator below is the C operator on two's complement *)
(* words, with wraparound, and shifts by less than the width.             *)
(***************************************************************************)
EXTENDS Integers, Sequences, FiniteSets, TLC

\* The word f itself.  TLC computes `@@` at once, so every operator below
\* builds its bits one time, not once for each bit read of a later one.
Now(f) == f @@ (0 :> 0)

Word(w) == [0 .. w - 1 -> {0, 1}]

W(x) == Cardinality(DOMAIN x)

\* The w-bit two's complement pattern of the integer n (floor division
\* sign-extends a negative n).
Pat(n, w) ==
    LET q[i \in 0 .. w - 1] == IF i = 0 THEN n ELSE q[i - 1] \div 2
    IN  Now([i \in 0 .. w - 1 |-> q[i] % 2])

\* The word with only bit k set.
Bit(k, w) == Now([i \in 0 .. w - 1 |-> IF i = k THEN 1 ELSE 0])

\* The unsigned value of bits lo .. hi (at most 31 of them).
Field(x, lo, hi) ==
    LET v[i \in lo - 1 .. hi] == IF i < lo THEN 0 ELSE 2 * v[i - 1] + x[hi - (i - lo)]
    IN  v[hi]

\* The word of the 16-bit groups q[1] (most significant) .. q[n].
FromQuads(q) ==
    LET n == Cardinality(DOMAIN q)
    IN  Now([i \in 0 .. 16 * n - 1 |-> (q[n - i \div 16] \div 2^(i % 16)) % 2])

IsZero(x) == \A i \in DOMAIN x : x[i] = 0

\* `!`, and any other C truth value, as a w-bit 0 or 1.
Bool(b, w) == Pat(IF b THEN 1 ELSE 0, w)

BNot(x) == Now([i \in DOMAIN x |-> 1 - x[i]])
BAnd(x, y) == Now([i \in DOMAIN x |-> x[i] * y[i]])
BOr(x, y) == Now([i \in DOMAIN x |-> IF x[i] + y[i] > 0 THEN 1 ELSE 0])
BXor(x, y) == Now([i \in DOMAIN x |-> (x[i] + y[i]) % 2])

\* `+` with the carry rippling up and the last carry dropped; st is <<the
\* sum's low i bits, the carry into bit i>>.
RECURSIVE SumFrom(_, _, _, _)
SumFrom(x, y, i, st) ==
    CASE i = W(x) -> st[1]
      [] st[2] \in {0, 1} ->
           SumFrom(x, y, i + 1, <<Append(st[1], (x[i] + y[i] + st[2]) % 2),
                                  (x[i] + y[i] + st[2]) \div 2>>)

BAdd(x, y) ==
    LET s == SumFrom(Now(x), Now(y), 0, <<<<>>, 0>>) IN Now([i \in DOMAIN x |-> s[i + 1]])

\* `x << n`, `x >> n` on a signed word (arithmetic), and on an unsigned one.
Shl(x, n) == Now([i \in DOMAIN x |-> IF i >= n THEN x[i - n] ELSE 0])
Sar(x, n) == Now([i \in DOMAIN x |-> IF i + n < W(x) THEN x[i + n] ELSE x[W(x) - 1]])
Shr(x, n) == Now([i \in DOMAIN x |-> IF i + n < W(x) THEN x[i + n] ELSE 0])

\* Unsigned `<`: the highest differing bit is 0 in x.
ULess(x, y) ==
    \E i \in DOMAIN x : x[i] = 0 /\ y[i] = 1 /\ \A j \in i + 1 .. W(x) - 1 : x[j] = y[j]

\* Conversions between widths: truncation, zero and sign extension.
Trunc(x, w) == Now([i \in 0 .. w - 1 |-> x[i]])
ZExt(x, w) == Now([i \in 0 .. w - 1 |-> IF i < W(x) THEN x[i] ELSE 0])
SExt(x, w) == Now([i \in 0 .. w - 1 |-> IF i < W(x) THEN x[i] ELSE x[W(x) - 1]])

=============================================================================
