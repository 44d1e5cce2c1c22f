-------------------------------- MODULE Trans ---------------------------------
(***************************************************************************)
(* The transpose functions of src/cache/trans.c.                           *)
(*                                                                         *)
(* A call is one of the functions registerFunctions registers, on an A of  *)
(* N rows and M columns.  Each step runs one iteration of the function's   *)
(* innermost loop body (the body may write nothing, as smallTranspose's    *)
(* does on a diagonal element), in the order of its loop nest; the final   *)
(* step is the return, where all but garboTranspose                        *)
(* assert(is_transpose(M, N, A, B)).                                       *)
(* A is filled with distinct values, so that every misplaced read or       *)
(* write shows in B; B starts as Garbage, the contents the driver left.    *)
(***************************************************************************)
EXTENDS Integers, SequencesExt

CONSTANTS
    Sizes,      \* the <<M, N>> a call may be made with
    Garbage     \* B's contents before the call, unequal to every A value

ASSUME Sizes \subseteq (Nat \ {0}) \X (Nat \ {0})

VARIABLES
    entry,  \* the registered function the driver called
    fn,     \* the function running: entry, or what transpose_submit chose
    M, N,   \* width and height of A
    B,      \* <<row, col>> -> value: B[M][N]
    tmp,    \* the first four doubles of tmp[TMPCOUNT]
    iter,   \* innermost iterations done so far
    done    \* the function has returned

vars == <<entry, fn, M, N, B, tmp, iter, done>>

Registered == {"transpose_submit", "trans_basic", "trans_tmp",
               "largeTranspose", "smallTranspose", "garboTranspose"}

\* A[i][j], distinct for distinct <<i, j>>.
A(i, j) == i * M + j

-----------------------------------------------------------------------------
(* The loop nests, as mixed-radix counters: iteration n of a nest with     *)
(* trip counts <<t1, ..., tk>> has the indices of n written in that radix. *)

RECURSIVE Digits(_, _)
Digits(n, trips) ==
    IF trips = <<>> THEN <<>>
    ELSE LET low == Last(trips)
         IN  Append(Digits(n \div low, Front(trips)), n % low)

\* transpose_submit's choice by size.
Submit(m, n) ==
    CASE m = 1024 /\ n = 1024 -> "largeTranspose"
      [] m = 32 /\ n = 32     -> "smallTranspose"
      [] OTHER                -> "garboTranspose"

\* Mutant: the block counts rounded up, (n + 7) / 8.
Trips_ceil(f, m, n) ==
    CASE f \in {"trans_basic", "trans_tmp", "garboTranspose"} -> <<n, m>>
      [] f = "largeTranspose" -> <<(n + 7) \div 8, (m + 7) \div 8, 8, 8>>
      [] f = "smallTranspose" -> <<(n + 7) \div 8, (m + 7) \div 8, 8, 9>>

\* The trip counts of each function's loops, outermost first.  smallTranspose's
\* k loop body is its c loop followed by the diagonal write: a ninth "c".
Trips(f, m, n) ==
    CASE f \in {"trans_basic", "trans_tmp", "garboTranspose"} -> <<n, m>>
      [] f = "largeTranspose" -> <<n \div 8, m \div 8, 8, 8>>
      [] f = "smallTranspose" -> <<n \div 8, m \div 8, 8, 9>>

Iterations(f, m, n) == FoldLeft(LAMBDA p, t : p * t, 1, Trips(f, m, n))

NoWrite == [dst |-> <<>>, src |-> <<>>]

\* Mutant: largeTranspose reads A[8*i+c][8*j+k], k and c swapped.
Write_swapped_kc(f, x) ==
    CASE f \in {"trans_basic", "trans_tmp", "garboTranspose"} ->
           [dst |-> <<x[2], x[1]>>, src |-> <<x[1], x[2]>>]
      [] f = "largeTranspose" \/ (f = "smallTranspose" /\ x[4] < 8) ->
           IF f = "smallTranspose" /\ x[3] = x[4] /\ x[1] = x[2] THEN NoWrite
           ELSE [dst |-> <<x[2] * 8 + x[4], x[1] * 8 + x[3]>>,
                 src |-> <<8 * x[1] + x[4], 8 * x[2] + x[3]>>]
      [] OTHER ->
           IF x[1] = x[2]
           THEN [dst |-> <<x[2] * 8 + x[3], x[1] * 8 + x[3]>>,
                 src |-> <<x[2] * 8 + x[3], x[1] * 8 + x[3]>>]
           ELSE NoWrite

\* Mutant: smallTranspose skips the diagonal in its c loop and never
\* writes it afterwards.
Write_no_diagonal(f, x) ==
    CASE f \in {"trans_basic", "trans_tmp", "garboTranspose"} ->
           [dst |-> <<x[2], x[1]>>, src |-> <<x[1], x[2]>>]
      [] f = "largeTranspose" \/ (f = "smallTranspose" /\ x[4] < 8) ->
           IF f = "smallTranspose" /\ x[3] = x[4] /\ x[1] = x[2] THEN NoWrite
           ELSE [dst |-> <<x[2] * 8 + x[4], x[1] * 8 + x[3]>>,
                 src |-> <<8 * x[1] + x[3], 8 * x[2] + x[4]>>]
      [] OTHER -> NoWrite

\* The write iteration x of f makes: B[dst] = A[src], or nothing.
\* trans_basic, trans_tmp and garboTranspose: B[j][i] = A[i][j].
\* largeTranspose: B[j*8+c][i*8+k] = A[8*i+k][8*j+c].
\* smallTranspose: the same unless k = c and i = j; then, after the c loop,
\* B[j*8+k][i*8+k] = A[j*8+k][i*8+k] when i = j.
Write(f, x) ==
    CASE f \in {"trans_basic", "trans_tmp", "garboTranspose"} ->
           [dst |-> <<x[2], x[1]>>, src |-> <<x[1], x[2]>>]
      [] f = "largeTranspose" \/ (f = "smallTranspose" /\ x[4] < 8) ->
           IF f = "smallTranspose" /\ x[3] = x[4] /\ x[1] = x[2] THEN NoWrite
           ELSE [dst |-> <<x[2] * 8 + x[4], x[1] * 8 + x[3]>>,
                 src |-> <<8 * x[1] + x[3], 8 * x[2] + x[4]>>]
      [] OTHER ->
           IF x[1] = x[2]
           THEN [dst |-> <<x[2] * 8 + x[3], x[1] * 8 + x[3]>>,
                 src |-> <<x[2] * 8 + x[3], x[1] * 8 + x[3]>>]
           ELSE NoWrite

\* trans_tmp's slot: 2 * (i % 2) + (j % 2).
TmpSlot(x) == 2 * (x[1] % 2) + (x[2] % 2)

\* is_transpose: A[i][j] = B[j][i] for every i < N, j < M.
is_transpose(m, n, b) ==
    \A i \in 0 .. n - 1, j \in 0 .. m - 1 : b[<<j, i>>] = A(i, j)

-----------------------------------------------------------------------------

\* The driver calls a registered function on a fresh B; transpose_submit
\* passes its arguments on to the function it picks.
Init ==
    /\ entry \in Registered
    /\ \E sz \in Sizes : M = sz[1] /\ N = sz[2]
    /\ fn = IF entry = "transpose_submit" THEN Submit(M, N) ELSE entry
    /\ B = [rc \in (0 .. M - 1) \X (0 .. N - 1) |-> Garbage]
    /\ tmp = [s \in 0 .. 3 |-> Garbage]
    /\ iter = 0
    /\ done = FALSE

\* B[dst] = v.  A dst outside B is kept, as the write out of bounds it is.
Store(b, dst, v) == (dst :> v) @@ b

\* One iteration of the innermost loop body.
Body ==
    /\ iter < Iterations(fn, M, N)
    /\ LET x == Digits(iter, Trips(fn, M, N))
           w == Write(fn, x)
       IN  IF fn = "trans_tmp"
           THEN LET t == [tmp EXCEPT ![TmpSlot(x)] = A(x[1], x[2])]
                IN  /\ tmp' = t
                    /\ B' = Store(B, w.dst, t[TmpSlot(x)])
           ELSE /\ B' = IF w = NoWrite THEN B ELSE Store(B, w.dst, A(w.src[1], w.src[2]))
                /\ UNCHANGED tmp
    /\ iter' = iter + 1
    /\ UNCHANGED <<entry, fn, M, N, done>>

\* The loops are over and the function returns.
Return ==
    /\ iter = Iterations(fn, M, N)
    /\ ~done
    /\ done' = TRUE
    /\ UNCHANGED <<entry, fn, M, N, B, tmp, iter>>

Next == Body \/ Return

Spec == Init /\ [][Next]_vars

-----------------------------------------------------------------------------
(* Properties.                                                             *)

\* Besides the types: B keeps its M x N domain, i.e. no write lands out of
\* bounds ("No out-of-bounds references are allowed").
TypeOK ==
    /\ entry \in Registered /\ fn \in Registered \ {"transpose_submit"}
    /\ <<M, N>> \in Sizes
    /\ B \in [(0 .. M - 1) \X (0 .. N - 1) -> Nat \cup {Garbage}]
    /\ tmp \in [0 .. 3 -> Nat \cup {Garbage}]
    /\ iter \in Nat /\ done \in BOOLEAN

\* Every write of every loop body puts A[i][j] into B[j][i]: whatever B
\* holds is the driver's garbage or the element transposed into it.
WritesTransposed ==
    \A rc \in DOMAIN B : B[rc] \in {Garbage, A(rc[2], rc[1])}

\* Sizes each function is meant for: transpose_submit "must be correct for
\* all values of M and N", the plain loops are; the 8 x 8 blocked ones
\* cover a matrix only when 8 divides both sides.
Intended(f, m, n) ==
    f \in {"transpose_submit", "trans_basic", "trans_tmp", "garboTranspose"}
    \/ (m % 8 = 0 /\ n % 8 = 0)

\* The assert(is_transpose(M, N, A, B)) at each function's return holds on
\* the sizes it is meant for: the blocked loops and smallTranspose's
\* deferred diagonal leave no element of B unwritten.
TransposedOnReturn ==
    done /\ Intended(entry, M, N) => is_transpose(M, N, B)

=============================================================================
