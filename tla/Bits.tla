-------------------------------- MODULE Bits ----------------------------------
(***************************************************************************)
(* The datalab puzzles of src/datalab/bits.c, each an operator on words    *)
(* (module Words) written from its C body, and the btest harness that      *)
(* decl.c's test table drives: a step calls one puzzle on arguments from   *)
(* its range and records what it returned.  Each puzzle has a reference    *)
(* definition, written from the contract in its header comment, and the  *)
(* properties compare the two on every call.                               *)
(***************************************************************************)
EXTENDS Integers, Sequences, Words

CONSTANTS
    Longs,      \* sample 64-bit arguments (decl.c's range TMin .. TMax)
    Selectors,  \* sample first arguments of conditional
    Floats,     \* sample 32-bit float patterns
    Unsigneds   \* sample arguments of floatUnsigned2Float

VARIABLES
    fn,     \* the puzzle btest called last, "none" at first
    args,   \* its arguments
    ret,    \* what it returned
    pc      \* the index in test_set of the puzzle under test

vars == <<fn, args, ret, pc>>

Long(n) == Pat(n, 64)
Uns(n) == Pat(n, 32)

-----------------------------------------------------------------------------
(* Integer puzzles: long in, long out.                                     *)

bitMatch(x, y) == BNot(BAnd(BNot(BAnd(x, y)), BNot(BAnd(BNot(x), BNot(y)))))

\* `odds = (odds << k) + odds`
OddsStep(odds, k) == BAdd(Shl(odds, k), odds)

allOddBits(x) ==
    LET odds == OddsStep(OddsStep(OddsStep(Long(170), 8), 16), 32)
    IN  Bool(IsZero(BXor(BAnd(x, odds), odds)), 64)

leastBitPos(x) == BAnd(BAdd(BNot(x), Long(1)), x)

copyLSB(x) == Sar(Shl(x, 63), 63)

\* `(~condition_mask & y) | (condition_mask & z)`
Select(condition_mask, y, z) ==
    BOr(BAnd(BNot(condition_mask), y), BAnd(condition_mask, z))

conditional(x, y, z) == Select(Sar(Shl(Bool(IsZero(x), 64), 63), 63), y, z)

\* The shift counts are the arguments' values, 0 .. 63.
bitMask(highbit, lowbit) ==
    LET all1s == Long(-1)
    IN  BAnd(Shl(all1s, Field(lowbit, 0, 5)),
             BNot(Shl(Shl(all1s, Field(highbit, 0, 5)), 1)))

\* Mutant: the `& 1` dropped, so the arithmetic shift leaves -1 for true.
IsLessFrom_no_mask(difference, sameSign, x, y) ==
    Sar(BOr(BAnd(sameSign, difference), BAnd(x, BNot(y))), 63)

IsLessFrom(difference, sameSign, x, y) ==
    BAnd(Sar(BOr(BAnd(sameSign, difference), BAnd(x, BNot(y))), 63), Long(1))

\* Mutant: the sign of x - y decides even when x and y differ in sign.
isLess_overflowing(x, y) ==
    IsLessFrom(BAdd(x, BAdd(BNot(y), Long(1))), Long(-1), x, y)

isLess(x, y) ==
    IsLessFrom(BAdd(x, BAdd(BNot(y), Long(1))),
               BOr(BAnd(x, y), BAnd(BNot(x), BNot(y))), x, y)

\* `~((~totalRemainder + 1) >> 2) + 1`
MissingNegative(totalRemainder) ==
    BAdd(BNot(Sar(BAdd(BNot(totalRemainder), Long(1)), 2)), Long(1))

ThreeFourthsFrom(totalRemainder, sign, n) ==
    BAdd(BAdd(BAdd(BAdd(n, n), n), BAnd(BNot(sign), Sar(totalRemainder, 2))),
         BAnd(sign, MissingNegative(totalRemainder)))

trueThreeFourths(x) ==
    LET remainder == BAnd(x, Long(3))
    IN  ThreeFourthsFrom(BAdd(BAdd(remainder, remainder), remainder),
                         Sar(x, 63), Sar(x, 2))

\* `half = ((mask & half) << k) | (mask & (half >> k))`
Swap(half, mask, k) == BOr(Shl(BAnd(mask, half), k), BAnd(mask, Sar(half, k)))

\* `swap = (swap << 16) | swap` of a 16-bit pattern.
Spread(swap) == BOr(Shl(swap, 16), swap)

PalindromeFrom(x, firstHalfMask) ==
    LET half == BAnd(Sar(x, 32), firstHalfMask)
        rev == Swap(Swap(Swap(Swap(Swap(half, Spread(Long(21845)), 1),
                                   Spread(Long(13107)), 2),
                              Spread(Long(3855)), 4),
                         Spread(Long(255)), 8),
                    Long(65535), 16)
    IN  Bool(IsZero(BXor(rev, BAnd(x, firstHalfMask))), 64)

isPalindrome(x) == PalindromeFrom(x, BNot(Shl(BNot(Long(0)), 32)))

-----------------------------------------------------------------------------
(* Float puzzles: 32-bit patterns in unsigned, results unsigned or int.     *)

exp_mask == Uns(2139095040)        \* 0x7f800000
frac_mask == Uns(8388607)          \* 0x007fffff
abs_mask == Uns(2147483647)        \* 0x7fffffff
sign_exp_mask == Uns(-8388608)     \* 0xff800000

\* `(uf & exp_mask) == exp_mask && (uf & 0x007fffff)`
IsNaN(uf) == BAnd(uf, exp_mask) = exp_mask /\ ~IsZero(BAnd(uf, frac_mask))

\* `uf ^ (1L << 31)`: uf widened to long, the result cut back to unsigned.
floatNegate(uf) ==
    IF IsNaN(uf) THEN uf
    ELSE Trunc(BXor(ZExt(uf, 64), Shl(Long(1), 31)), 32)

\* remove_sign is `~(1 << 31)`, taken as unsigned in `uf & remove_sign`.
floatIsEqual(uf, ug) ==
    LET remove_sign == BNot(Shl(Uns(1), 31))
    IN  CASE IsNaN(uf) \/ IsNaN(ug) -> Uns(0)
          [] IsZero(BAnd(uf, remove_sign)) /\ IsZero(BAnd(ug, remove_sign)) -> Uns(1)
          [] OTHER -> Bool(uf = ug, 32)

floatIsLess(uf, ug) ==
    LET ufSign == uf[31] = 1
        ugSign == ug[31] = 1
        comparison == ULess(BAnd(uf, abs_mask), BAnd(ug, abs_mask))
    IN  CASE IsNaN(uf) \/ IsNaN(ug) -> Uns(0)
          [] IsZero(BAnd(uf, abs_mask)) /\ IsZero(BAnd(ug, abs_mask)) -> Uns(0)
          [] uf = ug -> Uns(0)
          [] ~ufSign /\ ~ugSign -> Bool(comparison, 32)
          [] ufSign /\ ugSign -> Bool(~comparison, 32)
          [] OTHER -> Bool(ufSign /\ ~ugSign, 32)

\* The denormal case returns `new + (carry << 1)`; a normal one adds one
\* to the exponent and, reaching 0xff, keeps only sign and exponent.
Scale2Normal(new) ==
    IF BAnd(new, exp_mask) = exp_mask THEN BAnd(new, sign_exp_mask) ELSE new

floatScale2(uf) ==
    LET carry == BAnd(Uns(4194304), uf)      \* 0x00400000 & uf
        new == BOr(BAnd(Shl(uf, 1), frac_mask), BAnd(uf, sign_exp_mask))
    IN  CASE BAnd(uf, exp_mask) = exp_mask -> uf
          [] IsZero(BAnd(uf, abs_mask)) -> uf
          [] IsZero(BAnd(uf, exp_mask)) -> BAdd(new, Shl(carry, 1))
          [] OTHER -> Scale2Normal(BAdd(uf, Uns(8388608)))

\* `while (!(u >> i)) i--;` from i = 31.
RECURSIVE HighBit(_, _)
HighBit(u, i) == IF IsZero(Shr(u, i)) THEN HighBit(u, i - 1) ELSE i

\* The rounded fraction: on a carry out of the fraction the exponent
\* takes it.
Rounded(exp, fraction) ==
    BOr(IF ~IsZero(BAnd(fraction, Uns(8388608))) THEN BAdd(exp, Uns(8388608)) ELSE exp,
        BAnd(fraction, frac_mask))

\* Mutant: round half up, the guard bit ignored.
U2FFrom_ties_up(u, i, exp, uShifted) ==
    LET round == ~IsZero(BAnd(Shl(uShifted, 24), Bit(31, 32)))
        fraction == BAnd(frac_mask, Shr(u, i - 23))
    IN  CASE i < 23 -> BOr(exp, BAnd(frac_mask, Shl(u, 23 - i)))
          [] round -> Rounded(exp, BAdd(fraction, Uns(1)))
          [] OTHER -> BOr(exp, BAnd(fraction, frac_mask))

U2FFrom(u, i, exp, uShifted) ==
    LET guard == ~IsZero(BAnd(Shl(uShifted, 23), Bit(31, 32)))
        round == ~IsZero(BAnd(Shl(uShifted, 24), Bit(31, 32)))
        sticky == ~IsZero(Shl(uShifted, 25))
        fraction == BAnd(frac_mask, Shr(u, i - 23))
    IN  CASE i < 23 -> BOr(exp, BAnd(frac_mask, Shl(u, 23 - i)))
          [] (guard /\ round) \/ (round /\ sticky) -> Rounded(exp, BAdd(fraction, Uns(1)))
          [] OTHER -> BOr(exp, BAnd(fraction, frac_mask))

U2FAt(u, i) == U2FFrom(u, i, Shl(Uns(127 + i), 23), Shl(u, 31 - i))

floatUnsigned2Float(u) == IF IsZero(u) THEN u ELSE U2FAt(u, HighBit(u, 31))

-----------------------------------------------------------------------------
(* The contracts of the header comments, as reference definitions.         *)

\* Signed `<` on two's complement words.
SLess(x, y) == (x[W(x) - 1] = 1 /\ y[W(y) - 1] = 0) \/
               (x[W(x) - 1] = y[W(y) - 1] /\ ULess(x, y))

Neg(x) == BAdd(BNot(x), Pat(1, W(x)))

\* x * 3 / 4 rounded toward 0, computed exactly in 66 bits.
ExactThreeFourths(x) ==
    LET t == BAdd(BAdd(SExt(x, 66), SExt(x, 66)), SExt(x, 66))
    IN  Trunc(IF t[65] = 0 THEN Sar(t, 2) ELSE Neg(Sar(Neg(t), 2)), 64)

RefInt(f, a) ==
    CASE f = "bitMatch" -> [i \in 0 .. 63 |-> IF a[1][i] = a[2][i] THEN 1 ELSE 0]
      [] f = "allOddBits" -> Bool(\A i \in 0 .. 63 : i % 2 = 1 => a[1][i] = 1, 64)
      [] f = "leastBitPos" ->
           [i \in 0 .. 63 |-> IF a[1][i] = 1 /\ \A j \in 0 .. i - 1 : a[1][j] = 0 THEN 1 ELSE 0]
      [] f = "copyLSB" -> [i \in 0 .. 63 |-> a[1][0]]
      [] f = "conditional" -> IF IsZero(a[1]) THEN a[3] ELSE a[2]
      [] f = "bitMask" ->
           [i \in 0 .. 63 |-> IF Field(a[2], 0, 5) <= i /\ i <= Field(a[1], 0, 5) THEN 1 ELSE 0]
      [] f = "isLess" -> Bool(SLess(a[1], a[2]), 64)
      [] f = "trueThreeFourths" -> ExactThreeFourths(a[1])
      [] f = "isPalindrome" -> Bool(\A i \in 0 .. 63 : a[1][i] = a[1][63 - i], 64)

\* A single-precision pattern: sign, then exponent and fraction, whose
\* 31 bits read as one unsigned number order the magnitudes.
Magnitude(u) == Field(u, 0, 30)
Exponent(u) == Field(u, 23, 30)
NaN(u) == Exponent(u) = 255 /\ Field(u, 0, 22) /= 0
Value(u) == IF u[31] = 1 THEN -Magnitude(u) ELSE Magnitude(u)
Float(sign, magnitude) == [Pat(magnitude, 32) EXCEPT ![31] = sign]

\* 2 * f: NaN and infinity stay, a denormal's magnitude doubles (into
\* the normals if it must), a normal's exponent grows, up to infinity.
TwoTimes(u) ==
    CASE Exponent(u) = 255 -> u
      [] Exponent(u) = 0 -> Float(u[31], 2 * Magnitude(u))
      [] Exponent(u) = 254 -> Float(u[31], 255 * 2^23)
      [] OTHER -> Float(u[31], Magnitude(u) + 2^23)

\* (float) u, rounded to nearest, ties to even.
ToFloat(u) ==
    LET p == CHOOSE k \in 0 .. 31 : u[k] = 1 /\ \A j \in k + 1 .. 31 : u[j] = 0
        d == p - 23
        kept == Field(u, d, p - 1)
        rem == Field(u, 0, d - 1)
        up == rem > 2^(d - 1) \/ (rem = 2^(d - 1) /\ kept % 2 = 1)
    IN  CASE IsZero(u) -> u
          [] p <= 23 -> Float(0, (127 + p) * 2^23 + (Field(u, 0, p) - 2^p) * 2^(23 - p))
          [] OTHER -> Float(0, (127 + p) * 2^23 + kept + (IF up THEN 1 ELSE 0))

RefFloat(f, a) ==
    CASE f = "floatNegate" -> IF NaN(a[1]) THEN a[1] ELSE [a[1] EXCEPT ![31] = 1 - @]
      [] f = "floatIsEqual" ->
           Bool(~NaN(a[1]) /\ ~NaN(a[2]) /\ Value(a[1]) = Value(a[2]), 32)
      [] f = "floatIsLess" ->
           Bool(~NaN(a[1]) /\ ~NaN(a[2]) /\ Value(a[1]) < Value(a[2]), 32)
      [] f = "floatScale2" -> TwoTimes(a[1])
      [] f = "floatUnsigned2Float" -> ToFloat(a[1])

-----------------------------------------------------------------------------
(* btest: decl.c's test_set, one call per step.                            *)

IntPuzzles == {"bitMatch", "allOddBits", "leastBitPos", "copyLSB", "conditional",
               "bitMask", "isLess", "trueThreeFourths", "isPalindrome"}
FloatPuzzles == {"floatNegate", "floatIsEqual", "floatIsLess", "floatScale2",
                 "floatUnsigned2Float"}
\* The puzzles whose result is a truth value.
Predicates == {"allOddBits", "isLess", "isPalindrome", "floatIsEqual", "floatIsLess"}

\* test_set's order.
TestSet == <<"bitMatch", "allOddBits", "leastBitPos", "copyLSB", "conditional",
             "bitMask", "isLess", "trueThreeFourths", "isPalindrome",
             "floatNegate", "floatIsEqual", "floatIsLess", "floatScale2",
             "floatUnsigned2Float">>

\* btest is about to call puzzle f.
Testing(f) == fn = "none" /\ pc \in DOMAIN TestSet /\ TestSet[pc] = f

\* One call of the puzzle under test on arguments a, returning r.
Call(f, a, r) == fn' = f /\ args' = a /\ ret' = r /\ UNCHANGED pc

\* The result is checked; the next call is on the next puzzle.
Checked ==
    /\ fn /= "none"
    /\ fn' = "none" /\ args' = <<>> /\ ret' = Long(0)
    /\ pc' = pc + 1

Init == fn = "none" /\ args = <<>> /\ ret = Long(0) /\ pc = 1

\* The ranges: TMin .. TMax for longs, 0 .. 63 for bitMask, any pattern
\* for the float puzzles.
Next ==
    \/ Testing("bitMatch") /\ \E x, y \in Longs : Call("bitMatch", <<x, y>>, bitMatch(x, y))
    \/ Testing("allOddBits") /\ \E x \in Longs : Call("allOddBits", <<x>>, allOddBits(x))
    \/ Testing("leastBitPos") /\ \E x \in Longs : Call("leastBitPos", <<x>>, leastBitPos(x))
    \/ Testing("copyLSB") /\ \E x \in Longs : Call("copyLSB", <<x>>, copyLSB(x))
    \/ Testing("conditional") /\ \E x \in Selectors, y, z \in Longs : Call("conditional", <<x, y, z>>, conditional(x, y, z))
    \/ Testing("bitMask") /\ \E h, l \in 0 .. 63 : Call("bitMask", <<Long(h), Long(l)>>, bitMask(Long(h), Long(l)))
    \/ Testing("isLess") /\ \E x, y \in Longs : Call("isLess", <<x, y>>, isLess(x, y))
    \/ Testing("trueThreeFourths") /\ \E x \in Longs : Call("trueThreeFourths", <<x>>, trueThreeFourths(x))
    \/ Testing("isPalindrome") /\ \E x \in Longs : Call("isPalindrome", <<x>>, isPalindrome(x))
    \/ Testing("floatNegate") /\ \E f \in Floats : Call("floatNegate", <<f>>, floatNegate(f))
    \/ Testing("floatIsEqual") /\ \E f, g \in Floats : Call("floatIsEqual", <<f, g>>, floatIsEqual(f, g))
    \/ Testing("floatIsLess") /\ \E f, g \in Floats : Call("floatIsLess", <<f, g>>, floatIsLess(f, g))
    \/ Testing("floatScale2") /\ \E f \in Floats : Call("floatScale2", <<f>>, floatScale2(f))
    \/ Testing("floatUnsigned2Float") /\ \E u \in Unsigneds : Call("floatUnsigned2Float", <<u>>, floatUnsigned2Float(u))
    \/ Checked

Spec == Init /\ [][Next]_vars

-----------------------------------------------------------------------------
(* Properties.                                                             *)

\* Longs in, longs out for the integer puzzles, unsigned or int for the
\* float ones; a predicate returns 0 or 1 (isLess's `>> 63 & 1`, the `!`
\* of the others).
TypeOK ==
    /\ fn \in IntPuzzles \cup FloatPuzzles \cup {"none"}
    /\ pc \in 1 .. Len(TestSet) + 1
    /\ fn \in IntPuzzles \/ fn = "none" => ret \in Word(64)
    /\ fn \in FloatPuzzles => ret \in Word(32)
    /\ fn \in Predicates => ret \in {Bool(FALSE, W(ret)), Bool(TRUE, W(ret))}

\* Every integer puzzle returns what its header comment promises, for
\* every sampled argument, the overflowing ones (TMin, TMax, 2^62)
\* included.
IntegerPuzzlesCorrect == fn \in IntPuzzles => ret = RefInt(fn, args)

\* Every float puzzle is IEEE single precision: NaN propagation and
\* comparison, signed zeros, denormals crossing into the normals, overflow
\* to infinity, and round-to-nearest-even in the conversion.
FloatPuzzlesCorrect == fn \in FloatPuzzles => ret = RefFloat(fn, args)

=============================================================================
