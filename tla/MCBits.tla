------------------------------- MODULE MCBits ---------------------------------
(***************************************************************************)
(* Sample arguments for the datalab puzzles: the edges of each range (0,  *)
(* -1, TMin, TMax, the values whose 3x overflows), alternating bit        *)
(* patterns, palindromes and near misses; floats in every IEEE class with *)
(* both signs; unsigneds whose conversion ties or carries into the        *)
(* exponent.                                                               *)
(***************************************************************************)
EXTENDS Bits

Hex(a, b, c, d) == FromQuads(<<a, b, c, d>>)
Hex32(a, b) == FromQuads(<<a, b>>)

MC_Longs ==
    {Long(n) : n \in {0, 1, 2, 3, 5, 6, 7, 11, 14, 96, -1, -2, -3, -4, -9}} \cup
    { Hex(16^3 * 4, 0, 0, 0),                 \* 2^62
      Hex(49151, 65535, 65535, 65535),        \* -2^62 - 1
      Hex(32768, 0, 0, 0),                    \* TMin
      Hex(32768, 0, 0, 1),                    \* TMin + 1, a palindrome
      Hex(32767, 65535, 65535, 65535),        \* TMax
      Hex(32767, 65535, 65535, 65534),        \* TMax - 1
      Hex(43690, 43690, 43690, 43690),        \* 0xAAAA...
      Hex(21845, 21845, 21845, 21845),        \* 0x5555...
      Hex(65535, 65533, 65535, 65533),        \* 0xFFFFFFFDFFFFFFFD
      Hex(28431, 291, 50304, 61686),          \* 0x6F0F0123C480F0F6, a palindrome
      Hex(28431, 291, 50304, 61687),          \* one bit off it
      Hex(0, 1, 32768, 0) }                   \* bits 31 and 32

\* Single-precision patterns of every class, and their negations.
Magnitudes ==
    { Hex32(0, 0), Hex32(0, 1),               \* zero, least denormal
      Hex32(63, 65535), Hex32(64, 0),         \* denormals below and at bit 22
      Hex32(127, 65535), Hex32(128, 0),       \* greatest denormal, least normal
      Hex32(16256, 0), Hex32(16384, 0),       \* 1.0, 2.0
      Hex32(32511, 65535), Hex32(32512, 0),   \* exponents 253 and 254
      Hex32(32639, 65535),                    \* greatest finite
      Hex32(32640, 0),                        \* infinity
      Hex32(32640, 1), Hex32(32704, 0) }      \* NaNs

MC_Floats == Magnitudes \cup {[u EXCEPT ![31] = 1] : u \in Magnitudes}

MC_Selectors == {Long(0), Long(1), Long(-1), Hex(32768, 0, 0, 0)}

MC_Unsigneds ==
    {Uns(n) : n \in {0, 1, 2, 3, 8388607, 8388608, 16777215, 16777216,
                     16777217, 16777218, 16777219, 16777220,
                     33554434, 33554437, 33554438, 33554439, 2147483647,
                     -1, -128, -129, -384}} \cup {Bit(31, 32)}

=============================================================================
