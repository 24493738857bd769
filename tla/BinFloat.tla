------------------------------ MODULE BinFloat ------------------------------
(***************************************************************************)
(* nfloat of c_allocator_offset.cpp: sizes as small floating point numbers *)
(* of MantissaBits mantissa bits.  The number of a bin is the bit pattern  *)
(* of such a float; a size is rounded up to find a bin whose regions are   *)
(* all large enough, and down to find the bin a free region belongs in.    *)
(***************************************************************************)
EXTENDS Integers

CONSTANT MantissaBits       \* MANTISSA_BITS, TOP_BINS_INDEX_SHIFT: 3 in the code

ASSUME MantissaAssumption == MantissaBits \in 1..30

MantissaValue == 2^MantissaBits

\* The quotients of x by 2^n and the remainder: x >> n and x & ((1 << n) - 1).
Shr(x, n) == x \div 2^n
LowBits(x, n) == x % 2^n

\* Every size is below 2^31.
MaxSize == 2147483647

HighestSetBit(x) == CHOOSE k \in 0..30 : 2^k <= x /\ Shr(x, k) = 1

\* How far the hidden bit and the mantissa of a normalized size are shifted up.
MantissaStartBit(size) == HighestSetBit(size) - MantissaBits

\* The bit pattern of the largest float that is not above size.
U32ToF32RoundDown(size) ==
  IF size < MantissaValue THEN size
  ELSE LET start == MantissaStartBit(size)
       IN  (start + 1) * MantissaValue + LowBits(Shr(size, start), MantissaBits)

\* Mutant: the bits below the mantissa are dropped.
U32ToF32RoundUp_Truncates(size) == U32ToF32RoundDown(size)

\* The bit pattern of the smallest float that is not below size; a mantissa
\* that overflows carries into the exponent.
U32ToF32RoundUp(size) ==
  IF size < MantissaValue THEN size
  ELSE LET start == MantissaStartBit(size)
           up    == IF LowBits(size, start) # 0 THEN 1 ELSE 0
       IN  (start + 1) * MantissaValue + LowBits(Shr(size, start), MantissaBits) + up

F32ToU32(float) ==
  LET exponent == Shr(float, MantissaBits)
      mantissa == LowBits(float, MantissaBits)
  IN  IF exponent = 0 THEN mantissa ELSE (mantissa + MantissaValue) * 2^(exponent - 1)

-----------------------------------------------------------------------------
(* The second implementation of the same conversions.                      *)

LeafShift(size) ==
  IF size >= MantissaValue THEN HighestSetBit(Shr(size, MantissaBits)) ELSE 0

\* Mutant: the size is rounded down.
SizeToBinCeil_NoRound(size) ==
  LET bin == LeafShift(size) IN bin * MantissaValue + Shr(size, bin)

SizeToBinCeil(size) ==
  LET bin == LeafShift(size) IN bin * MantissaValue + Shr(size + 2^bin - 1, bin)

SizeToBinFloor(size) ==
  LET bin == LeafShift(size) IN bin * MantissaValue + Shr(size, bin)

=============================================================================
