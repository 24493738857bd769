------------------------------ MODULE HeapSizes ------------------------------
(***************************************************************************)
(* The size classes of the TLSF heap of c_allocator_heap.cpp.  Sizes are   *)
(* in words of ALIGN_SIZE, 8 bytes.  A class is a pair of a first and a    *)
(* second level; sizes below SL_COUNT words have a class of their own,     *)
(* larger ones share a class with sizes of the same highest SL_SHIFT + 1   *)
(* bits.                                                                   *)
(***************************************************************************)
EXTENDS Integers

CONSTANT SL_SHIFT       \* 4 in the code

SL_COUNT == 2^SL_SHIFT

\* BLOCK_SIZE_MIN, BLOCK_SIZE_SMALL and sizeof(block_t) in words.
BLOCK_SIZE_MIN == 3
BLOCK_SIZE_SMALL == SL_COUNT
SizeOfBlock == 4

\* STATIC_ASSERTS(BLOCK_SIZE_MIN < BLOCK_SIZE_SMALL, ..)
ASSUME ShiftAssumption == SL_SHIFT \in Nat /\ BLOCK_SIZE_MIN < BLOCK_SIZE_SMALL

log2floor(x) == CHOOSE k \in 0..30 : 2^k <= x /\ x \div 2^k = 1

adjust_size(words) == IF words < BLOCK_SIZE_MIN THEN BLOCK_SIZE_MIN ELSE words

\* Mutant: a size is not rounded, as if its class held no smaller sizes.
round_block_size_Not(size) == size

\* The smallest size not below size that is the smallest one of its class.
round_block_size(size) ==
  LET t == 2^(log2floor(size) - SL_SHIFT)
  IN  IF size >= BLOCK_SIZE_SMALL THEN ((size + t - 1) \div t) * t ELSE size

\* First and second level of the class of a size.
mapping(size) ==
  LET t == log2floor(size)
  IN  IF size < BLOCK_SIZE_SMALL THEN <<0, size>>
      ELSE <<t - SL_SHIFT + 1, size \div 2^(t - SL_SHIFT) - SL_COUNT>>

\* Class c comes before class d: its blocks are smaller.
Before(c, d) == c[1] < d[1] \/ (c[1] = d[1] /\ c[2] < d[2])

=============================================================================
