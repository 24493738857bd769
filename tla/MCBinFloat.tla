----------------------------- MODULE MCBinFloat -----------------------------
(***************************************************************************)
(* The size classes of two allocators, checked class by class with the     *)
(* constants of the code: the bins of the offset allocator (BinFloat) and  *)
(* the lists of the heap (HeapSizes).  The sizes visited are the smallest  *)
(* one of every bin up to LastBin, the one in the middle of the bin, and   *)
(* their neighbours: a list of the heap holds half the sizes of a bin, so  *)
(* that both ends of every list are among them.                            *)
(***************************************************************************)
EXTENDS BinFloat

CONSTANT LastBin      \* the last bin whose successor has a size below 2^31 in TLC

Heap == INSTANCE HeapSizes WITH SL_SHIFT <- MantissaBits + 1

VARIABLES
  bin,    \* a bin
  size    \* a size near its lower end or its middle

HalfOf(b) == (F32ToU32(b + 1) - F32ToU32(b)) \div 2

Near(b) == {F32ToU32(b) + h + d : h \in {0, HalfOf(b)}, d \in {-1, 0, 1}} \cap Nat

Init == bin = 0 /\ size \in Near(0)

\* A size near the next bin.
Step ==
  /\ bin < LastBin
  /\ bin' = bin + 1
  /\ size' \in Near(bin + 1)

Spec == Init /\ [][Step]_<<bin, size>>

-----------------------------------------------------------------------------

\* A free region is filed under the last bin whose sizes it can serve, and a
\* request is looked for from the first bin on that only has regions for it
\* (U32ToF32RoundDown and U32ToF32RoundUp).
RoundingIsTight ==
  LET down == U32ToF32RoundDown(size)
      up   == U32ToF32RoundUp(size)
  IN  /\ F32ToU32(down) <= size /\ size < F32ToU32(down + 1)
      /\ size <= F32ToU32(up) /\ (up = 0 \/ F32ToU32(up - 1) < size)

\* The two implementations agree (test_allocator_offset.cpp:51-52).
ImplementationsAgree ==
  /\ SizeToBinCeil(size) = U32ToF32RoundUp(size)
  /\ SizeToBinFloor(size) = U32ToF32RoundDown(size)

\* block_find_suitable of the heap: the lists from the one of the rounded size on hold
\* no block that is too small, the rounding goes no further than needed, and the
\* lists are ordered by size.
ListsServe ==
  size > Heap!BLOCK_SIZE_MIN =>
    LET rounded == Heap!round_block_size(size)
        list    == Heap!mapping(rounded)
    IN  /\ size <= rounded
        /\ Heap!Before(Heap!mapping(size - 1), list)
        /\ Heap!Before(Heap!mapping(rounded - 1), list)
        /\ list[2] \in 0..Heap!SL_COUNT - 1
        /\ ~Heap!Before(Heap!mapping(size), Heap!mapping(size - 1))

=============================================================================
