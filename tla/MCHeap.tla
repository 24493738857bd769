------------------------------- MODULE MCHeap -------------------------------
(***************************************************************************)
(* Model checking of Heap: four second level lists instead of sixteen, so  *)
(* that 3 is the only small size, 4 to 7 have lists of their own, and from *)
(* 8 on several sizes share a list.                                        *)
(***************************************************************************)
EXTENDS Heap
=============================================================================
