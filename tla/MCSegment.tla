------------------------------ MODULE MCSegment ------------------------------
(***************************************************************************)
(* Model checking of Segment.  The block sizes are powers of two; with     *)
(* words of two bits, eight units in blocks of one, two and four give a    *)
(* level with three layers, one with two and one with one, as 64*64*64     *)
(* units do with words of 64 bits.  There are two blocks of the maximum    *)
(* size, so that the merge beyond the maximum size can happen.             *)
(***************************************************************************)
EXTENDS Segment

Doubling == [i \in Sizes |-> 2^i]

=============================================================================
