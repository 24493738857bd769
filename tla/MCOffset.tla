------------------------------ MODULE MCOffset ------------------------------
(***************************************************************************)
(* Model checking of Offset: a range of a few units and floats with one    *)
(* mantissa bit, so that sizes from 5 on are rounded and the search has to  *)
(* pass from one group of bins to the next.                                *)
(***************************************************************************)
EXTENDS Offset
=============================================================================
