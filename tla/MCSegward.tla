------------------------------ MODULE MCSegward ------------------------------
(***************************************************************************)
(* Model checking of Segward: segments of four units of which a request    *)
(* takes one or two, so that a few calls fill, leave and reuse segments.   *)
(***************************************************************************)
EXTENDS Segward
=============================================================================
