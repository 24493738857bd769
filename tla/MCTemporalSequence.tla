------------------------- MODULE MCTemporalSequence -------------------------
(***************************************************************************)
(* Model checking of TemporalSequence over all sequences up to a length.   *)
(***************************************************************************)
EXTENDS TemporalSequence
=============================================================================
