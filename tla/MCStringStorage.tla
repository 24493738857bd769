--------------------------- MODULE MCStringStorage ---------------------------
(***************************************************************************)
(* Model checking of StringStorage: two different bytes, strings of up to  *)
(* three of them, and room for several strings that overlap.               *)
(***************************************************************************)
EXTENDS StringStorage
=============================================================================
