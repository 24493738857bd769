----------------------------- MODULE Iteration -----------------------------
(***************************************************************************)
(* A loop as the function from the number of its turns to its state.       *)
(***************************************************************************)
EXTENDS Naturals

\* turn[s] is the state after one turn from s.
StatesOf(turn, start) ==
  LET after[n \in Nat] == IF n = 0 THEN start ELSE turn[after[n - 1]]
  IN  after

=============================================================================
