--------------------------- MODULE MCSelectionCache ---------------------------
(* A small instance of SelectionCache for TLC. *)
EXTENDS SelectionCache, TLC

\* Tokens are random and interchangeable.
Symmetry == Permutations(Tokens)
================================================================================
