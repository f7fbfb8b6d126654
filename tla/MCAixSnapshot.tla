--------------------------- MODULE MCAixSnapshot ---------------------------
(* AixSnapshot on a small instance; see the .cfg files for the values. *)
EXTENDS AixSnapshot, TLC

\* The goroutines are interchangeable, and no liveness is checked.
Symmetry == Permutations(Callers)
=============================================================================
