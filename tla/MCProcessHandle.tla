--------------------------- MODULE MCProcessHandle ---------------------------
(* ProcessHandle on a small instance; see the .cfg files for the values. *)
EXTENDS ProcessHandle, TLC

\* Two incarnations need two ticks; a sample that is late with time.Now() needs more.
MCMaxClock == [identity |-> 2, percent |-> 3]

\* The goroutines are interchangeable, and no liveness is checked.
Symmetry == Permutations(Callers)
=============================================================================
