-------------------------- MODULE MCMemoryFigures --------------------------
(* MemoryFigures on a small instance; see the .cfg files for the values. *)
EXTENDS MemoryFigures

AllSystems == DOMAIN Reads
=============================================================================
