----------------------------- MODULE LibraryMC -----------------------------
(* Symmetries of Library for TLC. *)
EXTENDS Library, TLC

Symmetry == Permutations(Requests)
=============================================================================
