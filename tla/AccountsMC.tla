----------------------------- MODULE AccountsMC -----------------------------
(* Symmetries of Accounts for TLC. *)
EXTENDS Accounts, TLC

Symmetry == Permutations(Requests) \cup Permutations(Users)
=============================================================================
