--------------------------- MODULE StudySessionMC ---------------------------
(* Symmetries of StudySession for TLC. *)
EXTENDS StudySessionLedger, TLC

Symmetry == Permutations(Requests) \cup Permutations(Cards)
            \cup Permutations(Sessions)
=============================================================================
