--------------------------- MODULE QuizAttemptMC ---------------------------
(* Values of the constants of QuizAttempt for TLC. *)
EXTENDS QuizAttemptLedger, TLC

CONSTANTS u1, z1, q1, q2, c1

\* One quiz, two questions, of which the first is made from a card.
OneQuizOwner == z1 :> u1
OneQuizOf    == (q1 :> z1) @@ (q2 :> z1)
FirstLinked  == (q1 :> c1) @@ (q2 :> None)

RequestSymmetry == Permutations(Requests)
============================================================================
