--------------------------- MODULE AttemptLedger ---------------------------
(***************************************************************************)
(* What taking a quiz promises a client that sends one request at a time:  *)
(* an attempt is opened, each question is answered at most once, each      *)
(* answer adds its points to the score, and once the attempt is closed     *)
(* nothing of it changes any more.  The errors it promises instead are     *)
(* ErrAlreadyAnswered and ErrAttemptCompleted of internal/domain/errors.go.*)
(***************************************************************************)
EXTENDS Naturals

CONSTANTS Attempts, Questions, MaxPoints

VARIABLE ledger   \* per attempt: its state, what was answered, its result

Entry == [state: {"none", "open", "closed", "removed"},
          answered: SUBSET Questions, score: Nat, correct: Nat]

Blank == [state |-> "none", answered |-> {}, score |-> 0, correct |-> 0]

Init == ledger \in [Attempts -> {Blank, [Blank EXCEPT !.state = "open"]}]

Open(a) ==
  /\ ledger[a].state = "none"
  /\ ledger' = [ledger EXCEPT ![a].state = "open"]

Answer(a, q, points) ==
  /\ ledger[a].state = "open" /\ q \notin ledger[a].answered
  /\ ledger' = [ledger EXCEPT ![a] =
                  [state    |-> "open",
                   answered |-> ledger[a].answered \cup {q},
                   score    |-> ledger[a].score + points,
                   correct  |-> ledger[a].correct
                                  + (IF points = 0 THEN 0 ELSE 1)]]

Close(a) ==
  /\ ledger[a].state = "open"
  /\ ledger' = [ledger EXCEPT ![a].state = "closed"]

\* An author withdraws a question: its answers go, what they scored stays.
Withdraw(q) ==
  ledger' = [a \in Attempts |->
               [ledger[a] EXCEPT !.answered = @ \ {q}]]

\* An author removes a quiz with the attempts made at it.
Remove(gone) ==
  /\ \A a \in gone : ledger[a].state # "none"
  /\ ledger' = [a \in Attempts |->
                  IF a \in gone
                    THEN [state |-> "removed", answered |-> {},
                          score |-> ledger[a].score, correct |-> ledger[a].correct]
                    ELSE ledger[a]]

Next == \/ \E a \in Attempts :
             \/ Open(a) \/ Close(a)
             \/ \E q \in Questions, p \in 0..MaxPoints : Answer(a, q, p)
        \/ \E q \in Questions : Withdraw(q)
        \/ \E gone \in SUBSET Attempts : Remove(gone)

Spec == Init /\ [][Next]_ledger
============================================================================
