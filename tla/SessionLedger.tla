--------------------------- MODULE SessionLedger ---------------------------
(***************************************************************************)
(* What studying promises a client that sends one request at a time: a     *)
(* session is opened, every review of it adds one to the counter its card  *)
(* belongs to, and once the session is closed nothing of it changes any    *)
(* more.  The error it promises instead is ErrSessionEnded of              *)
(* internal/domain/errors.go.                                              *)
(***************************************************************************)
EXTENDS Naturals

CONSTANTS Sessions, Kinds, MaxItems

VARIABLE ledger   \* per session: its state and what it counts

Blank == [state |-> "none", count |-> [k \in Kinds |-> 0]]

Init == ledger \in [Sessions -> {Blank, [Blank EXCEPT !.state = "open"]}]

Open(s) ==
  /\ ledger[s].state = "none"
  /\ ledger' = [ledger EXCEPT ![s].state = "open"]

\* One review, or as many as a batch holds.
Review(s, done) ==
  /\ ledger[s].state = "open"
  /\ ledger' = [ledger EXCEPT ![s].count =
                  [k \in Kinds |-> ledger[s].count[k] + done[k]]]

Close(s) ==
  /\ ledger[s].state = "open"
  /\ ledger' = [ledger EXCEPT ![s].state = "closed"]

Next == \E s \in Sessions :
          \/ Open(s) \/ Close(s)
          \/ \E done \in [Kinds -> 0..(MaxItems + 1)] : Review(s, done)

Spec == Init /\ [][Next]_ledger
============================================================================
