------------------------- MODULE StudySessionLedger -------------------------
(***************************************************************************)
(* StudySession refines SessionLedger for a client that sends one request  *)
(* about a session at a time, and what its counters then show.             *)
(***************************************************************************)
EXTENDS StudySession

SessionState(s) ==
  IF sessions[s].user = None THEN "none"
  ELSE IF sessions[s].ended THEN "closed" ELSE "open"

LedgerOf == [s \in Sessions |-> [state |-> SessionState(s),
                                count |-> sessions[s].count]]

Ledger == INSTANCE SessionLedger WITH ledger <- LedgerOf

(***************************************************************************)
(* One request at a time, the handlers keep the ledger's promise: each     *)
(* committed review adds to the counters of a session still open, and      *)
(* EndSession closes it as it was counted.                                 *)
(***************************************************************************)
RefinesLedger == Ledger!Spec

\* One request at a time, the counters of a session count every review of it
\* that was committed, whatever happened to the cards since.
CountsAreExact ==
  \A s \in Sessions, k \in Kinds :
    sessions[s].count[k] = Cardinality(ReviewsOf(s, k))
----------------------------------------------------------------------------
(***************************************************************************)
(* The inductive invariant of StudySessionLedgerProofs, beside IInv: what  *)
(* a request has read of its session is still so.                          *)
(***************************************************************************)
SerialOK(r) ==
  /\ UnderWay(r) => /\ sessions[req[r].session].user # None
                    /\ ~sessions[req[r].session].ended
                    /\ req[r].count = sessions[req[r].session].count
  /\ req[r].pc \in InTx /\ req[r].kind = "batch"
       => \A k \in Kinds : req[r].inc[k] + req[r].item <= MaxItems
  /\ req[r].kind = "submit" => \A k \in Kinds : req[r].inc[k] <= 1

SerialIInv == OneAtATime /\ CountsAreExact /\ \A r \in Requests : SerialOK(r)
=============================================================================
