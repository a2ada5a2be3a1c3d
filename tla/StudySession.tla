---------------------------- MODULE StudySession ----------------------------
(***************************************************************************)
(* Studying flashcards: StartSession, SubmitReview, BatchReview and        *)
(* EndSession of internal/service/study.go, run by concurrent HTTP         *)
(* requests against one PostgreSQL database (READ COMMITTED), while the    *)
(* owners suspend, reset and delete cards.                                 *)
(*                                                                         *)
(* As in QuizAttempt, one request is one value of Requests, every          *)
(* statement is one action, and a transaction's writes wait in the request *)
(* until its commit.  A batch holds the row locks of the cards it has      *)
(* updated while it goes on to the next, so batches may deadlock.  The     *)
(* items of a batch are chosen as it gets to them.                         *)
(***************************************************************************)
EXTENDS Naturals, FiniteSets

CONSTANTS Users, Sessions, Cards, Requests,
          None,         \* SQL NULL
          SentStates,   \* the card states that clients send
          MaxItems,     \* bound on the items of a batch (the API's is 500)
          MaxEdits      \* bound on the card owners' edits

\* The FSRS states of a card, and the counter of a session that counts a
\* review of a card in each of them.
CardStates == {"new", "learning", "review", "relearning"}
Kinds == {"new", "review", "relearn"}
KindOf == [s \in CardStates |-> CASE s = "new" -> "new"
                                  [] s \in {"review", "learning"} -> "review"
                                  [] s = "relearning" -> "relearn"]

ASSUME ConstantsOK ==
  /\ SentStates \subseteq CardStates
  /\ MaxItems \in Nat /\ MaxEdits \in Nat
  /\ None \notin Users \cup Sessions \cup Cards \cup Requests \cup CardStates

VARIABLES
  sessions,   \* study_sessions
  cards,      \* cards: life, is_suspended, state, and the request that wrote it
  logs,       \* review_logs of source "flashcard"
  req,        \* the requests, what each has read, and the writes of its transaction
  reviews,    \* history: every review log ever committed
  edits       \* how many edits the owners have made

db   == <<sessions, cards, logs>>
vars == <<db, req, reviews, edits>>

Counts == [Kinds -> Nat]
Zero   == [k \in Kinds |-> 0]
One(k) == [Zero EXCEPT ![k] = 1]
m ++ n == [k \in Kinds |-> m[k] + n[k]]

Session == [user: Users \cup {None}, ended: BOOLEAN, count: Counts]
Card    == [life: {"live", "deleted"}, suspended: BOOLEAN, state: CardStates,
            by: Requests \cup {None}]
\* A review log: the request and the item of it that inserted the row, the
\* session, the card, and the state of the card before.
Review  == [by: Requests, item: 0..MaxItems, session: Sessions, card: Cards,
            state: CardStates]

InTx  == {"item", "write", "commit", "doomed"}
Ended == {"ok", "refused", "failed"}

Request == [pc: {"new", "card", "end"} \cup InTx \cup Ended,
            kind: {"none", "submit", "batch", "end"},
            session: Sessions \cup {None}, count: Counts, inc: Counts,
            item: 0..MaxItems, card: Cards \cup {None},
            state: CardStates, sent: CardStates,
            mine: [Cards -> CardStates \cup {None}], logged: SUBSET Review]

NewRequest ==
  [pc |-> "new", kind |-> "none", session |-> None, count |-> Zero,
   inc |-> Zero, item |-> 0, card |-> None, state |-> "new", sent |-> "new",
   mine |-> [c \in Cards |-> None], logged |-> {}]
FreeSession == [user |-> None, ended |-> FALSE, count |-> Zero]

\* Any session may already be under way.
Init ==
  /\ sessions \in [Sessions -> {FreeSession} \cup
                     {[FreeSession EXCEPT !.user = u] : u \in Users}]
  /\ cards \in [Cards -> [life: {"live"}, suspended: BOOLEAN, state: {"new"},
                          by: {None}]]
  /\ logs = {}
  /\ req = [r \in Requests |-> NewRequest]
  /\ reviews = {}
  /\ edits = 0
----------------------------------------------------------------------------
\* What a request ends with: an error keeps nothing of what it read or wrote.
End(r, how) == req' = [req EXCEPT ![r] = [NewRequest EXCEPT !.pc = how]]
NoCount == UNCHANGED <<reviews, edits>>

UnderWay(r) == req[r].pc \in {"card", "end"} \cup InTx

\* The row lock an UPDATE of a transaction holds until it commits.
Locks(r, c)   == req[r].pc \in InTx /\ req[r].mine[c] # None
CardLocked(r, c) == \E s \in Requests \ {r} : Locks(s, c)

StartSession(u, s) ==
  /\ sessions[s] = FreeSession
  /\ sessions' = [sessions EXCEPT ![s].user = u]
  /\ UNCHANGED <<cards, logs, req>> /\ NoCount

(***************************************************************************)
(* SubmitReview, BatchReview and EndSession begin alike: the session must  *)
(* exist, belong to the caller and not be ended.  What was read of its row *)
(* is kept, and written back later.  Operators named Mut... are broken     *)
(* variants of the definition after them; nothing uses them unless it      *)
(* replaces its definition to show that a property notices.                *)
(***************************************************************************)
MutUsable(s, u) == sessions[s].user = u   \* no check of ended_at

Usable(s, u) == sessions[s].user = u /\ ~sessions[s].ended

LoadSession(r, u, s, kind, next) ==
  /\ req[r].pc = "new"
  /\ \/ /\ Usable(s, u)
        /\ req' = [req EXCEPT ![r] =
                     [@ EXCEPT !.pc = next, !.kind = kind, !.session = s,
                               !.count = sessions[s].count,
                               !.item = IF kind = "batch" THEN MaxItems ELSE 0]]
     \/ /\ ~Usable(s, u)
        /\ End(r, "refused")
  /\ UNCHANGED db /\ NoCount

SubmitLoadSession(r, u, s) == LoadSession(r, u, s, "submit", "card")
BatchLoadSession(r, u, s)  == LoadSession(r, u, s, "batch", "item")
EndLoadSession(r, u, s)    == LoadSession(r, u, s, "end", "end")

(***************************************************************************)
(* The card of a review is read, without a lock, to know the state it is   *)
(* reviewed in.  SubmitReview reads it before its transaction begins and   *)
(* refuses what it cannot use; BatchReview reads it inside, where it sees  *)
(* its own writes, and skips what it cannot use.                           *)
(***************************************************************************)
Reviewable(c) == cards[c].life = "live" /\ ~cards[c].suspended

Reviewing(r, c, before, sent) ==
  req' = [req EXCEPT ![r] = [@ EXCEPT !.pc = "write", !.card = c,
                                      !.state = before, !.sent = sent]]

SubmitLoadCard(r, c) ==
  /\ req[r].pc = "card"
  /\ \/ /\ Reviewable(c)
        /\ \E sent \in SentStates : Reviewing(r, c, cards[c].state, sent)
     \/ End(r, "refused")                  \* not reviewable, or sent invalid
  /\ UNCHANGED db /\ NoCount

BatchLoadCard(r, c) ==
  /\ req[r].pc = "item" /\ req[r].item > 0 /\ Reviewable(c)
  /\ \E sent \in SentStates :
       Reviewing(r, c, IF req[r].mine[c] = None THEN cards[c].state
                                                ELSE req[r].mine[c], sent)
  /\ UNCHANGED db /\ NoCount

\* The card is gone or suspended, or what was sent for it is invalid.
BatchSkipItem(r) ==
  /\ req[r].pc = "item" /\ req[r].item > 0
  /\ req' = [req EXCEPT ![r].item = @ - 1]
  /\ UNCHANGED db /\ NoCount

(***************************************************************************)
(* UpdateFSRS and the review log.  On a card deleted since it was read,    *)
(* the UPDATE touches no row and the INSERT violates the foreign key:      *)
(* SubmitReview returns the error.  BatchReview goes on to the next item,  *)
(* but PostgreSQL refuses every further statement of the transaction, the  *)
(* last UPDATE included.                                                   *)
(***************************************************************************)
ReviewLog(r) ==
  [by |-> r, item |-> req[r].item, session |-> req[r].session,
   card |-> req[r].card, state |-> req[r].state]

MutReviewed(r) ==   \* an error of the log only skips the log
  req' = [req EXCEPT ![r] =
            [@ EXCEPT !.pc = IF req[r].kind = "batch" THEN "item" ELSE "commit",
                      !.item = IF req[r].kind = "batch" THEN @ - 1 ELSE @,
                      !.mine[req[r].card] = req[r].sent]]

Reviewed(r) ==
  req' = [req EXCEPT ![r] =
            [@ EXCEPT !.pc = IF req[r].kind = "batch" THEN "item" ELSE "commit",
                      !.item = IF req[r].kind = "batch" THEN req[r].item - 1
                                                    ELSE req[r].item,
                      !.inc = req[r].inc ++ One(KindOf[req[r].state]),
                      !.mine[req[r].card] = req[r].sent,
                      !.logged = req[r].logged \cup {ReviewLog(r)}]]

Answered(r) ==
  req' = [req EXCEPT ![r] = [NewRequest EXCEPT !.pc = "ok", !.kind = req[r].kind,
                                               !.session = req[r].session]]

MutReviewFailed(r) ==   \* SubmitReview returns nil all the same
  IF req[r].kind = "batch" THEN req' = [req EXCEPT ![r].pc = "doomed"]
                           ELSE Answered(r)

ReviewFailed(r) ==
  IF req[r].kind = "batch" THEN req' = [req EXCEPT ![r].pc = "doomed"]
                           ELSE End(r, "failed")

MutReviewWrite(r) ==   \* the session's counters escape the transaction
  /\ req[r].pc = "write"
  /\ ~CardLocked(r, req[r].card)
  /\ \/ cards[req[r].card].life = "live" /\ Reviewed(r)
     \/ cards[req[r].card].life # "live" /\ ReviewFailed(r)
  /\ sessions' = [sessions EXCEPT ![req[r].session].count =
                    req[r].count ++ req[r].inc ++ One(KindOf[req[r].state])]
  /\ UNCHANGED <<cards, logs>> /\ NoCount

ReviewWrite(r) ==
  /\ req[r].pc = "write"
  /\ ~CardLocked(r, req[r].card)
  /\ \/ cards[req[r].card].life = "live" /\ Reviewed(r)
     \/ cards[req[r].card].life # "live" /\ ReviewFailed(r)
  /\ UNCHANGED db /\ NoCount

(***************************************************************************)
(* Batches that update common cards in different orders wait for each      *)
(* other; PostgreSQL picks one of them and fails its UPDATE.               *)
(***************************************************************************)
WaitsFor(r, s) == /\ req[r].pc = "write" /\ r # s
                  /\ Locks(s, req[r].card)

InDeadlock(r) ==
  \E circle \in SUBSET Requests :
    /\ r \in circle
    /\ \A s \in circle : /\ \E t \in circle : WaitsFor(s, t)
                         /\ \E t \in circle : WaitsFor(t, s)

MutDeadlockAbort(r) ==   \* nobody looks for deadlocks
  /\ InDeadlock(r)
  /\ UNCHANGED vars

DeadlockAbort(r) ==
  /\ InDeadlock(r)
  /\ ReviewFailed(r)
  /\ UNCHANGED db /\ NoCount

BatchAborted(r) ==
  /\ req[r].pc = "doomed"
  /\ End(r, "failed")
  /\ UNCHANGED db /\ NoCount

(***************************************************************************)
(* The UPDATE of the session, which writes back the counters as they were  *)
(* read plus the increments, and the commit.  Nothing follows the UPDATE   *)
(* but the commit, so that waiting for its row lock is waiting to commit.  *)
(***************************************************************************)
MutCommitReviews(r) ==   \* no COALESCE: ended_at is written back as it was read
  /\ req[r].pc = "commit" \/ req[r].pc = "item"
  /\ sessions' = [sessions EXCEPT ![req[r].session] =
                    [@ EXCEPT !.count = req[r].count ++ req[r].inc,
                              !.ended = FALSE]]
  /\ cards' = [c \in Cards |->
                 IF req[r].mine[c] = None THEN cards[c]
                 ELSE [cards[c] EXCEPT !.state = req[r].mine[c], !.by = r]]
  /\ logs' = logs \cup req[r].logged
  /\ reviews' = reviews \cup req[r].logged
  /\ Answered(r)
  /\ UNCHANGED edits

CommitReviews(r) ==
  /\ req[r].pc = "commit" \/ req[r].pc = "item"
  /\ sessions' = [sessions EXCEPT ![req[r].session].count =
                    req[r].count ++ req[r].inc]
  /\ cards' = [c \in Cards |->
                 IF req[r].mine[c] = None THEN cards[c]
                 ELSE [cards[c] EXCEPT !.state = req[r].mine[c], !.by = r]]
  /\ logs' = logs \cup req[r].logged
  /\ reviews' = reviews \cup req[r].logged
  /\ Answered(r)
  /\ UNCHANGED edits

MutEndWrite(r) ==   \* an UPDATE of a session that was not read
  /\ req[r].pc = "end"
  /\ sessions' = [sessions EXCEPT ![req[r].session] =
                    [@ EXCEPT !.ended = TRUE, !.count = Zero]]
  /\ Answered(r)
  /\ UNCHANGED <<cards, logs>> /\ NoCount

\* Writes back the counters as they were read, too.
EndWrite(r) ==
  /\ req[r].pc = "end"
  /\ sessions' = [sessions EXCEPT ![req[r].session] =
                    [@ EXCEPT !.ended = TRUE, !.count = req[r].count]]
  /\ Answered(r)
  /\ UNCHANGED <<cards, logs>> /\ NoCount

\* Any statement may fail, the client may go away, the server may stop: the
\* handler returns early and an open transaction is rolled back.
Fail(r) ==
  /\ UnderWay(r)
  /\ End(r, "failed")
  /\ UNCHANGED db /\ NoCount
----------------------------------------------------------------------------
\* The statements of the card owners, as the requests above see them.
Edit(c) == /\ edits < MaxEdits
           /\ cards[c].life = "live" /\ \A r \in Requests : ~Locks(r, c)
           /\ edits' = edits + 1
           /\ UNCHANGED <<sessions, req, reviews>>

SetSuspended(c) ==
  /\ Edit(c)
  /\ cards' = [cards EXCEPT ![c].suspended = ~@]
  /\ UNCHANGED logs

ResetFSRS(c) ==
  /\ Edit(c)
  /\ cards' = [cards EXCEPT ![c] = [@ EXCEPT !.state = "new", !.by = None]]
  /\ UNCHANGED logs

DeleteCard(c) ==
  /\ Edit(c)
  /\ cards' = [cards EXCEPT ![c].life = "deleted"]
  /\ logs' = {l \in logs : l.card # c}
----------------------------------------------------------------------------
\* What the handler of request r does next, once it is under way.
Step(r) ==
  \/ \E c \in Cards : SubmitLoadCard(r, c) \/ BatchLoadCard(r, c)
  \/ BatchSkipItem(r)
  \/ ReviewWrite(r) \/ DeadlockAbort(r) \/ BatchAborted(r)
  \/ CommitReviews(r)
  \/ EndWrite(r)

Arrive(r) ==
  \E u \in Users, s \in Sessions :
    SubmitLoadSession(r, u, s) \/ BatchLoadSession(r, u, s) \/ EndLoadSession(r, u, s)

CardEdit == \E c \in Cards : SetSuspended(c) \/ ResetFSRS(c) \/ DeleteCard(c)

Next == \/ \E r \in Requests : Arrive(r) \/ Step(r) \/ Fail(r)
        \/ \E u \in Users, s \in Sessions : StartSession(u, s)
        \/ CardEdit

Spec == Init /\ [][Next]_vars

\* Goroutines are scheduled, and PostgreSQL wakes the waiters of a row lock
\* and breaks every deadlock after deadlock_timeout.
FairSpec == Spec /\ \A r \in Requests : WF_vars(Step(r))

(***************************************************************************)
(* A client that waits for each reply before it sends the next request     *)
(* about a session.                                                        *)
(***************************************************************************)
OneAtATime ==
  \A r, s \in Requests :
    UnderWay(r) /\ UnderWay(s) /\ req[r].session = req[s].session => r = s

SerialSpec == Init /\ [][Next /\ OneAtATime']_vars
----------------------------------------------------------------------------
TypeOK ==
  /\ sessions \in [Sessions -> Session]
  /\ cards \in [Cards -> Card]
  /\ logs \subseteq Review /\ reviews \subseteq Review
  /\ req \in [Requests -> Request]
  /\ edits \in 0..MaxEdits

\* The reviews ever committed that counter k of session s is about.
ReviewsOf(s, k) == {l \in reviews : l.session = s /\ KindOf[l.state] = k}

(***************************************************************************)
(* A session never counts a review that was not committed: increments that *)
(* overwrite each other may lose counts and never invent one, and a        *)
(* transaction that fails takes its increments with it.                    *)
(***************************************************************************)
CountsWithinReviews ==
  \A s \in Sessions, k \in Kinds :
    sessions[s].count[k] <= Cardinality(ReviewsOf(s, k))

(***************************************************************************)
(* A session that has ended stays so, though SubmitReview and BatchReview  *)
(* write back a row they read before: UpdateStudySession keeps ended_at    *)
(* where it is given NULL.                                                 *)
(***************************************************************************)
EndedStaysEnded ==
  [][\A s \in Sessions : sessions[s].ended => sessions'[s].ended]_vars

(***************************************************************************)
(* The FSRS state of a card came from a review only together with the      *)
(* review's log: they are committed, and deleted, together.                *)
(***************************************************************************)
CardStateHasItsLog ==
  \A c \in Cards :
    cards[c].life = "live" /\ cards[c].by # None
      => \E l \in logs : l.by = cards[c].by /\ l.card = c

\* A review SubmitReview reports as done is logged in the session it was sent
\* to, until its card is deleted.
ReviewsAcknowledged ==
  \A r \in Requests :
    req[r].pc = "ok" /\ req[r].kind = "submit"
      => \E l \in reviews : /\ l.by = r /\ l.session = req[r].session
                            /\ l \in logs \/ cards[l.card].life = "deleted"

\* Deleting a card leaves no log of it, even when a review is under way.
NoOrphans == \A l \in logs : cards[l.card].life = "live"

\* A review never suspends or revives a card, though it writes back a card it
\* read earlier: only the FSRS columns are written.
SuspensionKept ==
  [][\A c \in Cards : cards'[c].suspended # cards[c].suspended => req' = req]_vars

(***************************************************************************)
(* A handler that has begun ends: batches that wait for each other's row   *)
(* locks do not wait forever.                                              *)
(***************************************************************************)
EveryRequestEnds ==
  \A r \in Requests : UnderWay(r) ~> req[r].pc \in Ended
----------------------------------------------------------------------------
(***************************************************************************)
(* What the source says of these handlers and interleavings refute.        *)
(***************************************************************************)

\* The tests of BatchReview: an item that fails is counted in Errors, and the
\* batch goes on.
BatchSurvivesItems == \A r \in Requests : req[r].pc # "doomed"
----------------------------------------------------------------------------
(***************************************************************************)
(* The inductive invariant of StudySessionProofs.                          *)
(***************************************************************************)
OfKind(L, k) == {l \in L : KindOf[l.state] = k}

RequestOK(r) ==
  /\ UnderWay(r) => req[r].session \in Sessions
  /\ req[r].pc \in {"card", "commit"} => req[r].kind = "submit"
  /\ req[r].pc \in {"item", "doomed"} => req[r].kind = "batch"
  /\ req[r].pc = "end" => req[r].kind = "end"
  /\ req[r].pc = "write"
       => /\ req[r].card \in Cards
          /\ IF req[r].kind = "batch" THEN req[r].item > 0
             ELSE req[r].kind = "submit" /\ req[r].logged = {}
  /\ req[r].pc = "commit" => req[r].logged # {}

\* What a transaction is about to write: one log for each item done, of a card
\* that it keeps locked, and one increment for each log.
PendingOK(r) ==
  /\ req[r].pc \notin InTx
       => req[r].logged = {} /\ req[r].inc = Zero /\ \A c \in Cards : req[r].mine[c] = None
  /\ IsFiniteSet(req[r].logged)
  /\ \A l \in req[r].logged :
       /\ l.by = r /\ l.session = req[r].session
       /\ req[r].mine[l.card] # None
       /\ req[r].kind = "batch" => l.item > req[r].item
  /\ \A c \in Cards : req[r].mine[c] # None
       => cards[c].life = "live" /\ \E l \in req[r].logged : l.card = c
  /\ \A k \in Kinds : req[r].inc[k] = Cardinality(OfKind(req[r].logged, k))

\* What a request has read of its session was counted by committed reviews,
\* and none of them is its own.
RequestCounts(r) ==
  /\ UnderWay(r) => \A k \in Kinds :
       req[r].count[k] <= Cardinality(ReviewsOf(req[r].session, k))
  /\ req[r].pc # "ok" => \A l \in reviews : l.by # r

IInv ==
  /\ TypeOK
  /\ IsFiniteSet(reviews) /\ logs \subseteq reviews
  /\ \A r \in Requests : RequestOK(r) /\ PendingOK(r) /\ RequestCounts(r)
  /\ CountsWithinReviews /\ CardStateHasItsLog /\ ReviewsAcknowledged /\ NoOrphans
============================================================================
