----------------------------- MODULE StudyQueue -----------------------------
(***************************************************************************)
(* What a user is given to study: the queries of cards.sql.go behind the   *)
(* session queue, the counts of a deck and the reminders, what             *)
(* internal/repository/card.go makes of their rows, and the services that  *)
(* combine them (study.go, stats.go).                                      *)
(*                                                                         *)
(* Cards are a set of records [id, deck, state, due, suspended], decks a   *)
(* set of which some are archived, and all are one user's.  Time is a      *)
(* natural number.                                                         *)
(***************************************************************************)
EXTENDS Naturals, Sequences, FiniteSets, SequencesExt, FiniteSetsExt, Listing

New == 0
Learning == 1
Review == 2
Relearning == 3

AsCard(c) == c.state \in {Learning, Review, Relearning}
In(cards, deck) == {c \in cards : c.deck = deck /\ ~c.suspended}

(***************************************************************************)
(* GetDueCards: cards in learning first, then those to review, then new    *)
(* ones, each by due date; ties in any order.  At most "limit" rows.       *)
(***************************************************************************)
Rank(c) == CASE c.state \in {Learning, Relearning} -> 0
             [] c.state = Review -> 1
             [] c.state = New -> 2

Before(c, d) == \/ Rank(c) < Rank(d)
                \/ Rank(c) = Rank(d) /\ c.due < d.due

MutOffered(cards, deck, now) ==
    {c \in In(cards, deck) : c.state = New \/ (c.state = Review /\ c.due <= now)}

Offered(cards, deck, now) ==
    {c \in In(cards, deck) : c.state = New \/ c.due <= now}

DueRows(cards, deck, now, limit) ==
    LET offered == Offered(cards, deck, now)
        sorted == {s \in SetToSeqs(offered) :
                      \A i, j \in DOMAIN s : i < j => ~Before(s[j], s[i])}
        n == IF limit < Cardinality(offered) THEN limit ELSE Cardinality(offered)
    IN  {SubSeq(s, 1, n) : s \in sorted}

(***************************************************************************)
(* The repository asks for as many rows as both limits together and drops  *)
(* the new cards beyond the first newLimit.                                *)
(***************************************************************************)
NewBefore(rows, i) == Cardinality({j \in 1 .. i - 1 : rows[j].state = New})

GetDueCards(cards, deck, now, newLimit, reviewLimit) ==
    {LET kept == {i \in DOMAIN rows : rows[i].state # New \/ NewBefore(rows, i) < newLimit}
     IN  KeepAt(rows, kept) :
        rows \in DueRows(cards, deck, now, newLimit + reviewLimit)}

(***************************************************************************)
(* StartSession: the queue and its counts (countCards).                    *)
(***************************************************************************)
Having(queue, states) == Cardinality({i \in DOMAIN queue : queue[i].state \in states})

countCards(queue) ==
    [new |-> Having(queue, {New}), learning |-> Having(queue, {Learning, Relearning}),
     review |-> Having(queue, {Review}), total |-> Len(queue)]

StartSession(cards, deck, now, user) ==
    {[cards |-> q, counts |-> countCards(q)] :
        q \in GetDueCards(cards, deck, now, user.dailyNewLimit, user.dailyReviewLimit)}

-----------------------------------------------------------------------------
(***************************************************************************)
(* The counts of a deck, and DeckStats.                                    *)
(***************************************************************************)
CountByState(cards, deck, state) ==
    Cardinality({c \in In(cards, deck) : c.state = state})

CountDue(cards, deck, now) ==
    Cardinality({c \in In(cards, deck) : AsCard(c) /\ c.due <= now})

DeckStats(cards, deck, now) ==
    LET count(s) == CountByState(cards, deck, s)
    IN  [total |-> count(New) + count(Learning) + count(Review) + count(Relearning),
         new |-> count(New), learning |-> count(Learning), review |-> count(Review),
         relearning |-> count(Relearning), due |-> CountDue(cards, deck, now)]

(***************************************************************************)
(* GetUpcomingDueSummary: a row per deck in use that has something to      *)
(* study before the horizon.  GetNextDueAt: the next due date after now, 0 *)
(* when there is none.                                                     *)
(***************************************************************************)
Summary(cards, deck, now, horizon) ==
    LET mine == In(cards, deck)
    IN  [deck |-> deck,
         new |-> Cardinality({c \in mine : c.state = New}),
         dueNow |-> Cardinality({c \in mine : AsCard(c) /\ c.due <= now}),
         dueSoon |-> Cardinality({c \in mine : AsCard(c) /\ c.due > now /\ c.due <= horizon})]

GetUpcomingDueSummary(cards, decks, now, horizon) ==
    {s \in {Summary(cards, d, now, horizon) : d \in decks} :
        s.new > 0 \/ s.dueNow + s.dueSoon > 0}

GetNextDueAt(cards, decks, now) ==
    LET later == {c.due : c \in {d \in cards : /\ d.deck \in decks /\ ~d.suspended
                                               /\ AsCard(d) /\ d.due > now}}
    IN  IF later = {} THEN 0 ELSE Min(later)

(***************************************************************************)
(* GetReminders, of the decks that are not archived.                       *)
(***************************************************************************)
GetReminders(cards, decks, now, hoursAhead) ==
    LET rows == GetUpcomingDueSummary(cards, decks, now, now + hoursAhead)
    IN  [decks |-> rows,
         totalDue |-> SumFunction([s \in rows |-> s.dueNow]),
         dueSoon |-> SumFunction([s \in rows |-> s.dueSoon]),
         nextDueAt |-> GetNextDueAt(cards, decks, now)]
=============================================================================
