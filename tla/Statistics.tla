----------------------------- MODULE Statistics -----------------------------
(***************************************************************************)
(* The statistics of internal/service/stats.go and the goals of goal.go,   *)
(* with the queries on review_logs, study_goals and quiz_attempts they     *)
(* rest on.                                                                *)
(*                                                                         *)
(* Reviews are a set of records [id, day, rating, state, ms], all of one   *)
(* user, a day being a natural number.  A percentage is counted in         *)
(* hundredths of a percent; arithmetic is exact where the code uses        *)
(* float64 and rounds to two places.                                       *)
(***************************************************************************)
EXTENDS Integers, Sequences, FiniteSets, SequencesExt, FiniteSetsExt, Listing

CONSTANTS ReviewRows,   \* rows a list of reviews returns at most: 10000
          WeakRows,     \* weak cards a user is shown the areas of: 50
          TopRows       \* and how many of them are returned: 20

ASSUME RowsOK == ReviewRows \in Nat /\ WeakRows \in Nat /\ TopRows \in Nat

Round(a, b) == (2 * a + b) \div (2 * b)

Percent(part, whole) == Round(10000 * part, whole)

-----------------------------------------------------------------------------
(***************************************************************************)
(* Queries on the review logs; a range of days leaves out its end.         *)
(***************************************************************************)
CountByUserAndDate(reviews, day) == Cardinality({r \in reviews : r.day = day})

Within(reviews, from, to) == {r \in reviews : r.day >= from /\ r.day < to}

GetReviewCountsPerDay(reviews, from, to) ==
    {[day |-> d, count |-> CountByUserAndDate(reviews, d),
      correct |-> Cardinality({r \in reviews : r.day = d /\ r.rating >= 3})] :
        d \in {r.day : r \in Within(reviews, from, to)}}

ListByUserID(reviews, from, to, limit) ==
    LET latest == OrderBy(Within(reviews, from, to), LAMBDA r, s : r.id > s.id)
    IN  SubSeq(latest, 1, IF limit < Len(latest) THEN limit ELSE Len(latest))

(***************************************************************************)
(* Overview: the last thirty days and today.                               *)
(***************************************************************************)
Overview(reviews, today) ==
    LET days == GetReviewCountsPerDay(reviews, today - 30, today + 1)
        total == SumFunction([d \in days |-> d.count])
        correct == SumFunction([d \in days |-> d.correct])
    IN  [totalReviews |-> total,
         retentionRate |-> IF total > 0 THEN Percent(correct, total) ELSE 0,
         todayReviews |-> CountByUserAndDate(reviews, today)]

-----------------------------------------------------------------------------
(***************************************************************************)
(* Goals: one of each type for a user, with a target.                      *)
(***************************************************************************)
GoalTypes == {"daily_reviews", "daily_new", "weekly_reviews", "daily_minutes"}
TargetValues == 1 .. 9999

MutCurrentValue(type, reviews, today) ==
    LET listed == ListByUserID(reviews, today, today + 1, ReviewRows)
        days == GetReviewCountsPerDay(reviews, today - 6, today)
    IN  CASE type = "daily_reviews" -> CountByUserAndDate(reviews, today)
          [] type = "daily_new" -> Cardinality({i \in DOMAIN listed : listed[i].state = 0})
          [] type = "weekly_reviews" -> SumFunction([d \in days |-> d.count])
          [] type = "daily_minutes" ->
                SumFunction([i \in DOMAIN listed |-> listed[i].ms]) \div 60000

CurrentValue(type, reviews, today) ==
    LET listed == ListByUserID(reviews, today, today + 1, ReviewRows)
        days == GetReviewCountsPerDay(reviews, today - 7, today + 1)
    IN  CASE type = "daily_reviews" -> CountByUserAndDate(reviews, today)
          [] type = "daily_new" -> Cardinality({i \in DOMAIN listed : listed[i].state = 0})
          [] type = "weekly_reviews" -> SumFunction([d \in days |-> d.count])
          [] type = "daily_minutes" ->
                SumFunction([i \in DOMAIN listed |-> listed[i].ms]) \div 60000

Progress(current, target) ==
    LET percent == Percent(current, target)
    IN  [current |-> current, completed |-> current >= target,
         percent |-> IF percent < 10000 THEN percent ELSE 10000]

ListWithProgress(goals, reviews, today) ==
    {[goal |-> g, progress |-> Progress(CurrentValue(g.type, reviews, today), g.target)] :
        g \in goals}

SetGoal(goals, type, target) ==
    {g \in goals : g.type # type} \cup {[type |-> type, target |-> target]}

-----------------------------------------------------------------------------
(***************************************************************************)
(* Mastery of a deck, from its cards (total, mature and average stability  *)
(* in days) and the user's reviews; 40% of maturePercent and of retention, *)
(* and of the stability score what the code takes, over 3000.              *)
(***************************************************************************)
masteryLevel(percent) ==
    IF percent >= 8600 THEN "mastered"
    ELSE IF percent >= 6100 THEN "advanced"
    ELSE IF percent >= 3100 THEN "intermediate"
    ELSE "beginner"

CappedAt30(stability) == IF stability < 30 THEN stability ELSE 30

Mastery(mature, total, avgStability, correct, reviews) ==
    LET maturePercent == Percent(mature, total)
        retention == IF reviews > 0 THEN Percent(correct, reviews) ELSE 0
        mastery == Round(12 * maturePercent + 12 * retention
                            + 200000 * CappedAt30(avgStability), 3000)
        percent == IF mastery > 10000 THEN 10000 ELSE mastery
    IN  [maturePercent |-> maturePercent, retention |-> retention,
         percent |-> percent, level |-> masteryLevel(percent)]

-----------------------------------------------------------------------------
(***************************************************************************)
(* WeakAreas: the tags that two or more of the weak cards have.            *)
(***************************************************************************)

Weak(c) == c.lapses > 2 \/ (c.stability < 5 /\ c.reps > 0)

Weaker(c, d) == \/ c.lapses > d.lapses
                \/ c.lapses = d.lapses /\ c.stability < d.stability

GetWeakCards(cards, limit) ==
    LET weak == {c \in cards : Weak(c) /\ ~c.suspended}
        n == IF limit < Cardinality(weak) THEN limit ELSE Cardinality(weak)
    IN  {SubSeq(s, 1, n) : s \in {t \in SetToSeqs(weak) :
            \A i, j \in DOMAIN t : i < j => ~Weaker(t[j], t[i])}}

TagCount(cards, tag) ==
    Cardinality(UNION {{i} \X {n \in DOMAIN cards[i].tags : cards[i].tags[n] = tag} :
                          i \in DOMAIN cards})

WeakAreas(cards) ==
    {[areas |-> {[tag |-> t, weakCards |-> TagCount(rows, t)] :
                    t \in {u \in UNION {ToSet(rows[i].tags) : i \in DOMAIN rows} :
                              TagCount(rows, u) >= 2}},
      cards |-> SubSeq(rows, 1, IF TopRows < Len(rows) THEN TopRows ELSE Len(rows))] :
        rows \in GetWeakCards(cards, WeakRows)}

-----------------------------------------------------------------------------
(***************************************************************************)
(* TestComparison: the best finished attempt at the pretests of a deck and *)
(* at its posttests.  A quiz is the sequence of its attempts; the first    *)
(* quiz with the best score wins.                                          *)
(***************************************************************************)

GetBestAttemptByQuizID(quiz) ==
    LET finished == {quiz[i] : i \in {j \in DOMAIN quiz : quiz[j].completed}}
    IN  {a \in finished : \A b \in finished : b.score <= a.score}

NoResult == [score |-> 0, total |-> 0, percent |-> 0, attempts |-> 0]

buildTestResult(quizzes) ==
    LET best(i) == GetBestAttemptByQuizID(quizzes[i])
        wins(a, i) == \A j \in DOMAIN quizzes : \A b \in best(j) :
                         b.score < a.score \/ (b.score = a.score /\ j >= i)
        winners == UNION {{a \in best(i) : wins(a, i)} : i \in DOMAIN quizzes}
        made == SumFunction([i \in DOMAIN quizzes |-> Len(quizzes[i])])
    IN  IF winners = {} THEN {NoResult}
        ELSE {[score |-> a.score, total |-> a.total, attempts |-> made,
               percent |-> IF a.total > 0 THEN Percent(a.score, a.total) ELSE 0] :
                 a \in winners}

TestComparison(pre, post) ==
    {[preTest |-> a, postTest |-> b,
      compared |-> a # NoResult /\ b # NoResult,
      improvement |-> b.percent - a.percent] :
        a \in buildTestResult(pre), b \in buildTestResult(post)}
=============================================================================
