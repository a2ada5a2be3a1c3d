---------------------------- MODULE Calculations ----------------------------
(***************************************************************************)
(* The parts of the service that compute: questions and grading, the study *)
(* queue and the reminders, paged lists, statistics and goals, each over a *)
(* bounded set of inputs, and the rate limiter over a bounded time.        *)
(*                                                                         *)
(* A behaviour takes up one problem, an input of one of the calculations;  *)
(* the invariants compare what the code computes for it with what it is    *)
(* to be.  The problem "limiter" sets the rate limiter going.              *)
(***************************************************************************)
EXTENDS RateLimiter, QuizQuestions, StudyQueue, Statistics, Pages

CONSTANT Problems

VARIABLE problem

(***************************************************************************)
(* What the program hands its calculations: slices of cards, of words and  *)
(* of tags; texts; ids that no two cards and no two reviews share; one of  *)
(* the four states of a card and times it is due; and what the handlers    *)
(* let through: limits that are not negative and a target from 1 to 9999.  *)
(***************************************************************************)
DeckInput(p) == p.kind = "deck" => p.cards \in Seq(ToSet(p.cards))

ClozeInput(p) == p.kind = "cloze" => p.words \in Seq(ToSet(p.words))

AyatInput(p) ==
    p.kind = "ayat" =>
        /\ p.cards \in Seq(ToSet(p.cards))
        /\ \A i, j \in DOMAIN p.cards : p.cards[i].id = p.cards[j].id => i = j
        /\ \A i \in DOMAIN p.cards :
              LET tags == p.cards[i].tags
              IN  /\ tags \in Seq(ToSet(tags))
                  /\ \A n \in DOMAIN tags :
                        (tags[n].kind = "ayat" /\ tags[n].value # NoNumber)
                           => tags[n].value \in Int

IsText(t) == t = [words |-> t.words, pad |-> t.pad] /\ t.pad \in BOOLEAN

QuestionInput(p) ==
    p.kind = "question" => IsText(p.answer) /\ \A t \in p.answers : IsText(t)

QueueInput(p) ==
    p.kind = "queue" =>
        /\ IsFiniteSet(p.cards)
        /\ \A c \in p.cards : c.state \in 0 .. 3 /\ c.due \in Int
        /\ \A u \in p.users : u.dailyNewLimit \in Nat /\ u.dailyReviewLimit \in Nat

RemindersInput(p) ==
    p.kind = "reminders" =>
        /\ IsFiniteSet(p.cards) /\ IsFiniteSet(p.decks)
        /\ \A c \in p.cards : c.state \in 0 .. 3 /\ c.due \in Int

PagesInput(p) ==
    p.kind = "pages" =>
        /\ IsFiniteSet(p.rows)
        /\ \A r \in p.rows : r.position \in Int /\ r.created \in Int

GoalInput(p) ==
    p.kind = "goal" =>
        /\ IsFiniteSet(p.reviews) /\ p.today \in Int
        /\ \A r \in p.reviews : r.id \in Int /\ r.day \in Int /\ r.ms \in Nat
        /\ \A r, s \in p.reviews : r.id = s.id => r = s

ProgressInput(p) ==
    p.kind = "progress" => p.current \in Nat /\ p.target \in TargetValues

WeakInput(p) ==
    p.kind = "weak" =>
        /\ IsFiniteSet(p.cards)
        /\ \A c \in p.cards : c.tags \in Seq(ToSet(c.tags))

Quizzes(Q) ==
    /\ Q \in Seq(ToSet(Q))
    /\ \A i \in DOMAIN Q : Q[i] \in Seq(ToSet(Q[i]))
    /\ \A i \in DOMAIN Q : \A j \in DOMAIN Q[i] : Q[i][j].score \in Nat

TestsInput(p) == p.kind = "tests" => Quizzes(p.pre) /\ Quizzes(p.post)

ASSUME ProblemsOK ==
    \A p \in Problems :
        /\ DeckInput(p) /\ ClozeInput(p) /\ AyatInput(p) /\ QuestionInput(p)
        /\ QueueInput(p) /\ RemindersInput(p) /\ PagesInput(p)
        /\ GoalInput(p) /\ ProgressInput(p) /\ WeakInput(p) /\ TestsInput(p)

-----------------------------------------------------------------------------
vars == <<problem, limiterVars>>

None == [kind |-> "none"]
Limiter == [kind |-> "limiter"]

Init == LimiterInit /\ problem = None

TakeUp == problem = None /\ problem' \in Problems /\ UNCHANGED limiterVars

RunLimiter == problem = Limiter /\ LimiterNext /\ UNCHANGED problem

Next == TakeUp \/ RunLimiter

Spec == Init /\ [][Next]_vars

Is(kind) == problem.kind = kind

-----------------------------------------------------------------------------
Apart(texts) ==
    \A s, t \in texts : s # t => ~EqualFold(TrimSpace(s), TrimSpace(t))

RightOptions(q) == {i \in DOMAIN q.options : gradeAnswer(q, q.options[i].text)}

(***************************************************************************)
(* A quiz made from a deck has as many questions as were asked for and     *)
(* the deck has cards, each about another card, each passing the           *)
(* validation of authored questions (unless no card has another back), and *)
(* each answered by its own answer in any case (GenerateFromDeck).         *)
(***************************************************************************)
OneQuestionPerCard ==
    Is("deck") =>
        \A type \in ClassicTypes \cup {"mixed"}, count \in 1 .. 5 :
            LET made == GenerateFromDeck(type, problem.cards, count)
            IN  DeckSuffices(type, Len(problem.cards)) =>
                    /\ Len(made) = AtMost(count, Len(problem.cards))
                    /\ Cardinality(UNION {{q.card : q \in made[i]} : i \in DOMAIN made})
                          = Len(made)
                    /\ \A i \in DOMAIN made : \A q \in made[i] :
                          /\ Valid(q) \/ Distractors(problem.cards, i) = << >>
                          /\ gradeAnswer(q, [q.answer EXCEPT !.pad = ~@])

(***************************************************************************)
(* Of the options of a generated choice exactly one is graded right, and   *)
(* it is the one marked so, when no two backs of the deck are the same but *)
(* for case and space around them (generateMCQ and gradeAnswer, which      *)
(* compare texts in two ways).                                             *)
(***************************************************************************)
ChoicesFair ==
    Is("deck") =>
        \A i \in DOMAIN problem.cards : \A q \in generateMCQ(problem.cards, i) :
            Apart({problem.cards[j].back : j \in DOMAIN problem.cards}) =>
                RightOptions(q) = {j \in DOMAIN q.options : q.options[j].correct}

(***************************************************************************)
(* A generated statement is to be called true exactly when some card has   *)
(* its front and its back, when no two cards have the same front           *)
(* (generateTrueFalse).                                                    *)
(***************************************************************************)
StatementsTrue ==
    Is("deck") =>
        LET cards == problem.cards
            says(q) == \E j \in DOMAIN cards :
                          q.text = <<cards[j].front, cards[j].back>>
        IN  (\A i, j \in DOMAIN cards : cards[i].front = cards[j].front => i = j) =>
                \A i \in DOMAIN cards : \A q \in generateTrueFalse(cards, i) :
                    q.answer = True <=> says(q)

(***************************************************************************)
(* What is made from the cards of a deck can be answered, and rightly so.  *)
(***************************************************************************)
DeckQuestionsRight == OneQuestionPerCard /\ ChoicesFair /\ StatementsTrue

(***************************************************************************)
(* Filling the gap of a cloze with its answer gives the ayat back, the gap *)
(* is one or two words, and a text of three words or more keeps its first  *)
(* and its last, when the ayat has no word that looks like a gap           *)
(* (generateAyatCloze).                                                    *)
(***************************************************************************)
ClozeRestores ==
    Is("cloze") =>
        LET words == problem.words
        IN  Blank \notin ToSet(words) =>
            \A q \in ClozeOf([card |-> 1, front |-> Text(words)]) :
                LET asked == q.text[1].words
                    gap == CHOOSE i \in DOMAIN asked : asked[i] = Blank
                IN  /\ SubSeq(asked, 1, gap - 1) \o q.answer.words
                          \o SubSeq(asked, gap + 1, Len(asked)) = words
                    /\ Len(words) >= 3 => /\ gap \in 2 .. Len(asked) - 1
                                          /\ Len(q.answer.words) \in 1 .. 2

(***************************************************************************)
(* A continuation asks for the very next ayat of the same surat, and one   *)
(* is found whenever the deck has two ayat that follow one another,        *)
(* whatever other cards stand between (groupBySurat and                    *)
(* generateAyatContinuation).                                              *)
(***************************************************************************)
AyatOf(p) == filterAyatCards(p.cards)

After(c, d) == d.surat = c.surat /\ d.ayat = c.ayat + 1

ContinuationFollows ==
    Is("ayat") =>
        LET all == ToSet(AyatOf(problem))
            asked == {p \in all \X all : After(p[1], p[2])}
        IN  \A groups \in groupBySurat(AyatOf(problem)) :
                LET made == generateAyatContinuation(groups)
                IN  /\ made = {} <=> asked = {}
                    /\ \A q \in made : \E p \in asked :
                          /\ q.text = <<p[1].front>> /\ q.answer = p[2].front
                          /\ q.card = p[2].card

(***************************************************************************)
(* The surat of an ayat is one of as many options as the deck has surats,  *)
(* four at most: two to four, no two the same text, the surat alone marked *)
(* right.  It alone is graded right, too, when no two surats of the deck   *)
(* are the same but for case and space around them.  A question is asked   *)
(* whenever the deck has two surats (generateSurahIdentification, which    *)
(* tells surats apart exactly, and gradeAnswer, which does not).           *)
(***************************************************************************)
OneRightSurah ==
    Is("ayat") =>
        LET cards == AyatOf(problem)
        IN  \A groups \in groupBySurat(cards) :
                LET made == generateSurahIdentification(cards, groups)
                IN  /\ made = {} <=> Cardinality(SuratsOf(cards)) < 2
                    /\ \A q \in made :
                          LET texts == [i \in DOMAIN q.options |-> q.options[i].text]
                              marked == {i \in DOMAIN q.options : q.options[i].correct}
                          IN
                          /\ Len(q.options) = AtMost(4, Cardinality(SuratsOf(cards)))
                          /\ Len(q.options) \in 2 .. 4
                          /\ IsInjective(texts)
                          /\ {texts[i] : i \in marked} = {q.answer}
                          /\ Apart(SuratsOf(cards)) => RightOptions(q) = marked
                          /\ \E c \in ToSet(cards) :
                                q.card = c.card /\ q.answer = c.surat

(***************************************************************************)
(* The answer of an ordering lists three to five cards of one surat whose  *)
(* ayat follow one another, and is graded right; one is found whenever the *)
(* deck has three such cards, provided no ayat of it is on two cards       *)
(* (generateOrdering).                                                     *)
(***************************************************************************)
OrderingRight ==
    Is("ayat") =>
        LET all == ToSet(AyatOf(problem))
            runs == {p \in all \X all \X all : After(p[1], p[2]) /\ After(p[2], p[3])}
            single == \A c, d \in all :
                         (c.surat = d.surat /\ c.ayat = d.ayat) => c = d
            cardOf(id) == CHOOSE c \in all : c.card = id
        IN  \A groups \in groupBySurat(AyatOf(problem)) :
                LET made == generateOrdering(groups)
                IN  /\ single => (made = {} <=> runs = {})
                    /\ \A q \in made :
                          LET ids == q.answer.words[1].letters
                          IN  /\ Valid(q) /\ gradeAnswer(q, q.answer)
                              /\ Len(ids) \in 3 .. 5
                              /\ ToSet(ids) = {o.card : o \in ToSet(q.options)}
                              /\ \A i \in 1 .. Len(ids) - 1 :
                                    After(cardOf(ids[i]), cardOf(ids[i + 1]))

(***************************************************************************)
(* A quiz of ayat has all the questions asked for when the deck has two    *)
(* ayat and each of the types the quiz may use can be generated from it,   *)
(* and never one of a type that cannot; a mixed quiz for which some type   *)
(* cannot be generated stops at the first question of that type, and may   *)
(* be short (GenerateAyatQuiz).                                            *)
(***************************************************************************)
AyatQuizWhole ==
    Is("ayat") =>
        LET cards == AyatOf(problem)
        IN  \A groups \in groupBySurat(cards) :
                LET can(t) == AyatQuestions(t, cards, groups) # {}
                    asked(type) == IF type = "mixed_ayat" THEN AyatTypes ELSE {type}
                IN  \A type \in AyatTypes \cup {"mixed_ayat"} :
                    \A quiz \in GenerateAyatQuiz(type, cards, groups, 2) :
                        /\ \A i \in DOMAIN quiz : can(quiz[i])
                        /\ (Len(cards) >= 2 /\ \A t \in asked(type) : can(t)) =>
                              Len(quiz) = 2

(***************************************************************************)
(* What is made from the ayat of a deck asks what it says it asks.         *)
(***************************************************************************)
AyatQuestionsRight ==
    /\ ClozeRestores
    /\ ContinuationFollows
    /\ OneRightSurah
    /\ OrderingRight
    /\ AyatQuizWhole

(***************************************************************************)
(* A question the validation accepts, of whatever type, can be answered:   *)
(* its own answer is graded right, the option marked right of a multiple   *)
(* choice too, and of "true" and "false" one and not the other.  The       *)
(* exception is an ordering that was stored with space around its answer:  *)
(* no answer to it is graded right.  Space around a given answer does not  *)
(* change how it is graded, nor does its case, but for an ordering         *)
(* (validateQuestionOptions and gradeAnswer).                              *)
(***************************************************************************)
AcceptedIsAnswerable ==
    Is("question") =>
        LET q == Question(problem.type, 1, << >>, problem.options, problem.answer, 1)
            spaced == q.type = "ordering" /\ q.answer.pad
            same(s, t) == IF q.type = "ordering" THEN TrimSpace(s) = TrimSpace(t)
                          ELSE EqualFold(TrimSpace(s), TrimSpace(t))
        IN  Valid(q) =>
                /\ ~spaced => gradeAnswer(q, q.answer)
                /\ spaced => \A s \in problem.answers : ~gradeAnswer(q, s)
                /\ q.type = "mcq" =>
                      \A i \in DOMAIN q.options :
                          q.options[i].correct => i \in RightOptions(q)
                /\ q.type = "mcq" => RightOptions(q) # {}
                /\ q.type = "true_false" =>
                      (gradeAnswer(q, True) <=> ~gradeAnswer(q, False))
                /\ \A s, t \in problem.answers :
                      same(s, t) => (gradeAnswer(q, s) <=> gradeAnswer(q, t))

-----------------------------------------------------------------------------
(***************************************************************************)
(* A session never holds more new cards than the user's daily limit nor    *)
(* more cards than both limits, and only cards that are due and not        *)
(* suspended (StartSession, GetDueCards).                                  *)
(***************************************************************************)
QueueWithinLimits ==
    Is("queue") =>
        \A user \in problem.users :
            \A s \in StartSession(problem.cards, 1, 1, user) :
                /\ s.counts.new <= user.dailyNewLimit
                /\ s.counts.total <= user.dailyNewLimit + user.dailyReviewLimit
                /\ s.counts.total = s.counts.new + s.counts.learning + s.counts.review
                /\ \A i \in DOMAIN s.cards : s.cards[i].state # New =>
                      s.cards[i].due <= 1 /\ ~s.cards[i].suspended

(***************************************************************************)
(* A session puts no card off for one that ranks after it, and when the    *)
(* cards due are within the review limit it holds them all, and as many    *)
(* new ones as the other limit allows (GetDueCards applies one limit in    *)
(* the query and the other to its rows).                                   *)
(***************************************************************************)
DueServedFirst ==
    Is("queue") =>
        LET mine == In(problem.cards, 1)
            due == {c \in mine : c.state # New /\ c.due <= 1}
            fresh == {c \in mine : c.state = New}
        IN  \A user \in problem.users :
            \A s \in StartSession(problem.cards, 1, 1, user) :
                LET served == ToSet(s.cards)
                IN  /\ \A c \in served, d \in due \ served : ~Before(d, c)
                    /\ Cardinality(due) <= user.dailyReviewLimit =>
                          /\ due \subseteq served
                          /\ Cardinality(served \cap fresh) =
                                AtMost(user.dailyNewLimit, Cardinality(fresh))

(***************************************************************************)
(* The reminders, the counts of the decks and the next due date tell one   *)
(* story: what is due now in the decks in use is the sum of their due      *)
(* counts, a deck left out has nothing new and nothing due, and a card     *)
(* falls due before the horizon exactly when the next due date does        *)
(* (GetReminders, DeckStats, CountDue).                                    *)
(***************************************************************************)
RemindersAgree ==
    Is("reminders") =>
        LET r == GetReminders(problem.cards, problem.decks, 1, 1)
            stats(d) == DeckStats(problem.cards, d, 1)
        IN  /\ r.totalDue = SumFunction([d \in problem.decks |-> stats(d).due])
            /\ \A s \in r.decks : s.new = stats(s.deck).new
            /\ \A d \in problem.decks \ {s.deck : s \in r.decks} :
                  stats(d).new = 0 /\ stats(d).due = 0
            /\ r.dueSoon > 0 <=> r.nextDueAt = 2
            /\ \A d \in problem.decks : stats(d).total = Cardinality(In(problem.cards, d))

(***************************************************************************)
(* What is due is served, first, and announced.                            *)
(***************************************************************************)
DueCardsServed == QueueWithinLimits /\ DueServedFirst /\ RemindersAgree

(***************************************************************************)
(* Whatever limit a client asks for, following has_more from the first     *)
(* page ends, and brings as many rows as every answer's total says, each   *)
(* matching, in order, and of the rows that share a position and a time as *)
(* many as there are: a row that shares its place with none comes exactly  *)
(* once, and one of several at a place is left out only where another of   *)
(* them comes twice.  No page has a row twice.  This is so whatever order  *)
(* each query gives rows of one place (ParsePagination, NewParams,         *)
(* NewResponse and the two queries of a list).                             *)
(***************************************************************************)
SamePlace(r, s) == ~InListOrder(r, s) /\ ~InListOrder(s, r)

PagesCoverPlaces ==
    Is("pages") =>
        \A filter \in problem.filters, limit \in -1 .. MaxLimit + 1 :
            LET matching == {r \in problem.rows : Matches(r, filter)}
                step == NewParams(limit, 0).limit
                answers == [n \in 0 .. Cardinality(problem.rows) |->
                               ListPage(problem.rows, filter, limit, n * step)]
                pages == [n \in DOMAIN answers |-> {a.data : a \in answers[n]}]
                last == {n \in DOMAIN answers : \E a \in answers[n] : ~a.hasMore}
                upTo == Min(last)
            IN  /\ \A n \in DOMAIN answers : \A a \in answers[n] :
                      a.limit = step /\ a.total = Cardinality(matching)
                /\ last # {}
                /\ \A a \in answers[upTo] : ~a.hasMore
                /\ \A walk \in [0 .. upTo -> UNION {pages[n] : n \in 0 .. upTo}] :
                      (\A n \in 0 .. upTo : walk[n] \in pages[n]) =>
                          LET seen == FlattenSeq([n \in 1 .. upTo + 1 |-> walk[n - 1]])
                          IN  /\ Len(seen) = Cardinality(matching)
                              /\ ToSet(seen) \subseteq matching
                              /\ \A i, j \in DOMAIN seen :
                                    i < j => ~InListOrder(seen[j], seen[i])
                              /\ \A r \in matching :
                                    Cardinality({i \in DOMAIN seen : SamePlace(seen[i], r)})
                                       = Cardinality({s \in matching : SamePlace(s, r)})
                              /\ \A n \in 0 .. upTo : IsInjective(walk[n])

-----------------------------------------------------------------------------
(***************************************************************************)
(* A goal is completed exactly when the reviews of its days reach the      *)
(* target: today's, today's of new cards, those since the day a week ago,  *)
(* or the minutes of today's (ListWithProgress), as long as a day has no   *)
(* more reviews than a list returns.                                       *)
(***************************************************************************)
GoalsMet ==
    Is("goal") =>
        LET today == {r \in problem.reviews : r.day = problem.today}
            week == {r \in problem.reviews :
                        r.day \in problem.today - 7 .. problem.today}
            enough(type, n) ==
                \/ type = "daily_reviews" /\ Cardinality(today) >= n
                \/ type = "daily_new" /\ Cardinality({r \in today : r.state = 0}) >= n
                \/ type = "weekly_reviews" /\ Cardinality(week) >= n
                \/ type = "daily_minutes" /\ SumFunction([r \in today |-> r.ms]) >= 60000 * n
        IN  \A type \in GoalTypes, target \in 1 .. 3 :
            \A g \in ListWithProgress(SetGoal({}, type, target), problem.reviews, problem.today) :
                (Cardinality(today) <= ReviewRows) =>
                    (g.progress.completed <=> enough(type, target))

(***************************************************************************)
(* A goal shows 100% exactly when it is completed, up to the largest       *)
(* target a goal may have (ListWithProgress rounds to two places; the      *)
(* dto allows 9999).                                                       *)
(***************************************************************************)
HundredMeansMet ==
    Is("progress") =>
        LET p == Progress(problem.current, problem.target)
        IN  p.completed <=> p.percent = 10000

(***************************************************************************)
(* 'Mastery = weighted: 40% mature%, 40% retention, 20% stability score'   *)
(* (the comment in Mastery, stats.go).                                     *)
(***************************************************************************)
MasteryIsWeighted ==
    Is("mastery") =>
        LET m == Mastery(problem.mature, problem.total, problem.stability,
                         problem.correct, problem.reviews)
            score == Round(CappedAt30(problem.stability) * 10000, 30)
        IN  m.percent = Round(40 * m.maturePercent + 40 * m.retention + 20 * score, 100)

(***************************************************************************)
(* A weak area is a tag on two or more of the listed cards, counted once   *)
(* for each, no card that is weaker than a listed one is left out, and no  *)
(* card that was never reviewed is listed without lapses (WeakAreas, when  *)
(* a card has no tag twice).                                               *)
(***************************************************************************)
WeakAreasTrue ==
    Is("weak") =>
        \A w \in WeakAreas(problem.cards) :
            /\ \A i \in DOMAIN w.cards :
                  /\ w.cards[i].reps = 0 => w.cards[i].lapses > 2
                  /\ \A c \in problem.cards \ ToSet(w.cards) :
                        (Weak(c) /\ ~c.suspended) => ~Weaker(c, w.cards[i])
            /\ \A a \in w.areas :
                  /\ a.weakCards >= 2
                  /\ (\A c \in problem.cards : IsInjective(c.tags)) =>
                        Cardinality({c \in problem.cards : a.tag \in ToSet(c.tags)})
                           >= a.weakCards

(***************************************************************************)
(* A comparison of pretest and posttest is made exactly when a user has    *)
(* finished an attempt at each, and rests on attempts that were finished   *)
(* and that no finished one beats (TestComparison, buildTestResult).       *)
(***************************************************************************)
BestAttemptCounts ==
    Is("tests") =>
        LET finished(quizzes) ==
                UNION {{a \in ToSet(quizzes[i]) : a.completed} : i \in DOMAIN quizzes}
            best(quizzes, result) ==
                /\ \A a \in finished(quizzes) : a.score <= result.score
                /\ \E a \in finished(quizzes) :
                      a.score = result.score /\ a.total = result.total
        IN  \A t \in TestComparison(problem.pre, problem.post) :
                /\ t.compared <=> /\ finished(problem.pre) # {}
                                  /\ finished(problem.post) # {}
                /\ t.compared => best(problem.pre, t.preTest) /\ best(problem.post, t.postTest)

(***************************************************************************)
(* What the statistics say of goals, cards and tests is so.                *)
(***************************************************************************)
StatisticsTrue == GoalsMet /\ HundredMeansMet /\ WeakAreasTrue /\ BestAttemptCounts
=============================================================================
