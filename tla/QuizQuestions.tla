--------------------------- MODULE QuizQuestions ---------------------------
(***************************************************************************)
(* The questions of internal/service/quiz.go: how they are generated from  *)
(* a deck's cards and from cards tagged with a surat and an ayat, what     *)
(* validateQuestionOptions accepts, and how gradeAnswer grades.  What the  *)
(* random source decides is left open: a generator is the set of the       *)
(* questions it can return, empty where the code returns nil.              *)
(*                                                                         *)
(* A text is the sequence of its words and whether it has space around     *)
(* it; a word is its letters and the case they are written in.  The        *)
(* wording of a question is left out: its text is the texts it is made of, *)
(* with Blank for the gap.                                                 *)
(***************************************************************************)
EXTENDS Naturals, Sequences, FiniteSets, SequencesExt, Listing

Word(letters, case) == [letters |-> letters, case |-> case]
Text(words) == [words |-> words, pad |-> FALSE]
Blank == Word("_____", 0)

(***************************************************************************)
(* strings.TrimSpace and strings.EqualFold.                                *)
(***************************************************************************)
TrimSpace(t) == [t EXCEPT !.pad = FALSE]
Folded(t) == [t EXCEPT !.words = [i \in DOMAIN @ |-> @[i].letters]]
EqualFold(s, t) == Folded(s) = Folded(t)

True == Text(<<Word("true", 0)>>)
False == Text(<<Word("false", 0)>>)

ChoiceTypes == {"mcq", "surah_identification"}
BlankTypes == {"fill_blank", "ayat_cloze", "ayat_continuation"}
QuestionTypes == ChoiceTypes \cup BlankTypes \cup {"true_false", "ordering"}

(***************************************************************************)
(* A question.  Its options are a sequence: of choices (a text and whether *)
(* it is the right one), of alternative answers, or of cards to order;     *)
(* << >> also stands for options that were not sent (those of an ordering  *)
(* are only looked at for that).  The correct answer is a text.            *)
(***************************************************************************)
Question(type, about, text, options, answer, points) ==
    [type |-> type, card |-> about, text |-> text, options |-> options,
     answer |-> answer, points |-> points]

Option(text, correct) == [text |-> text, correct |-> correct]

(***************************************************************************)
(* rng.Shuffle leaves any order of the elements of a sequence.             *)
(***************************************************************************)
Shuffles(s) == {[i \in DOMAIN s |-> s[p[i]]] : p \in Bijection(DOMAIN s, DOMAIN s)}
Picks(s, n) == {SubSeq(t, 1, n) : t \in Shuffles(s)}

AtMost(n, m) == IF n < m THEN n ELSE m

-----------------------------------------------------------------------------
(***************************************************************************)
(* gradeAnswer and validateQuestionOptions.  An ordering is graded by the  *)
(* exact text of its answer, of which only the given one is trimmed.  Of   *)
(* its options nothing is read but that they are there: << >> is none, and *)
(* an empty list, which is let through, counts here as one.                *)
(***************************************************************************)
gradeAnswer(q, answer) ==
    \/ q.type = "ordering" /\ TrimSpace(answer) = q.answer
    \/ /\ q.type # "ordering"
       /\ EqualFold(TrimSpace(answer), TrimSpace(q.answer))
    \/ /\ q.type \in BlankTypes
       /\ \E i \in DOMAIN q.options :
             EqualFold(TrimSpace(answer), TrimSpace(q.options[i]))

MutValidateQuestionOptions(type, options, answer) ==
    /\ type \in ChoiceTypes => Len(options) \in 2 .. 6
    /\ type = "mcq" =>
          Cardinality({i \in DOMAIN options : options[i].correct}) = 1
    /\ type = "true_false" =>
          \E t \in {True, False} : EqualFold(TrimSpace(answer), t)
    /\ type = "ordering" => options # << >>

validateQuestionOptions(type, options, answer) ==
    /\ type \in ChoiceTypes => Len(options) \in 2 .. 6
    /\ type = "mcq" =>
          /\ Cardinality({i \in DOMAIN options : options[i].correct}) = 1
          /\ \A i \in DOMAIN options :
                options[i].correct => options[i].text = answer
    /\ type = "true_false" =>
          \E t \in {True, False} : EqualFold(TrimSpace(answer), t)
    /\ type = "ordering" => options # << >>

Valid(q) == validateQuestionOptions(q.type, q.options, q.answer)

-----------------------------------------------------------------------------
(***************************************************************************)
(* GenerateFromDeck: the cards are a sequence of a front and a back; a     *)
(* question is about the card at index i.                                  *)
(***************************************************************************)
MutDistractors(cards, i) == RemoveAt(cards, i)

Distractors(cards, i) ==
    KeepAt(cards, {j \in DOMAIN cards : j # i /\ cards[j].back # cards[i].back})

generateMCQ(cards, i) ==
    LET wrong == Distractors(cards, i)
        options(d) == <<Option(cards[i].back, TRUE)>> \o
                      [n \in DOMAIN d |-> Option(d[n].back, FALSE)]
    IN  {Question("mcq", i, <<cards[i].front>>, opts, cards[i].back, 1) :
            opts \in UNION {Shuffles(options(d)) :
                               d \in Picks(wrong, AtMost(Len(wrong), 3))}}

Statement(cards, i, back, answer) ==
    Question("true_false", i, <<cards[i].front, back>>, << >>, answer, 1)

generateTrueFalse(cards, i) ==
    LET wrong == Distractors(cards, i)
    IN  {Statement(cards, i, cards[i].back, True)} \cup
        {Statement(cards, i, wrong[n].back, False) : n \in DOMAIN wrong \cap {1}}

generateFillBlank(cards, i) ==
    {Question("fill_blank", i, <<cards[i].front, Text(<<Blank>>)>>, << >>,
              cards[i].back, 1)}

ClassicTypes == {"mcq", "true_false", "fill_blank"}

ClassicQuestions(type, cards, i) ==
    IF type = "mcq" THEN generateMCQ(cards, i)
    ELSE IF type = "true_false" THEN generateTrueFalse(cards, i)
    ELSE generateFillBlank(cards, i)

(***************************************************************************)
(* Whether it has cards enough, and for each question it goes on to make   *)
(* the questions it may be, after the cards were shuffled into "cards".    *)
(***************************************************************************)
DeckSuffices(type, n) == n >= (IF type \in {"mcq", "mixed"} THEN 4 ELSE 2)

GenerateFromDeck(type, cards, count) ==
    IF ~DeckSuffices(type, Len(cards)) THEN << >>
    ELSE [i \in 1 .. AtMost(count, Len(cards)) |->
             UNION {ClassicQuestions(t, cards, i) :
                       t \in (IF type = "mixed" THEN ClassicTypes ELSE {type})}]

-----------------------------------------------------------------------------
(***************************************************************************)
(* Cards with an ayat.  A tag is its kind ("surat", "ayat" or "other") and *)
(* what follows the colon; NoNumber stands for what "%d" does not read.    *)
(***************************************************************************)
CONSTANTS NoSurat, NoNumber

parseCardTags(tags) ==
    LET surats == {i \in DOMAIN tags : tags[i].kind = "surat"}
        ayats == {i \in DOMAIN tags : tags[i].kind = "ayat" /\ tags[i].value # NoNumber}
    IN  [surat |-> IF surats = {} THEN NoSurat ELSE tags[Max(surats)].value,
         ayat |-> IF ayats = {} THEN 0 ELSE tags[Max(ayats)].value]

filterAyatCards(cards) ==
    LET meta(i) == parseCardTags(cards[i].tags)
        all == [i \in DOMAIN cards |->
                   [card |-> cards[i].id, front |-> cards[i].front,
                    surat |-> meta(i).surat, ayat |-> meta(i).ayat]]
    IN  KeepAt(all, {i \in DOMAIN all : all[i].surat # NoSurat /\ all[i].ayat > 0})

(***************************************************************************)
(* groupBySurat: for each surat its cards by ayat, those of one ayat in    *)
(* any order (sort.Slice is not stable).  The set of the groupings.        *)
(***************************************************************************)
SuratsOf(cards) == {cards[i].surat : i \in DOMAIN cards}

InOrder(s) == \A i \in 1 .. Len(s) - 1 : s[i].ayat <= s[i + 1].ayat

Sorted(cards, surat) ==
    {t \in Shuffles(KeepAt(cards, {i \in DOMAIN cards : cards[i].surat = surat})) : InOrder(t)}

groupBySurat(cards) ==
    LET surats == SuratsOf(cards)
    IN  {g \in [surats -> UNION {Sorted(cards, s) : s \in surats}] :
            \A s \in surats : \A i \in DOMAIN g[s] : g[s][i].surat = s}

(***************************************************************************)
(* generateAyatCloze: one or two words in the middle are blanked out, or   *)
(* all of a text of fewer than three.                                      *)
(***************************************************************************)
Cloze(c, question, answer) ==
    Question("ayat_cloze", c.card, <<question>>, << >>, answer, 1)

BlankOut(words, start, count) ==
    SubSeq(words, 1, start) \o <<Blank>> \o
    SubSeq(words, start + count + 1, Len(words))

ClozeOf(c) ==
    LET words == c.front.words
        n == Len(words)
        counts == IF n >= 5 THEN {1, 2} ELSE {1}
    IN  IF n < 3 THEN {Cloze(c, Text(<<Blank>>), c.front)}
        ELSE UNION {{Cloze(c, Text(BlankOut(words, start, count)),
                              Text(SubSeq(words, start + 1, start + count))) :
                        start \in 1 .. n - count - 1} : count \in counts}

generateAyatCloze(cards) == UNION {ClozeOf(cards[i]) : i \in DOMAIN cards}

(***************************************************************************)
(* generateAyatContinuation: the ayat after one of the group.              *)
(***************************************************************************)
Follows(c, d) == d.ayat = c.ayat + 1

generateAyatContinuation(groups) ==
    {Question("ayat_continuation", groups[p[1]][p[2] + 1].card,
              <<groups[p[1]][p[2]].front>>, << >>,
              groups[p[1]][p[2] + 1].front, 1) :
        p \in {q \in UNION {{s} \X (1 .. Len(groups[s]) - 1) : s \in DOMAIN groups} :
                  Follows(groups[q[1]][q[2]], groups[q[1]][q[2] + 1])}}

(***************************************************************************)
(* generateSurahIdentification: up to three other surats to choose from.   *)
(***************************************************************************)

OtherSurats(c, groups) == DOMAIN groups \ {c.surat}

SurahQuestions(c, groups) ==
    LET others == OtherSurats(c, groups)
        n == AtMost(3, Cardinality(others))
    IN  {Question("surah_identification", c.card, <<c.front>>,
                  SetToSeq({Option(s, TRUE) : s \in {c.surat}} \cup
                           {Option(s, FALSE) : s \in d}), c.surat, 1) :
            d \in kSubset(n, others)}

generateSurahIdentification(cards, groups) ==
    IF Cardinality(DOMAIN groups) < 2 THEN {}
    ELSE UNION {SurahQuestions(cards[i], groups) : i \in DOMAIN cards}

(***************************************************************************)
(* generateOrdering: from each card of a group the run of ayat that follow *)
(* one another, cut at five; one of at least three is taken, its first     *)
(* three to five cards, and their ids in order are the answer, put into    *)
(* one word (strings.Join with a comma between them).                      *)
(***************************************************************************)
MutRunLength(g, i) == AtMost(5, Len(g) - i + 1)

RunLength(g, i) ==
    LET runs(n) == \A j \in i .. i + n - 2 : Follows(g[j], g[j + 1])
    IN  CHOOSE n \in 1 .. AtMost(5, Len(g) - i + 1) :
            /\ runs(n)
            /\ \A m \in n + 1 .. AtMost(5, Len(g) - i + 1) : ~runs(m)

Takes(n) == IF n >= 4 THEN 3 .. (2 + AtMost(n - 2, 3)) ELSE {3}

Joined(ids) == Text(<<Word(ids, 0)>>)

OrderingOf(g, i, n) ==
    LET taken == SubSeq(g, i, i + n - 1)
        ids == [j \in DOMAIN taken |-> taken[j].card]
    IN  Question("ordering", 0, << >>, taken, Joined(ids), 2)

generateOrdering(groups) ==
    UNION {UNION {{OrderingOf(groups[s], i, n) : n \in Takes(RunLength(groups[s], i))} :
                     i \in {j \in 1 .. Len(groups[s]) - 2 : RunLength(groups[s], j) >= 3}} :
              s \in DOMAIN groups}

(***************************************************************************)
(* GenerateAyatQuiz: the types of the questions it returns, one list for   *)
(* each way it can go; it stops at the first type it cannot generate.      *)
(***************************************************************************)
AyatTypes == {"ayat_cloze", "ayat_continuation", "surah_identification", "ordering"}

AyatQuestions(type, cards, groups) ==
    CASE type = "ayat_cloze" -> generateAyatCloze(cards)
      [] type = "ayat_continuation" -> generateAyatContinuation(groups)
      [] type = "surah_identification" -> generateSurahIdentification(cards, groups)
      [] type = "ordering" -> generateOrdering(groups)

GenerateAyatQuiz(type, cards, groups, count) ==
    LET asked == IF type = "mixed_ayat" THEN AyatTypes ELSE {type}
        made == {t \in asked : AyatQuestions(t, cards, groups) # {}}
        lengths == IF made = asked THEN {count} ELSE 0 .. count
    IN  IF Len(cards) < 2 THEN {<< >>}
        ELSE UNION {[1 .. n -> made] : n \in lengths}
=============================================================================
