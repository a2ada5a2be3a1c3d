------------------------- MODULE CalculationsProofs -------------------------
(***************************************************************************)
(* Theorems about Calculations, for any set of problems: the questions     *)
(* made from decks and from ayat are as they are to be, what the           *)
(* validation accepts can be answered, the queue serves the cards that are *)
(* due within its limits, pages bring of each place in the order as many   *)
(* rows as there are, and the statistics mean what they say.  Each is a    *)
(* fact about one input, whatever its size; a behaviour only takes inputs  *)
(* up.                                                                     *)
(***************************************************************************)
EXTENDS Calculations, DataLemmas, RateLimiterProofs

-----------------------------------------------------------------------------
(***************************************************************************)
(* What the validation accepts, and how answers are graded.                *)
(***************************************************************************)

\* "true" and "false" are told apart by EqualFold.
LEMMA TrueIsNotFalse ==
  /\ Folded(TrimSpace(True)) = Folded(True) /\ Folded(TrimSpace(False)) = Folded(False)
  /\ Folded(True) # Folded(False)
<1>1. True = [words |-> <<Word("true", 0)>>, pad |-> FALSE]
      /\ False = [words |-> <<Word("false", 0)>>, pad |-> FALSE]
  BY DEF True, False, Text
<1>2. TrimSpace(True) = True /\ TrimSpace(False) = False
  <2>1. \A w, v : [[words |-> w, pad |-> v] EXCEPT !.pad = v] = [words |-> w, pad |-> v]
    OBVIOUS
  <2> QED BY <1>1, <2>1 DEF TrimSpace
<1>3. Folded(True).words = [i \in DOMAIN True.words |-> True.words[i].letters]
      /\ Folded(False).words = [i \in DOMAIN False.words |-> False.words[i].letters]
  BY <1>1 DEF Folded
<1>4. 1 \in DOMAIN True.words /\ 1 \in DOMAIN False.words
      /\ True.words[1].letters = "true" /\ False.words[1].letters = "false"
  BY <1>1 DEF Word
<1>5. Folded(True).words[1] = "true" /\ Folded(False).words[1] = "false"
  BY <1>3, <1>4
<1>6. Folded(True) # Folded(False)
  BY <1>5
<1> QED BY <1>2, <1>6

\* A set of one element has one.
LEMMA OneElement ==
  ASSUME NEW S, Cardinality(S) = 1 PROVE S # {}
BY FS_EmptySet

\* TrimSpace of a text: it has no space around it, and is what it was if it had none.
LEMMA TrimIs ==
  ASSUME NEW t, IsText(t)
  PROVE  ~TrimSpace(t).pad /\ (~t.pad => TrimSpace(t) = t)
<1>1. \A w, p, v : [[words |-> w, pad |-> p] EXCEPT !.pad = v] = [words |-> w, pad |-> v]
  OBVIOUS
<1>2. PICK w, p : t = [words |-> w, pad |-> p] /\ w = t.words /\ p = t.pad
  BY DEF IsText
<1>3. TrimSpace(t) = [words |-> w, pad |-> FALSE]
  BY <1>1, <1>2 DEF TrimSpace
<1>4. TrimSpace(t).pad = FALSE
  BY <1>3
<1>5. p = TRUE \/ p = FALSE
  BY <1>2 DEF IsText
<1>6. CASE p = FALSE
  <2>1. TrimSpace(t) = t
    BY <1>2, <1>3, <1>6
  <2> QED BY <1>4, <2>1
<1>7. CASE p = TRUE
  <2>1. t.pad = TRUE
    BY <1>2, <1>7
  <2> QED BY <1>4, <2>1
<1> QED BY <1>5, <1>6, <1>7

\* AcceptedIsAnswerable, of a question as it is authored.
LEMMA AnswersExist ==
  ASSUME QuestionInput(problem) PROVE AcceptedIsAnswerable
<1> DEFINE q == Question(problem.type, 1, << >>, problem.options, problem.answer, 1)
           spaced == q.type = "ordering" /\ q.answer.pad
           same(s, t) == IF q.type = "ordering" THEN TrimSpace(s) = TrimSpace(t)
                         ELSE EqualFold(TrimSpace(s), TrimSpace(t))
<1> SUFFICES ASSUME Is("question"), Valid(q)
    PROVE  /\ ~spaced => gradeAnswer(q, q.answer)
           /\ spaced => \A s \in problem.answers : ~gradeAnswer(q, s)
           /\ q.type = "mcq" =>
                /\ \A i \in DOMAIN q.options : q.options[i].correct => i \in RightOptions(q)
                /\ RightOptions(q) # {}
           /\ q.type = "true_false" => (gradeAnswer(q, True) <=> ~gradeAnswer(q, False))
           /\ \A s, t : same(s, t) => (gradeAnswer(q, s) <=> gradeAnswer(q, t))
  BY DEF AcceptedIsAnswerable
<1>1. q.type = problem.type /\ q.options = problem.options /\ q.answer = problem.answer
  BY DEF Question
<1>0. IsText(q.answer) /\ \A t \in problem.answers : IsText(t)
  BY <1>1 DEF QuestionInput, Is
<1>2. validateQuestionOptions(q.type, q.options, q.answer)
  BY DEF Valid
<1> HIDE DEF q
<1>a. q.type = "ordering" =>
        \A a : gradeAnswer(q, a) <=> TrimSpace(a) = q.answer
  BY DEF gradeAnswer, BlankTypes
<1>b. ASSUME ~spaced PROVE gradeAnswer(q, q.answer)
  <2>1. CASE q.type = "ordering"
    BY <1>0, <1>a, <1>b, <2>1, TrimIs
  <2>2. CASE q.type # "ordering"
    BY <2>2 DEF gradeAnswer, EqualFold
  <2> QED BY <2>1, <2>2
<1>c. ASSUME spaced, NEW s \in problem.answers PROVE ~gradeAnswer(q, s)
  <2>1. ~TrimSpace(s).pad
    BY <1>0, TrimIs
  <2> QED BY <1>a, <1>c, <2>1
<1>3. ASSUME NEW i \in DOMAIN q.options, q.type = "mcq", q.options[i].correct
      PROVE  i \in RightOptions(q)
  <2>1. q.options[i].text = q.answer
    BY <1>2, <1>3 DEF validateQuestionOptions, ChoiceTypes
  <2>2. gradeAnswer(q, q.options[i].text)
    BY <1>3, <2>1 DEF gradeAnswer, EqualFold
  <2> QED BY <2>2 DEF RightOptions
<1>4. ASSUME q.type = "mcq" PROVE RightOptions(q) # {}
  <2>1. Cardinality({i \in DOMAIN q.options : q.options[i].correct}) = 1
    BY <1>2, <1>4 DEF validateQuestionOptions
  <2>2. PICK i \in DOMAIN q.options : q.options[i].correct
    BY <2>1, OneElement
  <2> QED BY <1>3, <1>4, <2>2
<1>5. ASSUME q.type = "true_false" PROVE gradeAnswer(q, True) <=> ~gradeAnswer(q, False)
  <2>1. PICK t \in {True, False} : Folded(TrimSpace(q.answer)) = Folded(t)
    BY <1>2, <1>5 DEF validateQuestionOptions, EqualFold
  <2>2. \A u : gradeAnswer(q, u) <=> Folded(TrimSpace(u)) = Folded(TrimSpace(q.answer))
    BY <1>5 DEF gradeAnswer, EqualFold, BlankTypes
  <2> QED BY <2>1, <2>2, TrueIsNotFalse
<1>6. ASSUME NEW s, NEW t, same(s, t) PROVE gradeAnswer(q, s) <=> gradeAnswer(q, t)
  <2>1. CASE q.type = "ordering"
    BY <1>6, <1>a, <2>1
  <2>2. CASE q.type # "ordering"
    BY <1>6, <2>2 DEF gradeAnswer, EqualFold
  <2> QED BY <2>1, <2>2
<1> QED BY <1>b, <1>c, <1>3, <1>4, <1>5, <1>6

-----------------------------------------------------------------------------
(***************************************************************************)
(* Questions from the cards of a deck.                                     *)
(***************************************************************************)

\* The parts of an option,
LEMMA OptionIs ==
  \A t, c : /\ Option(t, c).text = t
            /\ Option(t, c).correct = c
BY DEF Option

\* its mark,
LEMMA OptionMarks ==
  \A t : Option(t, TRUE).correct /\ ~Option(t, FALSE).correct
<1>1. \A t : Option(t, TRUE).correct = TRUE /\ Option(t, FALSE).correct = FALSE
  BY OptionIs
<1> QED BY <1>1

\* its text.
LEMMA OptionText ==
  \A t : Option(t, TRUE).text = t /\ Option(t, FALSE).text = t
BY DEF Option

\* The parts of a question.
LEMMA QuestionIs ==
  \A type, about, text, options, answer, points :
     LET q == Question(type, about, text, options, answer, points)
     IN  /\ q.type = type /\ q.card = about /\ q.text = text /\ q.options = options
         /\ q.answer = answer
BY DEF Question

\* The distractors are cards whose backs differ from that of the card.
LEMMA DistractorsAre ==
  ASSUME NEW cards, cards \in Seq(ToSet(cards)), NEW i \in DOMAIN cards
  PROVE  LET wrong == Distractors(cards, i)
         IN  /\ Len(wrong) \in Nat /\ DOMAIN wrong = 1 .. Len(wrong)
                /\ wrong \in Seq(ToSet(cards))
             /\ \A n \in 1 .. Len(wrong) : \E j \in DOMAIN cards :
                   wrong[n] = cards[j] /\ cards[j].back # cards[i].back
<1> DEFINE I == {j \in DOMAIN cards : j # i /\ cards[j].back # cards[i].back}
           wrong == Distractors(cards, i)
           K == Cardinality(I)
<1>1. DOMAIN cards = 1 .. Len(cards) /\ Len(cards) \in Nat
  OBVIOUS
<1>2. I \in SUBSET Int /\ IsFiniteSet(I)
  <2>1. IsFiniteSet(1 .. Len(cards)) /\ I \subseteq 1 .. Len(cards) /\ I \in SUBSET Int
    BY <1>1, FS_Interval
  <2> HIDE DEF I
  <2> QED BY <2>1, FS_Subset
<1>3. wrong = KeepAt(cards, I)
  BY DEF Distractors
<1>4. \A j \in I : j \in DOMAIN cards /\ cards[j].back # cards[i].back
  OBVIOUS
<1> HIDE DEF I, wrong
<1>5. PICK at : Keeps(wrong, cards, I, at)
  BY <1>2, <1>3, KeptInOrder
<1>6. K \in Nat
  BY <1>2, FS_CardinalityType
<1>7. at \in [1 .. K -> I] /\ wrong = [n \in 1 .. K |-> cards[at[n]]]
  BY <1>5 DEF Keeps
<1>8. \A n \in 1 .. K : cards[at[n]] \in ToSet(cards)
  BY <1>4, <1>7 DEF ToSet
<1>9. wrong \in Seq(ToSet(cards)) /\ Len(wrong) = K /\ DOMAIN wrong = 1 .. K
  BY <1>6, <1>7, <1>8
<1>10. \A n \in 1 .. K : at[n] \in DOMAIN cards /\ wrong[n] = cards[at[n]]
                         /\ cards[at[n]].back # cards[i].back
  BY <1>4, <1>7
<1> QED BY <1>6, <1>9, <1>10 DEF wrong

\* Shuffling permutes the indices.
LEMMA ShuffleIs ==
  ASSUME NEW s, NEW N \in Nat, DOMAIN s = 1 .. N, NEW t \in Shuffles(s)
  PROVE  \E p \in Bijection(1 .. N, 1 .. N) : t = [n \in 1 .. N |-> s[p[n]]]
BY DEF Shuffles

\* There is a shuffle of every sequence.
LEMMA ShuffleExists ==
  ASSUME NEW s PROVE Shuffles(s) # {}
<1> DEFINE p == [n \in DOMAIN s |-> n]
<1>1. p \in Bijection(DOMAIN s, DOMAIN s)
  BY DEF Bijection, Injection, Surjection, IsInjective
<1> QED BY <1>1 DEF Shuffles

\* What a choice is: one option at k is right, and the others are wrong.
FairChoice(q, cards, i, k, m) ==
  /\ q.type = "mcq" /\ q.card = i /\ q.answer = cards[i].back
  /\ DOMAIN q.options = 1 .. m + 1 /\ Len(q.options) = m + 1 /\ k \in 1 .. m + 1
  /\ q.options[k] = Option(cards[i].back, TRUE)
  /\ \A n \in 1 .. m + 1 : n # k =>
        \E j \in DOMAIN cards : /\ q.options[n] = Option(cards[j].back, FALSE)
                                /\ cards[j].back # cards[i].back

\* A multiple choice is such a choice among at most four,
LEMMA ChoiceIs ==
  ASSUME NEW cards, cards \in Seq(ToSet(cards)), NEW i \in DOMAIN cards,
         NEW q \in generateMCQ(cards, i)
  PROVE  \E k : FairChoice(q, cards, i, k, AtMost(Len(Distractors(cards, i)), 3))
<1> DEFINE wrong == Distractors(cards, i)
           m == AtMost(Len(wrong), 3)
           others(d) == [n \in DOMAIN d |-> Option(d[n].back, FALSE)]
           options(d) == <<Option(cards[i].back, TRUE)>> \o others(d)
<1>1. /\ Len(wrong) \in Nat /\ DOMAIN wrong = 1 .. Len(wrong) /\ wrong \in Seq(ToSet(cards))
      /\ \A n \in 1 .. Len(wrong) : \E j \in DOMAIN cards :
            wrong[n] = cards[j] /\ cards[j].back # cards[i].back
  BY DistractorsAre
<1>2. PICK d \in Picks(wrong, m) : \E opts \in Shuffles(options(d)) :
        q = Question("mcq", i, <<cards[i].front>>, opts, cards[i].back, 1)
  BY DEF generateMCQ
<1>3. PICK opts \in Shuffles(options(d)) :
        q = Question("mcq", i, <<cards[i].front>>, opts, cards[i].back, 1)
  BY <1>2
<1> HIDE DEF wrong
<1>4. m \in 0 .. Len(wrong) /\ m \in Nat
  BY <1>1 DEF AtMost
<1> HIDE DEF m
<1>5. /\ DOMAIN d = 1 .. m
      /\ \A n \in 1 .. m : \E j \in DOMAIN cards :
            d[n] = cards[j] /\ cards[j].back # cards[i].back
  <2>1. PICK t \in Shuffles(wrong) : d = SubSeq(t, 1, m)
    BY DEF Picks
  <2>2. PICK p \in Bijection(1 .. Len(wrong), 1 .. Len(wrong)) :
          t = [n \in 1 .. Len(wrong) |-> wrong[p[n]]]
    BY <1>1, ShuffleIs, ZenonT(60)
  <2>3. \A n \in 1 .. Len(wrong) : p[n] \in 1 .. Len(wrong)
    BY <2>2 DEF Bijection, Injection
  <2>4. t \in Seq(ToSet(cards)) /\ Len(t) = Len(wrong) /\ DOMAIN t = 1 .. Len(wrong)
    <3>1. \A n \in 1 .. Len(wrong) : wrong[p[n]] \in ToSet(cards)
      BY <1>1, <2>3
    <3> QED BY <1>1, <2>2, <3>1
  <2>5. d = [n \in 1 .. m |-> t[n]]
    BY <1>4, <2>1, <2>4
  <2>6. \A n \in 1 .. m : n \in 1 .. Len(wrong)
    BY <1>1, <1>4
  <2>7. \A n \in 1 .. m : d[n] = wrong[p[n]]
    BY <2>2, <2>5, <2>6
  <2> QED BY <1>1, <2>3, <2>5, <2>6, <2>7
<1> DEFINE o == options(d)
<1>6. /\ DOMAIN o = 1 .. m + 1 /\ o[1] = Option(cards[i].back, TRUE)
      /\ \A n \in 2 .. m + 1 : o[n] = Option(d[n - 1].back, FALSE)
  <2>1. DOMAIN others(d) = 1 .. m /\ \A n \in 1 .. m :
          others(d)[n] = Option(d[n].back, FALSE)
    BY <1>5
  <2>2. PICK e : e = others(d)
    OBVIOUS
  <2>3. e \in Seq({e[n] : n \in 1 .. m}) /\ Len(e) = m
    <3>1. e = [n \in 1 .. m |-> e[n]]
      BY <1>5, <2>2
    <3> QED BY <1>4, <3>1
  <2> DEFINE c == Option(cards[i].back, TRUE)
  <2>4. o = <<c>> \o e
    BY <2>2
  <2> HIDE DEF o, others, c
  <2>5. /\ DOMAIN o = 1 .. m + 1 /\ o[1] = c /\ \A n \in 2 .. m + 1 : o[n] = e[n - 1]
    BY <1>4, <2>3, <2>4
  <2>6. \A n \in 2 .. m + 1 : n - 1 \in 1 .. m
    BY <1>4
  <2> QED BY <2>1, <2>2, <2>5, <2>6 DEF c
<1> HIDE DEF o
<1>7. PICK p \in Bijection(1 .. m + 1, 1 .. m + 1) : opts = [n \in 1 .. m + 1 |-> o[p[n]]]
  <2>1. PICK N \in Nat : N = m + 1
    BY <1>4
  <2>2. opts \in Shuffles(o) /\ DOMAIN o = 1 .. N
    BY <1>3, <1>6, <2>1 DEF o
  <2>3. \E p \in Bijection(1 .. N, 1 .. N) : opts = [n \in 1 .. N |-> o[p[n]]]
    BY <2>2, ShuffleIs
  <2> QED BY <2>1, <2>3
<1>8. /\ \A n \in 1 .. m + 1 : p[n] \in 1 .. m + 1
      /\ \A n, l \in 1 .. m + 1 : p[n] = p[l] => n = l
      /\ \A l \in 1 .. m + 1 : \E n \in 1 .. m + 1 : p[n] = l
  BY <1>7 DEF Bijection, Injection, Surjection, IsInjective
<1>9. PICK k \in 1 .. m + 1 : p[k] = 1
  BY <1>4, <1>8
<1>10. DOMAIN opts = 1 .. m + 1 /\ Len(opts) = m + 1
  BY <1>4, <1>7
<1>11. opts[k] = Option(cards[i].back, TRUE)
  BY <1>6, <1>7, <1>9
<1>12. ASSUME NEW n \in 1 .. m + 1, n # k
       PROVE  \E j \in DOMAIN cards : /\ opts[n] = Option(cards[j].back, FALSE)
                                      /\ cards[j].back # cards[i].back
  <2>a. p[n] \in 1 .. m + 1 /\ p[n] # 1
    BY <1>8, <1>9, <1>12
  <2>1. p[n] \in 2 .. m + 1
    BY <1>4, <2>a
  <2>2. opts[n] = Option(d[p[n] - 1].back, FALSE)
    BY <1>6, <1>7, <2>1
  <2>3. p[n] - 1 \in 1 .. m
    BY <1>4, <2>1
  <2> QED BY <1>5, <2>2, <2>3
<1>13. q.type = "mcq" /\ q.card = i /\ q.answer = cards[i].back /\ q.options = opts
  BY <1>3, QuestionIs
<1>14. FairChoice(q, cards, i, k, m)
  BY <1>9, <1>10, <1>11, <1>12, <1>13 DEF FairChoice
<1> QED BY <1>14 DEF m, wrong

\* and one can always be made.
LEMMA ChoiceExists ==
  ASSUME NEW cards, NEW i PROVE generateMCQ(cards, i) # {}
<1> DEFINE wrong == Distractors(cards, i)
           options(d) == <<Option(cards[i].back, TRUE)>> \o
                         [n \in DOMAIN d |-> Option(d[n].back, FALSE)]
           ask(opts) == Question("mcq", i, <<cards[i].front>>, opts, cards[i].back, 1)
<1>1. PICK d : d \in Picks(wrong, AtMost(Len(wrong), 3))
  BY ShuffleExists DEF Picks
<1>2. PICK opts : opts \in Shuffles(options(d))
  BY ShuffleExists
<1>3. generateMCQ(cards, i) =
        {ask(opt) : opt \in UNION {Shuffles(options(e)) :
          e \in Picks(wrong, AtMost(Len(wrong), 3))}}
  BY DEF generateMCQ
<1> HIDE DEF ask, options, wrong
<1> QED BY <1>1, <1>2, <1>3

\* The answer of a question is graded right, with space around it or not.
LEMMA AnswerAnyCase ==
  ASSUME NEW q, q.type # "ordering"
  PROVE  gradeAnswer(q, [q.answer EXCEPT !.pad = ~@])
<1>1. \A t, v : [[t EXCEPT !.pad = v] EXCEPT !.pad = FALSE] = [t EXCEPT !.pad = FALSE]
  OBVIOUS
<1>2. TrimSpace([q.answer EXCEPT !.pad = ~@]) = TrimSpace(q.answer)
  BY <1>1 DEF TrimSpace
<1> QED BY <1>2 DEF gradeAnswer, EqualFold

\* A choice that has a distractor passes the validation.
LEMMA ChoiceValid ==
  ASSUME NEW q, NEW cards, NEW i, NEW k, NEW m \in 1 .. 3, FairChoice(q, cards, i, k, m)
  PROVE  Valid(q)
<1>1. /\ q.type = "mcq" /\ q.answer = cards[i].back /\ DOMAIN q.options = 1 .. m + 1
      /\ Len(q.options) = m + 1 /\ k \in 1 .. m + 1
      /\ q.options[k] = Option(cards[i].back, TRUE)
      /\ \A n \in 1 .. m + 1 : n # k => \E b : q.options[n] = Option(b, FALSE)
  BY DEF FairChoice
<1>2. q.options[k].correct /\ q.options[k].text = q.answer
  <2>1. q.options[k].correct
    BY <1>1, OptionMarks
  <2>2. q.options[k].text = q.answer
    BY <1>1, OptionText
  <2> QED BY <2>1, <2>2
<1>3. \A n \in 1 .. m + 1 : n # k => ~q.options[n].correct
  BY <1>1, OptionMarks
<1>4. {n \in DOMAIN q.options : q.options[n].correct} = {k}
  BY <1>1, <1>2, <1>3
<1>5. Cardinality({k}) = 1
  BY FS_Singleton
<1>6. Len(q.options) \in 2 .. 6
  BY <1>1
<1>7. \A n \in DOMAIN q.options : q.options[n].correct => q.options[n].text = q.answer
  BY <1>1, <1>2, <1>3
<1> QED BY <1>1, <1>4, <1>5, <1>6, <1>7 DEF Valid, validateQuestionOptions

\* What a question made from the card at i is to be.
Sound(q, cards, i) ==
  /\ Valid(q) \/ Distractors(cards, i) = << >>
  /\ gradeAnswer(q, [q.answer EXCEPT !.pad = ~@])

\* A question of a classic type can be made from every card, and is sound.
LEMMA ClassicQuestion ==
  ASSUME NEW cards, cards \in Seq(ToSet(cards)), NEW i \in DOMAIN cards,
         NEW t \in ClassicTypes
  PROVE  /\ ClassicQuestions(t, cards, i) # {}
         /\ \A q \in ClassicQuestions(t, cards, i) :
               q.card = i /\ Sound(q, cards, i)
<1>1. CASE t = "mcq"
  <2>1. ClassicQuestions(t, cards, i) = generateMCQ(cards, i)
    BY <1>1 DEF ClassicQuestions
  <2>2. ASSUME NEW q \in generateMCQ(cards, i), Distractors(cards, i) # << >> PROVE Valid(q)
    <3> DEFINE m == AtMost(Len(Distractors(cards, i)), 3)
    <3>1. PICK k : FairChoice(q, cards, i, k, m)
      BY ChoiceIs
    <3>2. Len(Distractors(cards, i)) \in Nat /\ Len(Distractors(cards, i)) # 0
      BY <2>2, DistractorsAre
    <3>3. m \in 1 .. 3
      <4>1. \A n \in Nat : n # 0 => AtMost(n, 3) \in 1 .. 3
        BY DEF AtMost
      <4> QED BY <3>2, <4>1
    <3> HIDE DEF m
    <3> QED BY <3>1, <3>3, ChoiceValid
  <2>3. ASSUME NEW q \in generateMCQ(cards, i) PROVE q.card = i /\ q.type = "mcq"
    <3> DEFINE m == AtMost(Len(Distractors(cards, i)), 3)
    <3>1. PICK k : FairChoice(q, cards, i, k, m)
      BY ChoiceIs
    <3> HIDE DEF m
    <3> QED BY <3>1 DEF FairChoice
  <2> QED BY <2>1, <2>2, <2>3, ChoiceExists, AnswerAnyCase DEF Sound
<1>2. CASE t = "true_false"
  <2>1. ClassicQuestions(t, cards, i) = generateTrueFalse(cards, i)
    BY <1>2 DEF ClassicQuestions
  <2>2. ASSUME NEW q \in generateTrueFalse(cards, i)
        PROVE  q.card = i /\ q.type = "true_false" /\ q.answer \in {True, False}
    <3>1. PICK b, a : q = Statement(cards, i, b, a) /\ a \in {True, False}
      BY DEF generateTrueFalse
    <3> QED BY <3>1, QuestionIs DEF Statement
  <2>3. generateTrueFalse(cards, i) # {}
    BY DEF generateTrueFalse
  <2>4. ASSUME NEW q \in generateTrueFalse(cards, i) PROVE Valid(q)
    <3>1. q.type = "true_false" /\ q.answer \in {True, False}
      BY <2>2
    <3>2. EqualFold(TrimSpace(q.answer), q.answer)
      BY <3>1, TrueIsNotFalse DEF EqualFold
    <3> QED BY <3>1, <3>2 DEF Valid, validateQuestionOptions, ChoiceTypes
  <2> QED BY <2>1, <2>2, <2>3, <2>4, AnswerAnyCase DEF Sound
<1>3. CASE t = "fill_blank"
  <2>1. ClassicQuestions(t, cards, i) = generateFillBlank(cards, i)
    BY <1>3 DEF ClassicQuestions
  <2>2. ASSUME NEW q \in generateFillBlank(cards, i)
        PROVE  q.card = i /\ q.type = "fill_blank"
    BY QuestionIs DEF generateFillBlank
  <2>3. generateFillBlank(cards, i) # {}
    BY DEF generateFillBlank
  <2>4. ASSUME NEW q \in generateFillBlank(cards, i) PROVE Valid(q)
    BY <2>2 DEF Valid, validateQuestionOptions, ChoiceTypes
  <2> QED BY <2>1, <2>2, <2>3, <2>4, AnswerAnyCase DEF Sound
<1> QED BY <1>1, <1>2, <1>3 DEF ClassicTypes

\* A quiz has one question from each of the cards it was shuffled to.
LEMMA OneQuestionEach ==
  ASSUME NEW cards, cards \in Seq(ToSet(cards)), NEW type \in ClassicTypes \cup {"mixed"},
         NEW count \in Nat, DeckSuffices(type, Len(cards)),
         NEW made, made = GenerateFromDeck(type, cards, count)
  PROVE  /\ Len(made) = AtMost(count, Len(cards))
         /\ Cardinality(UNION {{q.card : q \in made[i]} : i \in DOMAIN made}) = Len(made)
         /\ \A i \in DOMAIN made : \A q \in made[i] : Sound(q, cards, i)
<1> DEFINE N == AtMost(count, Len(cards))
           types == IF type = "mixed" THEN ClassicTypes ELSE {type}
<1>1. types \subseteq ClassicTypes /\ types # {}
  BY DEF ClassicTypes
<1>2. N \in Nat /\ N <= Len(cards) /\ DOMAIN cards = 1 .. Len(cards) /\ Len(cards) \in Nat
  BY DEF AtMost
<1>3. made = [i \in 1 .. N |-> UNION {ClassicQuestions(t, cards, i) : t \in types}]
  BY DEF GenerateFromDeck
<1> HIDE DEF types, N
<1>4. DOMAIN made = 1 .. N /\ Len(made) = N
  BY <1>2, <1>3
<1>5. ASSUME NEW i \in 1 .. N
      PROVE  /\ i \in DOMAIN cards
             /\ \A q \in made[i] : \E t \in ClassicTypes :
                q \in ClassicQuestions(t, cards, i)
             /\ \E t \in ClassicTypes : ClassicQuestions(t, cards, i) \subseteq made[i]
  <2>1. made[i] = UNION {ClassicQuestions(t, cards, i) : t \in types}
    BY <1>3
  <2>2. i \in DOMAIN cards
    BY <1>2
  <2> QED BY <1>1, <2>1, <2>2
<1>a. ASSUME NEW i \in DOMAIN cards, NEW t \in ClassicTypes
      PROVE  /\ ClassicQuestions(t, cards, i) # {}
             /\ \A q \in ClassicQuestions(t, cards, i) :
                   q.card = i /\ Sound(q, cards, i)
  BY ClassicQuestion
<1>6. \A i \in 1 .. N : {q.card : q \in made[i]} = {i}
  <2>1. SUFFICES ASSUME NEW i \in 1 .. N PROVE {q.card : q \in made[i]} = {i}
    OBVIOUS
  <2>2. \A q \in made[i] : q.card = i
    BY <1>5, <1>a
  <2>3. made[i] # {}
    BY <1>5, <1>a
  <2> QED BY <2>2, <2>3
<1>7. UNION {{q.card : q \in made[i]} : i \in DOMAIN made} = 1 .. N
  <2>1. \A x : x \in UNION {{q.card : q \in made[i]} : i \in DOMAIN made}
                 <=> \E i \in 1 .. N : x \in {q.card : q \in made[i]}
    BY <1>4
  <2>2. \A x : (\E i \in 1 .. N : x \in {q.card : q \in made[i]}) <=> x \in 1 .. N
    <3>1. \A i \in 1 .. N : \A x : x \in {q.card : q \in made[i]} <=> x = i
      BY <1>6
    <3>2. \A x : x \in 1 .. N <=> \E i \in 1 .. N : x = i
      OBVIOUS
    <3> QED BY <3>1, <3>2
  <2> QED BY <2>1, <2>2
<1>8. Cardinality(1 .. N) = N
  <2>1. Cardinality(1 .. N) = IF 1 > N THEN 0 ELSE N - 1 + 1
    BY <1>2, FS_Interval
  <2> QED BY <1>2, <2>1
<1>9. \A i \in DOMAIN made : \A q \in made[i] : Sound(q, cards, i)
  <2>1. SUFFICES ASSUME NEW i \in 1 .. N, NEW q \in made[i]
                 PROVE  Sound(q, cards, i)
    BY <1>4
  <2>2. PICK t \in ClassicTypes : q \in ClassicQuestions(t, cards, i)
    BY <1>5
  <2> QED BY <1>5, <1>a, <2>2
<1> QED BY <1>4, <1>7, <1>8, <1>9 DEF N

\* OneQuestionPerCard.
LEMMA EachCardAsked ==
  ASSUME DeckInput(problem) PROVE OneQuestionPerCard
<1>1. ASSUME Is("deck"), NEW type \in ClassicTypes \cup {"mixed"}, NEW count \in 1 .. 5,
             DeckSuffices(type, Len(problem.cards)),
             NEW made, made = GenerateFromDeck(type, problem.cards, count)
      PROVE  /\ Len(made) = AtMost(count, Len(problem.cards))
             /\ Cardinality(UNION {{q.card : q \in made[i]} : i \in DOMAIN made})
                = Len(made)
             /\ \A i \in DOMAIN made : \A q \in made[i] :
                   /\ Valid(q) \/ Distractors(problem.cards, i) = << >>
                   /\ gradeAnswer(q, [q.answer EXCEPT !.pad = ~@])
  <2>1. problem.cards \in Seq(ToSet(problem.cards))
    BY <1>1 DEF DeckInput, Is
  <2>2. count \in Nat
    OBVIOUS
  <2> QED BY <1>1, <2>1, <2>2, OneQuestionEach, SMTT(60) DEF Sound
<1> QED BY <1>1 DEF OneQuestionPerCard

\* Of the options of a choice the one marked so is the one graded right,
\* when backs that differ differ by more than case and space.
LEMMA FairOptions ==
  ASSUME NEW cards, cards \in Seq(ToSet(cards)), NEW i \in DOMAIN cards,
         NEW q \in generateMCQ(cards, i),
         \A j, l \in DOMAIN cards : cards[j].back # cards[l].back =>
            ~EqualFold(TrimSpace(cards[j].back), TrimSpace(cards[l].back))
  PROVE  RightOptions(q) = {j \in DOMAIN q.options : q.options[j].correct}
<1> DEFINE m == AtMost(Len(Distractors(cards, i)), 3)
<1>1. PICK k : FairChoice(q, cards, i, k, m)
  BY ChoiceIs
<1> HIDE DEF m
<1>2. /\ q.type = "mcq" /\ q.answer = cards[i].back /\ DOMAIN q.options = 1 .. m + 1
      /\ k \in 1 .. m + 1 /\ q.options[k] = Option(cards[i].back, TRUE)
      /\ \A n \in 1 .. m + 1 : n # k =>
            \E j \in DOMAIN cards : /\ q.options[n] = Option(cards[j].back, FALSE)
                                    /\ cards[j].back # cards[i].back
  BY <1>1 DEF FairChoice
<1>3. \A a : gradeAnswer(q, a) <=> EqualFold(TrimSpace(a), TrimSpace(q.answer))
  BY <1>2 DEF gradeAnswer, BlankTypes
<1>4. q.options[k].correct /\ gradeAnswer(q, q.options[k].text)
  <2>1. q.options[k].correct
    BY <1>2, OptionMarks
  <2>2. q.options[k].text = q.answer
    BY <1>2, OptionText
  <2> QED BY <1>3, <2>1, <2>2 DEF EqualFold
<1>5. ASSUME NEW n \in 1 .. m + 1, n # k
      PROVE  ~q.options[n].correct /\ ~gradeAnswer(q, q.options[n].text)
  <2>1. PICK j \in DOMAIN cards : /\ q.options[n] = Option(cards[j].back, FALSE)
                                  /\ cards[j].back # cards[i].back
    BY <1>2, <1>5
  <2>2. q.options[n].text = cards[j].back /\ ~q.options[n].correct
    BY <2>1, OptionText, OptionMarks
  <2> QED BY <1>2, <1>3, <2>1, <2>2
<1> QED BY <1>2, <1>4, <1>5 DEF RightOptions

\* ChoicesFair.
LEMMA OptionsAreFair ==
  ASSUME DeckInput(problem) PROVE ChoicesFair
<1>1. ASSUME Is("deck"), NEW i \in DOMAIN problem.cards,
             NEW q \in generateMCQ(problem.cards, i),
             Apart({problem.cards[j].back : j \in DOMAIN problem.cards})
      PROVE  RightOptions(q) = {j \in DOMAIN q.options : q.options[j].correct}
  <2>1. problem.cards \in Seq(ToSet(problem.cards))
    BY <1>1 DEF DeckInput, Is
  <2>2. \A j, l \in DOMAIN problem.cards : problem.cards[j].back # problem.cards[l].back =>
            ~EqualFold(TrimSpace(problem.cards[j].back), TrimSpace(problem.cards[l].back))
    BY <1>1 DEF Apart
  <2> QED BY <2>1, <2>2, FairOptions
<1> QED BY <1>1 DEF ChoicesFair

\* StatementsTrue.
LEMMA StatementsAreTrue ==
  ASSUME DeckInput(problem) PROVE StatementsTrue
<1> DEFINE cards == problem.cards
           says(q) == \E j \in DOMAIN cards : q.text = <<cards[j].front, cards[j].back>>
<1>1. ASSUME Is("deck"),
             \A i, j \in DOMAIN cards : cards[i].front = cards[j].front => i = j,
             NEW i \in DOMAIN cards, NEW q \in generateTrueFalse(cards, i)
      PROVE  q.answer = True <=> says(q)
  <2>1. cards \in Seq(ToSet(cards))
    BY <1>1 DEF DeckInput, Is
  <2>2. True # False
    BY TrueIsNotFalse
  <2> DEFINE wrong == Distractors(cards, i)
  <2>3. \/ q = Statement(cards, i, cards[i].back, True)
        \/ \E n \in 1 .. Len(wrong) : q = Statement(cards, i, wrong[n].back, False)
    BY <2>1, DistractorsAre DEF generateTrueFalse
  <2>4. CASE q = Statement(cards, i, cards[i].back, True)
    <3>1. q.text = <<cards[i].front, cards[i].back>> /\ q.answer = True
      BY <2>4, QuestionIs DEF Statement
    <3> QED BY <3>1
  <2>5. ASSUME NEW n \in 1 .. Len(wrong), q = Statement(cards, i, wrong[n].back, False)
        PROVE  q.answer # True /\ ~says(q)
    <3>1. q.text = <<cards[i].front, wrong[n].back>> /\ q.answer = False
      BY <2>5, QuestionIs DEF Statement
    <3>2. wrong[n].back # cards[i].back
      BY <2>1, DistractorsAre
    <3>3. ASSUME NEW j \in DOMAIN cards, q.text = <<cards[j].front, cards[j].back>>
          PROVE  FALSE
      <4>1. cards[i].front = cards[j].front /\ wrong[n].back = cards[j].back
        BY <3>1, <3>3
      <4>2. i = j
        BY <1>1, <4>1
      <4> QED BY <3>2, <4>1, <4>2
    <3> QED BY <2>2, <3>1, <3>3
  <2> QED BY <2>3, <2>4, <2>5
<1> QED BY <1>1 DEF StatementsTrue

-----------------------------------------------------------------------------
(***************************************************************************)
(* Clozes.                                                                 *)
(***************************************************************************)

\* The words of a text.
LEMMA TextIs ==
  \A w : Text(w).words = w
BY DEF Text

\* The parts of a cloze.
LEMMA ClozeIs ==
  \A c, question, answer : /\ Cloze(c, question, answer).text[1] = question
                           /\ Cloze(c, question, answer).answer = answer
BY DEF Cloze, Question

\* Filling the gap of q gives the words back.
Restores(words, q) ==
  LET asked == q.text[1].words
      gap == CHOOSE i \in DOMAIN asked : asked[i] = Blank
  IN  /\ SubSeq(asked, 1, gap - 1) \o q.answer.words \o SubSeq(asked, gap + 1, Len(asked))
         = words
      /\ Len(words) >= 3 => gap \in 2 .. Len(asked) - 1 /\ Len(q.answer.words) \in 1 .. 2

\* So it does, however the gap was chosen.
LEMMA GapFilled ==
  ASSUME NEW words, words \in Seq(ToSet(words)), Blank \notin ToSet(words),
         NEW q \in ClozeOf([card |-> 1, front |-> Text(words)])
  PROVE  Restores(words, q)
<1> DEFINE c == [card |-> 1, front |-> Text(words)]
           n == Len(words)
           T == ToSet(words)
           asked == q.text[1].words
           gap == CHOOSE i \in DOMAIN asked : asked[i] = Blank
<1>1. c.front = Text(words) /\ c.front.words = words
  BY TextIs
<1>2. n \in Nat
  OBVIOUS
<1> HIDE DEF c, T, gap
<1>3. CASE n < 3
  <2>1. q = Cloze(c, Text(<<Blank>>), c.front)
    BY <1>1, <1>3 DEF ClozeOf, c
  <2>2. asked = <<Blank>> /\ q.answer.words = words
    BY <1>1, <2>1, ClozeIs, TextIs
  <2> DEFINE e == << >>
  <2>3. e \in Seq(T) /\ Len(e) = 0 /\ <<Blank>> = e \o <<Blank>> \o e
    OBVIOUS
  <2>4. gap = 1 /\ Len(asked) = 1
    BY <2>2 DEF gap
  <2>5. SubSeq(asked, 1, gap - 1) = << >> /\ SubSeq(asked, gap + 1, Len(asked)) = << >>
    BY <2>2, <2>4
  <2>6. << >> \o words \o << >> = words
    OBVIOUS
  <2> QED BY <1>2, <1>3, <2>2, <2>5, <2>6 DEF Restores, gap
<1>4. CASE ~ (n < 3)
  <2>1. PICK count \in {1, 2} : \E start \in 1 .. n - count - 1 :
          q = Cloze(c, Text(BlankOut(words, start, count)),
                       Text(SubSeq(words, start + 1, start + count)))
    BY <1>1, <1>4 DEF ClozeOf, c
  <2>a. PICK start \in 1 .. n - count - 1 :
          q = Cloze(c, Text(BlankOut(words, start, count)),
                       Text(SubSeq(words, start + 1, start + count)))
    BY <2>1
  <2> DEFINE a == SubSeq(words, 1, start)
             b == SubSeq(words, start + 1, start + count)
             d == SubSeq(words, start + count + 1, n)
  <2>2. asked = a \o <<Blank>> \o d /\ q.answer.words = b
    <3>1. q.text[1] = Text(BlankOut(words, start, count)) /\ q.answer = Text(b)
      BY <2>a, ClozeIs
    <3>2. BlankOut(words, start, count) = a \o <<Blank>> \o d
      BY DEF BlankOut
    <3> HIDE DEF a, b, d
    <3> QED BY <3>1, <3>2, TextIs
  <2>3. /\ a \in Seq(T) /\ Len(a) = start
        /\ b \in Seq(T) /\ Len(b) = count
        /\ d \in Seq(T) /\ Len(d) = n - start - count
    <3>1. /\ start \in Nat /\ count \in Nat /\ start + count < n /\ start >= 1 /\ count >= 1
          /\ words \in Seq(T)
      BY <1>2, <2>1 DEF T
    <3>2. a \in Seq(T) /\ Len(a) = start
      <4>1. \A i \in 1 .. start : words[i] \in T
        BY <1>2, <3>1
      <4> QED BY <1>2, <3>1, <4>1, SubSeqProperties
    <3>3. b \in Seq(T) /\ Len(b) = count
      <4>1. \A i \in start + 1 .. start + count : words[i] \in T
        BY <1>2, <3>1
      <4> QED BY <1>2, <3>1, <4>1, SubSeqProperties
    <3>4. d \in Seq(T) /\ Len(d) = n - start - count
      <4>1. \A i \in start + count + 1 .. n : words[i] \in T
        BY <1>2, <3>1
      <4> QED BY <1>2, <3>1, <4>1, SubSeqProperties
    <3> QED BY <3>2, <3>3, <3>4
  <2>4. a \o b \o d = words
    <3>1. a \o b = SubSeq(words, 1, start + count)
      <4>1. 1 \in 1 .. n + 1 /\ start \in 1 - 1 .. n /\ start + count \in start .. n
        BY <1>2, <2>1
      <4> QED BY <4>1, ConcatAdjacentSubSeq
    <3>2. SubSeq(words, 1, start + count) \o d = SubSeq(words, 1, n)
      <4>1. 1 \in 1 .. n + 1 /\ start + count \in 1 - 1 .. n /\ n \in start + count .. n
        BY <1>2, <2>1
      <4> QED BY <4>1, ConcatAdjacentSubSeq
    <3>3. SubSeq(words, 1, n) = words
      BY SubSeqFull
    <3> QED BY <3>1, <3>2, <3>3
  <2> HIDE DEF a, b, d, asked
  <2>5. /\ Len(asked) = Len(a) + 1 + Len(d) /\ gap = Len(a) + 1
        /\ SubSeq(asked, 1, Len(a)) = a /\ SubSeq(asked, Len(a) + 2, Len(asked)) = d
    <3>1. Blank \notin T
      BY DEF T
    <3>2. PICK U, x, e, f, s : U = T /\ x = Blank /\ e = a /\ f = d /\ s = asked
      OBVIOUS
    <3>3. e \in Seq(U) /\ f \in Seq(U) /\ x \notin U /\ s = e \o <<x>> \o f
      BY <2>2, <2>3, <3>1, <3>2
    <3>4. /\ Len(s) = Len(e) + 1 + Len(f)
          /\ (CHOOSE i \in DOMAIN s : s[i] = x) = Len(e) + 1
          /\ SubSeq(s, 1, Len(e)) = e /\ SubSeq(s, Len(e) + 2, Len(s)) = f
      BY <3>3, PutIn
    <3>5. gap = CHOOSE i \in DOMAIN s : s[i] = x
      BY <3>2 DEF gap, asked
    <3> QED BY <3>2, <3>4, <3>5
  <2>6. gap - 1 = Len(a) /\ gap + 1 = Len(a) + 2 /\ start \in Nat /\ count \in Nat
    BY <1>2, <2>1, <2>3, <2>5
  <2>7. SubSeq(asked, 1, gap - 1) \o q.answer.words \o SubSeq(asked, gap + 1, Len(asked))
          = words
    BY <2>2, <2>4, <2>5, <2>6
  <2>8. gap \in 2 .. Len(asked) - 1 /\ Len(q.answer.words) \in 1 .. 2
    <3>1. Len(b) = count /\ count \in 1 .. 2
      BY <2>3
    <3>2. Len(asked) = n - count + 1 /\ gap = start + 1
      BY <1>2, <2>3, <2>5, <2>6
    <3>3. gap \in 2 .. Len(asked) - 1
      BY <1>2, <2>6, <3>2
    <3> QED BY <2>2, <3>1, <3>3
  <2> QED BY <2>7, <2>8 DEF Restores, gap, asked
<1> QED BY <1>3, <1>4

\* ClozeRestores.
LEMMA GapsFilled ==
  ASSUME ClozeInput(problem) PROVE ClozeRestores
<1>1. ASSUME Is("cloze"), Blank \notin ToSet(problem.words),
             NEW q \in ClozeOf([card |-> 1, front |-> Text(problem.words)])
      PROVE  Restores(problem.words, q)
  BY <1>1, GapFilled DEF ClozeInput, Is
<1> QED BY <1>1 DEF ClozeRestores, Restores

-----------------------------------------------------------------------------
(***************************************************************************)
(* The ayat of a deck, and their continuations.                            *)
(***************************************************************************)

\* The ayat of a deck: cards with a number each, and no card twice.
AyatList(cards) ==
  /\ cards \in Seq(ToSet(cards))
  /\ \A i \in DOMAIN cards : cards[i].ayat \in Int
  /\ \A i, j \in DOMAIN cards : cards[i].card = cards[j].card => i = j

\* The ayat that the tags of a card give is a number.
LEMMA TagsParsed ==
  ASSUME NEW tags, tags \in Seq(ToSet(tags)),
         \A n \in DOMAIN tags :
            (tags[n].kind = "ayat" /\ tags[n].value # NoNumber) => tags[n].value \in Int
  PROVE  parseCardTags(tags).ayat \in Int
<1> DEFINE ayats == {i \in DOMAIN tags : tags[i].kind = "ayat" /\ tags[i].value # NoNumber}
<1>1. parseCardTags(tags).ayat = IF ayats = {} THEN 0 ELSE tags[Max(ayats)].value
  BY DEF parseCardTags
<1>2. ayats # {} => Max(ayats) \in ayats
  <2>1. /\ ayats \in SUBSET Int /\ Len(tags) \in Int
        /\ \A x \in ayats : x <= Len(tags)
    OBVIOUS
  <2> HIDE DEF ayats
  <2>2. ayats # {} => \E n \in ayats : \A m \in ayats : m <= n
    BY <2>1, GreatestOf
  <2>3. ayats # {} => \E n \in ayats : \A m \in ayats : n >= m
    BY <2>1, <2>2
  <2> QED BY <2>3 DEF Max
<1>3. \A i \in ayats : tags[i].value \in Int
  OBVIOUS
<1> HIDE DEF ayats
<1> QED BY <1>1, <1>2, <1>3

\* filterAyatCards gives such a list.
LEMMA AyatListed ==
  ASSUME AyatInput(problem), Is("ayat")
  PROVE  AyatList(AyatOf(problem))
<1> DEFINE given == problem.cards
           meta(i) == parseCardTags(given[i].tags)
           all == [i \in DOMAIN given |->
                     [card |-> given[i].id, front |-> given[i].front,
                      surat |-> meta(i).surat, ayat |-> meta(i).ayat]]
           I == {i \in DOMAIN all : all[i].surat # NoSurat /\ all[i].ayat > 0}
           K == Cardinality(I)
           cards == AyatOf(problem)
<1>1. /\ given \in Seq(ToSet(given))
      /\ \A i, j \in DOMAIN given : given[i].id = given[j].id => i = j
      /\ \A i \in DOMAIN given : LET tags == given[i].tags IN
            /\ tags \in Seq(ToSet(tags))
            /\ \A n \in DOMAIN tags :
                  (tags[n].kind = "ayat" /\ tags[n].value # NoNumber)
                    => tags[n].value \in Int
  BY DEF AyatInput, Is
<1>2. \A i \in DOMAIN given : meta(i).ayat \in Int
  BY <1>1, TagsParsed
<1>3. cards = KeepAt(all, I)
  BY DEF AyatOf, filterAyatCards
<1>4. DOMAIN given = 1 .. Len(given) /\ Len(given) \in Nat
  BY <1>1
<1> HIDE DEF given, meta
<1>5. /\ DOMAIN all = DOMAIN given
      /\ \A i \in DOMAIN given : all[i].card = given[i].id /\ all[i].ayat = meta(i).ayat
  OBVIOUS
<1>6. I \in SUBSET Int /\ IsFiniteSet(I) /\ I \subseteq DOMAIN given
  <2>1. IsFiniteSet(1 .. Len(given)) /\ I \subseteq 1 .. Len(given) /\ I \in SUBSET Int
    BY <1>4, FS_Interval
  <2> HIDE DEF I
  <2> QED BY <1>4, <2>1, FS_Subset
<1> HIDE DEF all, I, cards
<1>7. PICK at : Keeps(cards, all, I, at)
  BY <1>3, <1>6, KeptInOrder
<1>8. K \in Nat
  BY <1>6, FS_CardinalityType
<1>9. /\ at \in [1 .. K -> I] /\ cards = [n \in 1 .. K |-> all[at[n]]]
      /\ \A m, n \in 1 .. K : at[m] = at[n] => m = n
  BY <1>7 DEF Keeps
<1>10. DOMAIN cards = 1 .. K /\ cards \in Seq(ToSet(cards))
  <2>1. DOMAIN cards = 1 .. K /\ cards = [n \in 1 .. K |-> cards[n]]
    BY <1>9
  <2>2. \A n \in 1 .. K : cards[n] \in ToSet(cards)
    BY <2>1 DEF ToSet
  <2> QED BY <1>8, <2>1, <2>2
<1>11. \A n \in 1 .. K : /\ at[n] \in DOMAIN given /\ cards[n].card = given[at[n]].id
                         /\ cards[n].ayat \in Int
  BY <1>2, <1>5, <1>6, <1>9
<1>12. \A i, j \in 1 .. K : cards[i].card = cards[j].card => i = j
  BY <1>1, <1>9, <1>11
<1> QED BY <1>10, <1>11, <1>12 DEF AyatList, cards

\* A group: the ayat of a surat, each once, by number.
Group(g, cards, s) ==
  /\ g \in Seq(ToSet(cards))
  /\ Len(g) \in Nat /\ Len(g) >= 1 /\ DOMAIN g = 1 .. Len(g)
  /\ \A i \in 1 .. Len(g) : g[i] \in ToSet(cards) /\ g[i].surat = s /\ g[i].ayat \in Int
  /\ \A c \in ToSet(cards) : c.surat = s => \E i \in 1 .. Len(g) : g[i] = c
  /\ \A i, j \in 1 .. Len(g) : i <= j => g[i].ayat <= g[j].ayat
  /\ \A i, j \in 1 .. Len(g) : g[i] = g[j] => i = j

\* What is sorted of a surat is its group,
LEMMA SortedIs ==
  ASSUME NEW cards, AyatList(cards), NEW s \in SuratsOf(cards), NEW g \in Sorted(cards, s)
  PROVE  Group(g, cards, s)
<1> DEFINE I == {i \in DOMAIN cards : cards[i].surat = s}
           K == Cardinality(I)
           kept == KeepAt(cards, I)
<1>1. DOMAIN cards = 1 .. Len(cards) /\ Len(cards) \in Nat
  BY DEF AyatList
<1>2. I \in SUBSET Int /\ IsFiniteSet(I) /\ I # {}
  <2>1. IsFiniteSet(1 .. Len(cards)) /\ I \subseteq 1 .. Len(cards) /\ I \in SUBSET Int
    BY <1>1, FS_Interval
  <2>2. I # {}
    BY DEF SuratsOf
  <2> HIDE DEF I
  <2> QED BY <2>1, <2>2, FS_Subset
<1>3. g \in Shuffles(kept) /\ InOrder(g)
  BY DEF Sorted
<1>4. \A i : i \in I <=> i \in DOMAIN cards /\ cards[i].surat = s
  OBVIOUS
<1> HIDE DEF I, kept
<1>5. PICK at : Keeps(kept, cards, I, at)
  BY <1>2, KeptInOrder DEF kept
<1>6. K \in Nat /\ K # 0
  BY <1>2, FS_CardinalityType, FS_EmptySet
<1>7. /\ at \in [1 .. K -> I] /\ kept = [n \in 1 .. K |-> cards[at[n]]]
      /\ \A i \in I : \E n \in 1 .. K : at[n] = i
      /\ \A m, n \in 1 .. K : at[m] = at[n] => m = n
  BY <1>5 DEF Keeps
<1> HIDE DEF K
<1>8. PICK p \in Bijection(1 .. K, 1 .. K) : g = [n \in 1 .. K |-> kept[p[n]]]
  <2>1. DOMAIN kept = 1 .. K
    BY <1>7
  <2> QED BY <1>3, <1>6, <2>1, ShuffleIs
<1>9. /\ \A n \in 1 .. K : p[n] \in 1 .. K
      /\ \A n, l \in 1 .. K : p[n] = p[l] => n = l
      /\ \A l \in 1 .. K : \E n \in 1 .. K : p[n] = l
  BY <1>8 DEF Bijection, Injection, Surjection, IsInjective
<1>10. \A n \in 1 .. K : g[n] = cards[at[p[n]]] /\ at[p[n]] \in I
  BY <1>7, <1>8, <1>9
<1>11. DOMAIN g = 1 .. K /\ Len(g) = K
  BY <1>6, <1>8
<1>12. \A n \in 1 .. K : g[n] \in ToSet(cards) /\ g[n].surat = s /\ g[n].ayat \in Int
  BY <1>4, <1>10 DEF ToSet, AyatList
<1>13. ASSUME NEW c \in ToSet(cards), c.surat = s PROVE \E n \in 1 .. K : g[n] = c
  <2>1. PICK i \in DOMAIN cards : cards[i] = c
    BY DEF ToSet
  <2>2. i \in I
    BY <1>4, <1>13, <2>1
  <2>3. PICK m \in 1 .. K : at[m] = i
    BY <1>7, <2>2
  <2>4. PICK n \in 1 .. K : p[n] = m
    BY <1>9
  <2> QED BY <1>10, <2>1, <2>3, <2>4
<1>14. \A i, j \in 1 .. K : g[i] = g[j] => i = j
  <2>1. SUFFICES ASSUME NEW i \in 1 .. K, NEW j \in 1 .. K, g[i] = g[j] PROVE i = j
    OBVIOUS
  <2>2. at[p[i]] = at[p[j]]
    BY <1>4, <1>10, <2>1 DEF AyatList
  <2> QED BY <1>7, <1>9, <2>2, SMTT(60)
<1>15. \A i, j \in 1 .. K : i <= j => g[i].ayat <= g[j].ayat
  <2> DEFINE a == [i \in 1 .. K |-> g[i].ayat]
  <2>1. \A i \in 1 .. K : a[i] \in Int /\ a[i] = g[i].ayat
    BY <1>12
  <2>2. \A i \in 1 .. K - 1 : a[i] <= a[i + 1]
    <3>1. \A i \in 1 .. K - 1 : i \in 1 .. K /\ i + 1 \in 1 .. K
      BY <1>6
    <3>2. \A i \in 1 .. K - 1 : g[i].ayat <= g[i + 1].ayat
      BY <1>3, <1>11 DEF InOrder
    <3> HIDE DEF a
    <3> QED BY <2>1, <3>1, <3>2
  <2> HIDE DEF a
  <2>3. \A i, j \in 1 .. K : i <= j => a[i] <= a[j]
    BY <1>6, <2>1, <2>2, InOrderThroughout
  <2> QED BY <2>1, <2>3
<1>16. K \in Nat /\ K >= 1
  BY <1>6
<1>17. g \in Seq(ToSet(cards))
  <2>1. g = [n \in 1 .. K |-> g[n]]
    BY <1>8
  <2> QED BY <1>12, <1>16, <2>1
<1> QED BY <1>11, <1>12, <1>13, <1>14, <1>15, <1>16, <1>17 DEF Group

\* and groupBySurat gives every surat its group.
LEMMA GroupsAre ==
  ASSUME NEW cards, AyatList(cards), NEW groups \in groupBySurat(cards)
  PROVE  /\ DOMAIN groups = SuratsOf(cards)
         /\ \A s \in SuratsOf(cards) : Group(groups[s], cards, s)
<1>1. groups \in [SuratsOf(cards) -> UNION {Sorted(cards, s) : s \in SuratsOf(cards)}]
      /\ \A s \in SuratsOf(cards) : \A i \in DOMAIN groups[s] : groups[s][i].surat = s
  BY DEF groupBySurat
<1>2. ASSUME NEW s \in SuratsOf(cards) PROVE Group(groups[s], cards, s)
  <2>1. PICK u \in SuratsOf(cards) : groups[s] \in Sorted(cards, u)
    BY <1>1
  <2>2. Group(groups[s], cards, u)
    BY <2>1, SortedIs
  <2>3. 1 \in DOMAIN groups[s] /\ groups[s][1].surat = u
    BY <2>2 DEF Group
  <2>4. u = s
    BY <1>1, <2>3
  <2> QED BY <2>2, <2>4
<1> QED BY <1>1, <1>2

\* The question about the ayat after the one at k.
Next2(g, k) ==
  Question("ayat_continuation", g[k + 1].card, <<g[k].front>>, << >>, g[k + 1].front, 1)

\* The continuations are made from the places where one ayat follows another.
LEMMA ContinuationsAre ==
  ASSUME NEW groups, NEW q
  PROVE  q \in generateAyatContinuation(groups) <=>
           \E s \in DOMAIN groups : \E k \in 1 .. Len(groups[s]) - 1 :
             Follows(groups[s][k], groups[s][k + 1]) /\ q = Next2(groups[s], k)
<1> DEFINE places == UNION {{s} \X (1 .. Len(groups[s]) - 1) : s \in DOMAIN groups}
<1>1. \A p : p \in places <=> \E s \in DOMAIN groups : \E k \in 1 .. Len(groups[s]) - 1 :
        p = <<s, k>>
  OBVIOUS
<1>2. generateAyatContinuation(groups) =
        {Next2(groups[p[1]], p[2]) :
           p \in {r \in places : Follows(groups[r[1]][r[2]], groups[r[1]][r[2] + 1])}}
  BY DEF generateAyatContinuation, Next2
<1> HIDE DEF places
<1>3. q \in generateAyatContinuation(groups) <=>
        \E p \in places : /\ Follows(groups[p[1]][p[2]], groups[p[1]][p[2] + 1])
                         /\ q = Next2(groups[p[1]], p[2])
  BY <1>2
<1>4. ASSUME NEW p \in places, Follows(groups[p[1]][p[2]], groups[p[1]][p[2] + 1]),
             q = Next2(groups[p[1]], p[2])
      PROVE  \E s \in DOMAIN groups : \E k \in 1 .. Len(groups[s]) - 1 :
               Follows(groups[s][k], groups[s][k + 1]) /\ q = Next2(groups[s], k)
  <2>1. PICK s \in DOMAIN groups : \E k \in 1 .. Len(groups[s]) - 1 : p = <<s, k>>
    BY <1>1
  <2>2. PICK k \in 1 .. Len(groups[s]) - 1 : p = <<s, k>>
    BY <2>1
  <2>3. p[1] = s /\ p[2] = k
    BY <2>2
  <2> QED BY <1>4, <2>3
<1>5. ASSUME NEW s \in DOMAIN groups, NEW k \in 1 .. Len(groups[s]) - 1,
             Follows(groups[s][k], groups[s][k + 1]), q = Next2(groups[s], k)
      PROVE  \E p \in places : /\ Follows(groups[p[1]][p[2]], groups[p[1]][p[2] + 1])
                               /\ q = Next2(groups[p[1]], p[2])
  <2>1. PICK p : p = <<s, k>>
    OBVIOUS
  <2>2. p \in places /\ p[1] = s /\ p[2] = k
    BY <1>1, <2>1
  <2> QED BY <1>5, <2>2
<1> QED BY <1>3, <1>4, <1>5

\* q asks for the ayat after another of the same surat.
Continues(all, q) ==
  \E c \in all, d \in all : /\ After(c, d) /\ q.text = <<c.front>> /\ q.answer = d.front
                            /\ q.card = d.card

\* That is what the continuations do, and there is one wherever an ayat
\* follows another: after the last card with the first of the two ayat comes
\* a card with the second.
LEMMA ContinuationsFollow ==
  ASSUME NEW cards, AyatList(cards), NEW groups \in groupBySurat(cards)
  PROVE  LET all == ToSet(cards)
             made == generateAyatContinuation(groups)
         IN  /\ \A q \in made : Continues(all, q)
             /\ (\E c, d \in all : After(c, d)) => made # {}
<1> DEFINE all == ToSet(cards)
           made == generateAyatContinuation(groups)
<1>1. ASSUME NEW q \in made PROVE Continues(all, q)
  <2>1. PICK s \in DOMAIN groups : \E k \in 1 .. Len(groups[s]) - 1 :
             /\ Follows(groups[s][k], groups[s][k + 1])
             /\ q = Next2(groups[s], k)
    BY ContinuationsAre
  <2>2. PICK k \in 1 .. Len(groups[s]) - 1 :
             /\ Follows(groups[s][k], groups[s][k + 1])
             /\ q = Next2(groups[s], k)
    BY <2>1
  <2>3. Group(groups[s], cards, s)
    BY GroupsAre
  <2>4. k \in 1 .. Len(groups[s]) /\ k + 1 \in 1 .. Len(groups[s])
    BY <2>3 DEF Group
  <2>5. PICK c, d : c = groups[s][k] /\ d = groups[s][k + 1]
    OBVIOUS
  <2>6. c \in all /\ d \in all /\ After(c, d)
    BY <2>2, <2>3, <2>4, <2>5 DEF Group, After, Follows
  <2>7. q.text = <<c.front>> /\ q.answer = d.front /\ q.card = d.card
    BY <2>2, <2>5, QuestionIs DEF Next2
  <2> QED BY <2>6, <2>7 DEF Continues
<1>2. ASSUME NEW c \in all, NEW d \in all, After(c, d) PROVE made # {}
  <2> DEFINE s == c.surat
             g == groups[s]
             L == Len(g)
  <2>1. s \in SuratsOf(cards)
    BY DEF SuratsOf, ToSet
  <2>2. Group(g, cards, s) /\ s \in DOMAIN groups
    BY <2>1, GroupsAre
  <2> HIDE DEF g, all
  <2>3. /\ L \in Nat /\ DOMAIN g = 1 .. L
        /\ \A i \in 1 .. L : g[i].surat = s /\ g[i].ayat \in Int
        /\ \A x \in ToSet(cards) : x.surat = s => \E i \in 1 .. L : g[i] = x
        /\ \A i, j \in 1 .. L : i <= j => g[i].ayat <= g[j].ayat
    BY <2>2 DEF Group
  <2>4. PICK i \in 1 .. L : g[i] = c
    BY <2>3 DEF all
  <2>5. PICK j \in 1 .. L : g[j] = d
    BY <1>2, <2>3 DEF all, After
  <2>6. d.ayat = c.ayat + 1 /\ c.ayat \in Int
    BY <1>2, <2>3, <2>4 DEF After
  <2> DEFINE F == {k \in 1 .. L : g[k].ayat = c.ayat}
  <2>7. PICK k \in F : \A m \in F : m <= k
    <3>1. F \in SUBSET Int /\ F # {} /\ L \in Int /\ \A x \in F : x <= L
      BY <2>3, <2>4
    <3> HIDE DEF F
    <3> QED BY <3>1, GreatestOf
  <2>8. k < j
    <3>1. ~ (j <= k)
      BY <2>3, <2>5, <2>6, <2>7
    <3> QED BY <2>3, <2>7, <3>1
  <2>9. k + 1 \in 1 .. L /\ k + 1 <= j /\ k \in 1 .. L - 1 /\ k <= k + 1
    BY <2>3, <2>7, <2>8
  <2>10. g[k + 1].ayat <= d.ayat /\ c.ayat <= g[k + 1].ayat /\ g[k + 1].ayat \in Int
    BY <2>3, <2>5, <2>7, <2>9
  <2>11. g[k + 1].ayat # c.ayat
    BY <2>7, <2>9
  <2>12. Follows(g[k], g[k + 1])
    BY <2>6, <2>7, <2>10, <2>11 DEF Follows
  <2>13. PICK q : q = Next2(g, k)
    OBVIOUS
  <2>14. q \in made
    BY <2>2, <2>9, <2>12, <2>13, ContinuationsAre DEF g
  <2> QED BY <2>14
<1> QED BY <1>1, <1>2

\* ContinuationFollows.
LEMMA ContinuationsRight ==
  ASSUME AyatInput(problem) PROVE ContinuationFollows
<1> DEFINE all == ToSet(AyatOf(problem))
           asked == {p \in all \X all : After(p[1], p[2])}
<1>1. ASSUME Is("ayat"), NEW groups \in groupBySurat(AyatOf(problem)),
             NEW made, made = generateAyatContinuation(groups)
      PROVE  /\ made = {} <=> asked = {}
             /\ \A q \in made : \E p \in asked :
                   /\ q.text = <<p[1].front>> /\ q.answer = p[2].front
                   /\ q.card = p[2].card
  <2>1. AyatList(AyatOf(problem))
    BY <1>1, AyatListed
  <2>2. /\ \A q \in made : Continues(all, q)
        /\ (\E c, d \in all : After(c, d)) => made # {}
    BY <1>1, <2>1, ContinuationsFollow
  <2> HIDE DEF all
  <2>3. asked # {} => made # {}
    BY <2>2
  <2>4. ASSUME NEW q \in made
        PROVE  \E p \in asked : /\ q.text = <<p[1].front>> /\ q.answer = p[2].front
                                /\ q.card = p[2].card
    <3>1. PICK c \in all, d \in all : /\ After(c, d) /\ q.text = <<c.front>>
                                      /\ q.answer = d.front /\ q.card = d.card
      BY <2>2 DEF Continues
    <3>2. <<c, d>> \in asked /\ <<c, d>>[1] = c /\ <<c, d>>[2] = d
      BY <3>1
    <3> QED BY <3>1, <3>2
  <2> QED BY <2>3, <2>4
<1> QED BY <1>1 DEF ContinuationFollows

-----------------------------------------------------------------------------
(***************************************************************************)
(* Surats to choose from.                                                  *)
(***************************************************************************)

\* A choice of surats: the right one at k, others elsewhere.
SurahChoice(q, cards, c, k) ==
  /\ q.type = "surah_identification" /\ q.card = c.card /\ q.answer = c.surat
  /\ DOMAIN q.options = 1 .. Len(q.options) /\ Len(q.options) \in 2 .. 4
  /\ Len(q.options) = AtMost(4, Cardinality(SuratsOf(cards)))
  /\ k \in 1 .. Len(q.options) /\ q.options[k] = Option(c.surat, TRUE)
  /\ \A n \in 1 .. Len(q.options) : n # k =>
        \E s \in SuratsOf(cards) : s # c.surat /\ q.options[n] = Option(s, FALSE)
  /\ \A i, j \in 1 .. Len(q.options) : q.options[i].text = q.options[j].text => i = j

\* The questions about a surat are such choices.
LEMMA SurahChoiceIs ==
  ASSUME NEW cards, NEW groups, IsFiniteSet(DOMAIN groups), DOMAIN groups = SuratsOf(cards),
         Cardinality(DOMAIN groups) >= 2, NEW c \in ToSet(cards),
           NEW q \in SurahQuestions(c, groups)
  PROVE  \E k : SurahChoice(q, cards, c, k)
<1> DEFINE others == OtherSurats(c, groups)
           n == AtMost(3, Cardinality(others))
           right == {Option(s, TRUE) : s \in {c.surat}}
           wrong(d) == {Option(s, FALSE) : s \in d}
<1>1. PICK d \in kSubset(n, others) :
        q = Question("surah_identification", c.card, <<c.front>>,
                     SetToSeq(right \cup wrong(d)), c.surat, 1)
  BY DEF SurahQuestions
<1>2. /\ IsFiniteSet(others) /\ Cardinality(others) \in Nat /\ Cardinality(others) >= 1
      /\ Cardinality(SuratsOf(cards)) = Cardinality(others) + 1
  <2>1. c.surat \in DOMAIN groups
    BY DEF SuratsOf, ToSet
  <2>2. Cardinality(DOMAIN groups) \in Nat
    BY FS_CardinalityType
  <2>3. IsFiniteSet(others) /\ Cardinality(others) = Cardinality(DOMAIN groups) - 1
    BY <2>1, FS_RemoveElement DEF OtherSurats
  <2> QED BY <2>2, <2>3
<1>3. others \subseteq SuratsOf(cards) /\ c.surat \notin others
  BY DEF OtherSurats
<1> HIDE DEF others
<1>4. n \in 1 .. 3 /\ AtMost(4, Cardinality(SuratsOf(cards))) = 1 + n
  <2>1. PICK m \in Nat : /\ m = Cardinality(others) /\ m >= 1
                         /\ Cardinality(SuratsOf(cards)) = m + 1
    BY <1>2
  <2>2. AtMost(3, m) \in 1 .. 3 /\ AtMost(4, m + 1) = 1 + AtMost(3, m)
    BY <2>1 DEF AtMost
  <2> QED BY <2>1, <2>2
<1> HIDE DEF n
<1>5. d \subseteq others /\ Cardinality(d) = n
  BY DEF kSubset
<1>6. IsFiniteSet(d)
  BY <1>2, <1>5, FS_Subset
<1>7. \A s \in d : s \in SuratsOf(cards) /\ s # c.surat
  BY <1>3, <1>5
<1> DEFINE T == right \cup wrong(d)
<1>8. right = {Option(c.surat, TRUE)}
  OBVIOUS
<1>9. IsFiniteSet(wrong(d)) /\ Cardinality(wrong(d)) = n
  <2> DEFINE f == [s \in d |-> Option(s, FALSE)]
             W == wrong(d)
  <2>1. \A s, t \in d : f[s] = f[t] => s = t
    <3>1. \A s \in d : f[s].text = s
      BY OptionText
    <3> QED BY <3>1
  <2>2. f \in [d -> W] /\ \A w \in W : \E s \in d : f[s] = w
    OBVIOUS
  <2> HIDE DEF f, W
  <2>3. IsFiniteSet(W) /\ Cardinality(d) = Cardinality(W)
    BY <1>6, <2>1, <2>2, SameCount
  <2> QED BY <1>5, <2>3 DEF W
<1>10. right \cap wrong(d) = {}
  <2>1. \A s \in d : Option(s, FALSE) # Option(c.surat, TRUE)
    BY <1>7, OptionText
  <2> QED BY <1>8, <2>1
<1>11. IsFiniteSet(T) /\ Cardinality(T) = 1 + n
  <2>1. IsFiniteSet(right) /\ Cardinality(right) = 1
    BY <1>8, FS_Singleton
  <2>2. PICK a, b : a = right /\ b = wrong(d)
    OBVIOUS
  <2>3. IsFiniteSet(a) /\ IsFiniteSet(b) /\ a \cap b = {} /\ Cardinality(a) = 1
          /\ Cardinality(b) = n
    BY <1>9, <1>10, <2>1, <2>2
  <2>4. IsFiniteSet(a \cup b) /\ Cardinality(a \cup b) = 1 + n
    BY <2>3, CountApart
  <2> QED BY <2>2, <2>4
<1>12. \A x \in T : \/ x = Option(c.surat, TRUE)
                    \/ \E s \in SuratsOf(cards) : s # c.surat /\ x = Option(s, FALSE)
  BY <1>7, <1>8
<1>13. Option(c.surat, TRUE) \in T
  BY <1>8
<1>14. \A x, y \in T : x.text = y.text => x = y
  <2>1. \A x \in T : /\ x.text = c.surat => x = Option(c.surat, TRUE)
                     /\ x.text # c.surat => x = Option(x.text, FALSE)
    <3> HIDE DEF T
    <3>1. SUFFICES ASSUME NEW x \in T
          PROVE  /\ x.text = c.surat => x = Option(c.surat, TRUE)
                 /\ x.text # c.surat => x = Option(x.text, FALSE)
      OBVIOUS
    <3>2. CASE x = Option(c.surat, TRUE)
      <4>1. x.text = c.surat
        BY <3>2, OptionText
      <4> QED BY <3>2, <4>1
    <3>3. CASE \E s \in SuratsOf(cards) : s # c.surat /\ x = Option(s, FALSE)
      <4>1. PICK s \in SuratsOf(cards) : s # c.surat /\ x = Option(s, FALSE)
        BY <3>3
      <4>2. x.text = s
        BY <4>1, OptionText
      <4> QED BY <4>1, <4>2
    <3> QED BY <1>12, <3>2, <3>3
  <2> HIDE DEF T
  <2> QED BY <2>1
<1> HIDE DEF T, right, wrong
<1> DEFINE opts == SetToSeq(T)
           K == Cardinality(T)
<1>15. /\ opts \in [1 .. K -> T] /\ K \in Nat
       /\ \A i, j \in 1 .. K : opts[i] = opts[j] => i = j
       /\ \A x \in T : \E i \in 1 .. K : opts[i] = x
  BY <1>11, ListOf
<1>16. q.options = opts /\ q.type = "surah_identification" /\ q.card = c.card
         /\ q.answer = c.surat
  BY <1>1, QuestionIs DEF T
<1>17. K \in 2 .. 4
  BY <1>4, <1>11
<1> HIDE DEF opts, K
<1>18. DOMAIN opts = 1 .. K /\ Len(opts) = K
  BY <1>15
<1>19. PICK k \in 1 .. K : opts[k] = Option(c.surat, TRUE)
  BY <1>13, <1>15
<1>20. ASSUME NEW i \in 1 .. K, i # k
       PROVE  \E s \in SuratsOf(cards) : s # c.surat /\ opts[i] = Option(s, FALSE)
  <2>1. opts[i] \in T /\ opts[i] # Option(c.surat, TRUE)
    BY <1>15, <1>19, <1>20
  <2> QED BY <1>12, <2>1
<1>21. K = AtMost(4, Cardinality(SuratsOf(cards)))
  BY <1>4, <1>11 DEF K
<1>22. \A i, j \in 1 .. K : opts[i].text = opts[j].text => i = j
  BY <1>14, <1>15
<1>23. SurahChoice(q, cards, c, k)
  BY <1>16, <1>17, <1>18, <1>19, <1>20, <1>21, <1>22 DEF SurahChoice
<1> QED BY <1>23

\* What a question about a surat is to be.
Marked(q) == {i \in DOMAIN q.options : q.options[i].correct}

Texts(q) == [i \in DOMAIN q.options |-> q.options[i].text]

Names(cards, q) ==
  /\ Len(q.options) = AtMost(4, Cardinality(SuratsOf(cards)))
  /\ Len(q.options) \in 2 .. 4
  /\ IsInjective(Texts(q))
  /\ {Texts(q)[i] : i \in Marked(q)} = {q.answer}
  /\ Apart(SuratsOf(cards)) => RightOptions(q) = Marked(q)
  /\ \E c \in ToSet(cards) : q.card = c.card /\ q.answer = c.surat

\* They have the right surat marked, and only that one is graded right.
LEMMA SurahChoiceRight ==
  ASSUME NEW cards, NEW c \in ToSet(cards), NEW q, NEW k, SurahChoice(q, cards, c, k)
  PROVE  Names(cards, q)
<1>1. /\ q.type = "surah_identification" /\ q.answer = c.surat /\ q.card = c.card
      /\ DOMAIN q.options = 1 .. Len(q.options) /\ Len(q.options) \in 2 .. 4
      /\ Len(q.options) = AtMost(4, Cardinality(SuratsOf(cards)))
      /\ k \in 1 .. Len(q.options) /\ q.options[k] = Option(c.surat, TRUE)
      /\ \A n \in 1 .. Len(q.options) : n # k =>
            \E s \in SuratsOf(cards) : s # c.surat /\ q.options[n] = Option(s, FALSE)
      /\ \A i, j \in 1 .. Len(q.options) : q.options[i].text = q.options[j].text => i = j
  BY DEF SurahChoice
<1>2. Marked(q) = {k}
  <2>1. q.options[k].correct
    BY <1>1, OptionMarks
  <2>2. \A n \in 1 .. Len(q.options) : n # k => ~q.options[n].correct
    BY <1>1, OptionMarks
  <2>3. \A n \in DOMAIN q.options : q.options[n].correct <=> n = k
    BY <1>1, <2>1, <2>2
  <2>4. k \in DOMAIN q.options
    BY <1>1
  <2> QED BY <2>3, <2>4 DEF Marked
<1>3. q.options[k].text = q.answer
  BY <1>1, OptionText
<1>4. ASSUME Apart(SuratsOf(cards)) PROVE RightOptions(q) = {k}
  <2>1. c.surat \in SuratsOf(cards)
    BY DEF SuratsOf, ToSet
  <2>2. \A a : gradeAnswer(q, a) <=> EqualFold(TrimSpace(a), TrimSpace(q.answer))
    BY <1>1 DEF gradeAnswer, BlankTypes
  <2>3. gradeAnswer(q, q.options[k].text)
    BY <1>3, <2>2 DEF EqualFold
  <2>4. ASSUME NEW n \in 1 .. Len(q.options), n # k PROVE ~gradeAnswer(q, q.options[n].text)
    <3>1. PICK s \in SuratsOf(cards) : s # c.surat /\ q.options[n] = Option(s, FALSE)
      BY <1>1, <2>4
    <3>2. q.options[n].text = s
      BY <3>1, OptionText
    <3>3. ~EqualFold(TrimSpace(s), TrimSpace(c.surat))
      BY <1>4, <2>1, <3>1 DEF Apart
    <3> QED BY <1>1, <2>2, <3>2, <3>3
  <2> QED BY <1>1, <2>3, <2>4 DEF RightOptions
<1>5. IsInjective(Texts(q))
  BY <1>1 DEF IsInjective, Texts
<1>6. {Texts(q)[i] : i \in Marked(q)} = {q.answer}
  <2>1. Texts(q)[k] = q.answer
    BY <1>1, <1>3 DEF Texts
  <2> QED BY <1>2, <2>1
<1> QED BY <1>1, <1>2, <1>4, <1>5, <1>6 DEF Names

\* They are, and there are some when there are two surats.
LEMMA SurahsIdentified ==
  ASSUME NEW cards, AyatList(cards), NEW groups \in groupBySurat(cards)
  PROVE  LET made == generateSurahIdentification(cards, groups)
         IN  /\ made = {} <=> Cardinality(SuratsOf(cards)) < 2
             /\ \A q \in made : Names(cards, q)
<1> DEFINE made == generateSurahIdentification(cards, groups)
<1>1. DOMAIN cards = 1 .. Len(cards) /\ Len(cards) \in Nat
  BY DEF AyatList
<1>2. DOMAIN groups = SuratsOf(cards)
  BY GroupsAre
<1>3. IsFiniteSet(SuratsOf(cards)) /\ Cardinality(SuratsOf(cards)) \in Nat
  <2> DEFINE f == [i \in DOMAIN cards |-> cards[i].surat]
  <2>1. f \in Surjection(DOMAIN cards, SuratsOf(cards))
    BY DEF Surjection, SuratsOf
  <2>2. IsFiniteSet(DOMAIN cards)
    <3>1. IsFiniteSet(1 .. Len(cards))
      BY <1>1, FS_Interval
    <3> QED BY <1>1, <3>1
  <2> HIDE DEF f
  <2> QED BY <2>1, <2>2, FS_Surjection, FS_CardinalityType
<1>4. ASSUME Cardinality(SuratsOf(cards)) < 2 PROVE made = {}
  BY <1>2, <1>4 DEF generateSurahIdentification
<1>5. ASSUME ~ (Cardinality(SuratsOf(cards)) < 2)
      PROVE  made # {} /\ \A q \in made : Names(cards, q)
  <2>1. Cardinality(SuratsOf(cards)) >= 2
    BY <1>3, <1>5
  <2>2. \A q : q \in made <=> \E i \in DOMAIN cards : q \in SurahQuestions(cards[i], groups)
    BY <1>2, <1>5 DEF generateSurahIdentification
  <2> HIDE DEF made
  <2>3. ASSUME NEW q \in made PROVE Names(cards, q)
    <3>1. PICK i \in DOMAIN cards : q \in SurahQuestions(cards[i], groups)
      BY <2>2
    <3>2. PICK c \in ToSet(cards) : c = cards[i]
      BY DEF ToSet
    <3>3. PICK k : SurahChoice(q, cards, c, k)
      BY <1>2, <1>3, <2>1, <3>1, <3>2, SurahChoiceIs
    <3> QED BY <3>3, SurahChoiceRight
  <2>4. made # {}
    <3>1. SuratsOf(cards) # {}
      BY <2>1, FS_EmptySet
    <3>2. PICK i \in DOMAIN cards : TRUE
      BY <3>1 DEF SuratsOf
    <3> DEFINE c == cards[i]
               others == OtherSurats(c, groups)
               n == AtMost(3, Cardinality(others))
    <3>3. IsFiniteSet(others) /\ Cardinality(others) \in Nat
      <4>1. others \subseteq SuratsOf(cards)
        BY <1>2 DEF OtherSurats
      <4> HIDE DEF others
      <4> QED BY <1>3, <4>1, FS_Subset, FS_CardinalityType
    <3> HIDE DEF others
    <3>4. n \in Nat /\ n <= Cardinality(others)
      <4>1. PICK m \in Nat : m = Cardinality(others)
        BY <3>3
      <4>2. AtMost(3, m) \in Nat /\ AtMost(3, m) <= m
        BY DEF AtMost
      <4> QED BY <4>1, <4>2
    <3> HIDE DEF n
    <3>5. PICK d : d \in kSubset(n, others)
      BY <3>3, <3>4, SubsetOfSize
    <3>6. SurahQuestions(c, groups) # {}
      BY <3>5 DEF SurahQuestions, n, others
    <3> QED BY <2>2, <3>6
  <2> QED BY <2>3, <2>4
<1> QED BY <1>3, <1>4, <1>5

\* OneRightSurah.
LEMMA SurahsRight ==
  ASSUME AyatInput(problem) PROVE OneRightSurah
<1>1. ASSUME Is("ayat"), NEW groups \in groupBySurat(AyatOf(problem)),
             NEW made, made = generateSurahIdentification(AyatOf(problem), groups)
      PROVE  /\ made = {} <=> Cardinality(SuratsOf(AyatOf(problem))) < 2
             /\ \A q \in made : Names(AyatOf(problem), q)
  BY <1>1, AyatListed, SurahsIdentified
<1> QED BY <1>1 DEF OneRightSurah, Names, Marked, Texts

-----------------------------------------------------------------------------
(***************************************************************************)
(* Orderings, and whole quizzes.                                           *)
(***************************************************************************)

\* The n cards from i have ayat that follow one another.
Run(g, i, n) == \A j \in i .. i + n - 2 : Follows(g[j], g[j + 1])

\* RunLength is the longest run from i, of five at most.
LEMMA RunIs ==
  ASSUME NEW g, Len(g) \in Nat, NEW i \in 1 .. Len(g), NEW n, n = RunLength(g, i)
  PROVE  /\ n \in 1 .. 5 /\ n <= Len(g) - i + 1 /\ Run(g, i, n)
         /\ \A m \in 1 .. 5 : (m <= Len(g) - i + 1 /\ Run(g, i, m)) => m <= n
<1> DEFINE M == AtMost(5, Len(g) - i + 1)
           F == {m \in 1 .. M : Run(g, i, m)}
<1>1. /\ M \in Int /\ M >= 1 /\ M <= 5 /\ M <= Len(g) - i + 1
      /\ \A m \in 1 .. 5 : m <= Len(g) - i + 1 => m <= M
  BY DEF AtMost
<1>2. n = CHOOSE k \in 1 .. M : /\ Run(g, i, k)
                                /\ \A m \in k + 1 .. M : ~ Run(g, i, m)
  BY DEF RunLength, Run
<1> HIDE DEF M
<1>3. 1 \in F
  BY <1>1 DEF Run
<1>4. F \in SUBSET Int /\ F # {} /\ \A x \in F : x <= M
  BY <1>1, <1>3
<1>5. \A m : m \in F <=> m \in 1 .. M /\ Run(g, i, m)
  OBVIOUS
<1> HIDE DEF F
<1>6. PICK k \in F : \A m \in F : m <= k
  BY <1>1, <1>4, GreatestOf
<1>7. \A m \in k + 1 .. M : ~ Run(g, i, m)
  <2>1. SUFFICES ASSUME NEW m \in k + 1 .. M PROVE m \notin F /\ m \in 1 .. M
    BY <1>5
  <2> QED BY <1>1, <1>5, <1>6
<1>8. /\ n \in 1 .. M /\ Run(g, i, n)
      /\ \A m \in n + 1 .. M : ~ Run(g, i, m)
  BY <1>2, <1>5, <1>7
<1>9. n \in 1 .. 5 /\ n <= Len(g) - i + 1
  BY <1>1, <1>8
<1>10. ASSUME NEW m \in 1 .. 5, m <= Len(g) - i + 1, Run(g, i, m) PROVE m <= n
  <2>1. m <= M /\ m \notin n + 1 .. M
    BY <1>1, <1>8, <1>10
  <2> QED BY <1>1, <1>8, <2>1
<1> QED BY <1>8, <1>9, <1>10

\* The orderings are made from the runs of three and more.
LEMMA OrderingsAre ==
  ASSUME NEW groups, NEW q
  PROVE  q \in generateOrdering(groups) <=>
           \E s \in DOMAIN groups : \E i \in 1 .. Len(groups[s]) - 2 :
             /\ RunLength(groups[s], i) >= 3
             /\ \E n \in Takes(RunLength(groups[s], i)) : q = OrderingOf(groups[s], i, n)
BY DEF generateOrdering

\* The ids that the answer of an ordering is joined from.
Ids(q) == q.answer.words[1].letters

\* The parts of an ordering.
LEMMA OrderingIs ==
  ASSUME NEW S, NEW g \in Seq(S), NEW i \in 1 .. Len(g), NEW n \in Nat, n >= 3,
         n <= Len(g) - i + 1, NEW q, q = OrderingOf(g, i, n)
  PROVE  /\ q.type = "ordering"
         /\ q.options \in Seq(S) /\ Len(q.options) = n
         /\ q.answer = Joined(Ids(q)) /\ Len(Ids(q)) = n /\ DOMAIN Ids(q) = 1 .. n
         /\ \A j \in 1 .. n : /\ q.options[j] = g[i + j - 1]
                              /\ Ids(q)[j] = g[i + j - 1].card
<1> DEFINE taken == SubSeq(g, i, i + n - 1)
           ids == [j \in DOMAIN taken |-> taken[j].card]
<1>1. q = Question("ordering", 0, << >>, taken, Joined(ids), 2)
  BY DEF OrderingOf
<1>2. /\ taken \in Seq(S) /\ Len(taken) = n /\ DOMAIN taken = 1 .. n
      /\ \A j \in 1 .. n : taken[j] = g[i + j - 1]
  <2>1. i \in Int /\ i + n - 1 \in Int /\ Len(g) \in Nat
    OBVIOUS
  <2>2. \A j \in i .. i + n - 1 : j \in 1 .. Len(g)
    BY <2>1
  <2>3. (i + n - 1) - i + 1 = n
    BY <2>1
  <2>4. taken = [j \in 1 .. n |-> g[i + j - 1]]
    BY <2>1, <2>3
  <2>5. \A j \in 1 .. n : i + j - 1 \in 1 .. Len(g)
    BY <2>1
  <2>6. \A j \in 1 .. n : g[i + j - 1] \in S
    BY <2>5
  <2> HIDE DEF taken
  <2>7. taken \in Seq(S)
    BY <2>4, <2>6
  <2> QED BY <2>4, <2>7
<1> HIDE DEF taken
<1>3. ids = [j \in 1 .. n |-> taken[j].card]
  BY <1>2
<1>4. Len(ids) = n /\ DOMAIN ids = 1 .. n /\ \A j \in 1 .. n : ids[j] = taken[j].card
  BY <1>3
<1> HIDE DEF ids
<1>5. q.type = "ordering" /\ q.options = taken /\ q.answer = Joined(ids)
  BY <1>1 DEF Question
<1>6. Joined(ids).words[1].letters = ids
  BY DEF Joined, Text, Word
<1>7. Ids(q) = ids
  BY <1>5, <1>6 DEF Ids
<1> QED BY <1>2, <1>4, <1>5, <1>7

\* The card with an id.
CardOf(all, id) == CHOOSE c \in all : c.card = id

\* What an ordering is to be.
Orders(all, q) ==
  /\ Valid(q) /\ gradeAnswer(q, q.answer)
  /\ Len(Ids(q)) \in 3 .. 5
  /\ ToSet(Ids(q)) = {o.card : o \in ToSet(q.options)}
  /\ \A i \in 1 .. Len(Ids(q)) - 1 :
        After(CardOf(all, Ids(q)[i]), CardOf(all, Ids(q)[i + 1]))

\* An ordering made from a run is as it is to be.
LEMMA OrderingRuns ==
  ASSUME NEW cards, AyatList(cards), NEW s, NEW g, Group(g, cards, s),
         NEW i \in 1 .. Len(g), NEW n \in 3 .. 5, n <= Len(g) - i + 1, Run(g, i, n),
         NEW q, q = OrderingOf(g, i, n)
  PROVE  Orders(ToSet(cards), q)
<1> DEFINE all == ToSet(cards)
<1>1. /\ q.type = "ordering"
      /\ q.options \in Seq(all) /\ Len(q.options) = n
      /\ q.answer = Joined(Ids(q)) /\ Len(Ids(q)) = n /\ DOMAIN Ids(q) = 1 .. n
      /\ \A j \in 1 .. n : /\ q.options[j] = g[i + j - 1]
                           /\ Ids(q)[j] = g[i + j - 1].card
  <2>1. g \in Seq(all) /\ n \in Nat /\ n >= 3
    BY DEF Group
  <2>2. PICK S : S = all
    OBVIOUS
  <2> HIDE DEF all
  <2>3. g \in Seq(S)
    BY <2>1, <2>2
  <2>4. /\ q.type = "ordering"
        /\ q.options \in Seq(S) /\ Len(q.options) = n
        /\ q.answer = Joined(Ids(q)) /\ Len(Ids(q)) = n /\ DOMAIN Ids(q) = 1 .. n
        /\ \A j \in 1 .. n : /\ q.options[j] = g[i + j - 1]
                             /\ Ids(q)[j] = g[i + j - 1].card
    BY <2>1, <2>3, OrderingIs
  <2> QED BY <2>2, <2>4
<1>2. \A c \in all : CardOf(all, c.card) = c
  <2>1. \A c, d \in all : c.card = d.card => c = d
    BY DEF AyatList, ToSet
  <2> HIDE DEF all
  <2> QED BY <2>1 DEF CardOf
<1>3. \A j \in 1 .. n : i + j - 1 \in 1 .. Len(g)
  BY DEF Group
<1>4. \A j \in 1 .. n : g[i + j - 1] \in all /\ g[i + j - 1].surat = s
  BY <1>3 DEF Group
<1> HIDE DEF all
<1>5. Valid(q)
  <2>1. q.options # << >>
    BY <1>1
  <2> QED BY <1>1, <2>1 DEF Valid, validateQuestionOptions, ChoiceTypes
<1>6. ToSet(Ids(q)) = {o.card : o \in ToSet(q.options)}
  <2>1. DOMAIN q.options = 1 .. n
    BY <1>1
  <2>2. \A x : x \in ToSet(q.options) <=> \E j \in 1 .. n : x = g[i + j - 1]
    BY <1>1, <2>1 DEF ToSet
  <2>3. \A x : x \in ToSet(Ids(q)) <=> \E j \in 1 .. n : x = g[i + j - 1].card
    BY <1>1 DEF ToSet
  <2>4. \A x : x \in ToSet(Ids(q)) <=> \E o \in ToSet(q.options) : x = o.card
    BY <2>2, <2>3
  <2> QED BY <2>4
<1>7. ASSUME NEW j \in 1 .. n - 1
      PROVE  After(CardOf(all, Ids(q)[j]), CardOf(all, Ids(q)[j + 1]))
  <2>1. j \in 1 .. n /\ j + 1 \in 1 .. n
    OBVIOUS
  <2>2. i + (j + 1) - 1 = (i + j - 1) + 1 /\ i + j - 1 \in i .. i + n - 2
    BY DEF Group
  <2>3. PICK c, d : c = g[i + j - 1] /\ d = g[(i + j - 1) + 1]
    OBVIOUS
  <2>4. Ids(q)[j] = c.card /\ c \in all /\ c.surat = s
    BY <1>1, <1>4, <2>1, <2>3
  <2>5. Ids(q)[j + 1] = d.card /\ d \in all /\ d.surat = s
    BY <1>1, <1>4, <2>1, <2>2, <2>3
  <2>6. Follows(c, d)
    BY <2>2, <2>3 DEF Run
  <2>7. After(c, d)
    BY <2>4, <2>5, <2>6 DEF After, Follows
  <2> QED BY <1>2, <2>4, <2>5, <2>7
<1>8. gradeAnswer(q, q.answer)
  <2>1. PICK ids : ids = Ids(q)
    OBVIOUS
  <2>2. q.answer = [words |-> <<Word(ids, 0)>>, pad |-> FALSE]
    BY <1>1, <2>1 DEF Joined, Text
  <2>3. TrimSpace(q.answer) = q.answer
    <3>1. \A w, p : [[words |-> w, pad |-> p] EXCEPT !.pad = p] = [words |-> w, pad |-> p]
      OBVIOUS
    <3> QED BY <2>2, <3>1 DEF TrimSpace
  <2> QED BY <1>1, <2>3 DEF gradeAnswer
<1> QED BY <1>1, <1>5, <1>6, <1>7, <1>8 DEF Orders, all

\* Where no two cards have the same ayat, the three in a row stand side by side.
LEMMA ThreeInARow ==
  ASSUME NEW cards, AyatList(cards), NEW s, NEW g, Group(g, cards, s),
         \A c, d \in ToSet(cards) : (c.surat = d.surat /\ c.ayat = d.ayat) => c = d,
         NEW c \in ToSet(cards), NEW d \in ToSet(cards), c.surat = s, After(c, d)
  PROVE  \A i \in 1 .. Len(g) : g[i] = c => i + 1 \in 1 .. Len(g) /\ g[i + 1] = d
<1>1. /\ Len(g) \in Nat
      /\ \A i \in 1 .. Len(g) : g[i] \in ToSet(cards) /\ g[i].surat = s /\ g[i].ayat \in Int
      /\ \A i, j \in 1 .. Len(g) : i <= j => g[i].ayat <= g[j].ayat
      /\ \A i, j \in 1 .. Len(g) : g[i] = g[j] => i = j
  BY DEF Group
<1>2. d.surat = s /\ d.ayat = c.ayat + 1
  BY DEF After
<1>3. PICK j \in 1 .. Len(g) : g[j] = d
  BY <1>2 DEF Group
<1>4. SUFFICES ASSUME NEW i \in 1 .. Len(g), g[i] = c
               PROVE  i + 1 \in 1 .. Len(g) /\ g[i + 1] = d
  OBVIOUS
<1>5. c.ayat \in Int /\ d.ayat \in Int
  BY <1>1, <1>3, <1>4
<1>6. ~ (j <= i)
  BY <1>1, <1>2, <1>3, <1>4, <1>5
<1>7. i < j
  BY <1>6
<1>8. i + 1 \in 1 .. Len(g) /\ i <= i + 1 /\ i + 1 <= j /\ i + 1 # i
  BY <1>1, <1>7
<1>9. PICK x : x = g[i + 1]
  OBVIOUS
<1>10. /\ x \in ToSet(cards) /\ x.surat = s /\ x.ayat \in Int
       /\ c.ayat <= x.ayat /\ x.ayat <= d.ayat
  BY <1>1, <1>3, <1>4, <1>8, <1>9
<1>11. x # c
  BY <1>1, <1>4, <1>8, <1>9
<1>12. x.ayat # c.ayat
  BY <1>10, <1>11
<1>13. x.ayat = d.ayat
  BY <1>2, <1>5, <1>10, <1>12
<1>14. x = d
  BY <1>2, <1>10, <1>13
<1> QED BY <1>8, <1>9, <1>14

\* Three ayat of one surat follow one another.
Threes(all) == \E c \in all, d \in all, e \in all : After(c, d) /\ After(d, e)

\* The orderings are as they are to be, and there is one when three ayat follow
\* one another and no two cards have the same ayat.
LEMMA OrderingsRight ==
  ASSUME NEW cards, AyatList(cards), NEW groups \in groupBySurat(cards)
  PROVE  LET all == ToSet(cards)
             made == generateOrdering(groups)
         IN  /\ \A q \in made : Orders(all, q)
             /\ made # {} => Threes(all)
             /\ ((\A c, d \in all : (c.surat = d.surat /\ c.ayat = d.ayat) => c = d)
                   /\ Threes(all)) => made # {}
<1> DEFINE all == ToSet(cards)
           made == generateOrdering(groups)
<1>1. ASSUME NEW q \in made PROVE Orders(all, q) /\ Threes(all)
  <2>0. PICK s \in DOMAIN groups : \E i \in 1 .. Len(groups[s]) - 2 :
          /\ RunLength(groups[s], i) >= 3
          /\ \E n \in Takes(RunLength(groups[s], i)) : q = OrderingOf(groups[s], i, n)
    BY OrderingsAre
  <2>1. PICK i \in 1 .. Len(groups[s]) - 2 :
          /\ RunLength(groups[s], i) >= 3
          /\ \E n \in Takes(RunLength(groups[s], i)) : q = OrderingOf(groups[s], i, n)
    BY <2>0
  <2>2. PICK g, r : g = groups[s] /\ r = RunLength(g, i)
    OBVIOUS
  <2>3. PICK n \in Takes(r) : q = OrderingOf(g, i, n)
    BY <2>1, <2>2
  <2>4. Group(g, cards, s)
    BY <2>2, GroupsAre
  <2>5. Len(g) \in Nat /\ i \in 1 .. Len(g)
    BY <2>2, <2>4 DEF Group
  <2>6. r \in 1 .. 5 /\ r <= Len(g) - i + 1 /\ Run(g, i, r)
    BY <2>2, <2>5, RunIs
  <2>7. r >= 3
    BY <2>1, <2>2
  <2>8. n \in 3 .. 5 /\ n <= r
    <3>1. r \in Int
      BY <2>6
    <3> QED BY <2>3, <2>6, <2>7, <3>1 DEF Takes, AtMost
  <2>9. n <= Len(g) - i + 1 /\ Run(g, i, n)
    <3>1. \A j \in i .. i + n - 2 : j \in i .. i + r - 2
      BY <2>5, <2>6, <2>8
    <3>2. Run(g, i, n)
      BY <2>6, <3>1 DEF Run
    <3> QED BY <2>5, <2>6, <2>8, <3>2
  <2>10. Orders(all, q)
    BY <2>3, <2>4, <2>5, <2>8, <2>9, OrderingRuns
  <2>11. Threes(all)
    <3>1. i \in i .. i + n - 2 /\ i + 1 \in i .. i + n - 2 /\ (i + 1) + 1 = i + 2
      BY <2>5, <2>8
    <3>2. Follows(g[i], g[i + 1]) /\ Follows(g[i + 1], g[(i + 1) + 1])
      BY <2>9, <3>1 DEF Run
    <3>3. i + 1 \in 1 .. Len(g) /\ i + 2 \in 1 .. Len(g)
      BY <2>5, <2>8, <2>9
    <3>4. PICK c, d, e : c = g[i] /\ d = g[i + 1] /\ e = g[i + 2]
      OBVIOUS
    <3>5. /\ c \in all /\ d \in all /\ e \in all
          /\ c.surat = s /\ d.surat = s /\ e.surat = s
      BY <2>4, <2>5, <3>3, <3>4 DEF Group
    <3>6. After(c, d) /\ After(d, e)
      BY <3>1, <3>2, <3>4, <3>5 DEF After, Follows
    <3> QED BY <3>5, <3>6 DEF Threes
  <2> QED BY <2>10, <2>11
<1>2. ASSUME \A c, d \in all : (c.surat = d.surat /\ c.ayat = d.ayat) => c = d,
             NEW c \in all, NEW d \in all, NEW e \in all, After(c, d), After(d, e)
      PROVE  made # {}
  <2>1. PICK s, g : s = c.surat /\ g = groups[s]
    OBVIOUS
  <2>2. s \in DOMAIN groups /\ Group(g, cards, s)
    <3>1. s \in SuratsOf(cards)
      BY <2>1 DEF SuratsOf, ToSet
    <3> QED BY <2>1, <3>1, GroupsAre
  <2>3. PICK i \in 1 .. Len(g) : g[i] = c
    BY <2>1, <2>2 DEF Group
  <2>4. i + 1 \in 1 .. Len(g) /\ g[i + 1] = d
    BY <1>2, <2>1, <2>2, <2>3, ThreeInARow
  <2>5. d.surat = s
    BY <1>2, <2>1 DEF After
  <2>6. (i + 1) + 1 \in 1 .. Len(g) /\ g[(i + 1) + 1] = e
    BY <1>2, <2>2, <2>4, <2>5, ThreeInARow
  <2>7. Len(g) \in Nat
    BY <2>2 DEF Group
  <2>8. Run(g, i, 3)
    <3>1. \A j \in i .. i + 3 - 2 : j = i \/ j = i + 1
      BY <2>7
    <3>2. Follows(c, d) /\ Follows(d, e)
      BY <1>2 DEF After, Follows
    <3> QED BY <2>3, <2>4, <2>6, <3>1, <3>2 DEF Run
  <2>9. 3 \in 1 .. 5 /\ 3 <= Len(g) - i + 1 /\ i \in 1 .. Len(g) - 2
    BY <2>6, <2>7
  <2>10. PICK r : r = RunLength(g, i)
    OBVIOUS
  <2>11. r \in 1 .. 5 /\ r >= 3
    BY <2>7, <2>8, <2>9, <2>10, RunIs
  <2>12. 3 \in Takes(r)
    <3>1. r \in Int
      BY <2>11
    <3> QED BY <2>11, <3>1 DEF Takes, AtMost
  <2>13. PICK q : q = OrderingOf(g, i, 3)
    OBVIOUS
  <2>14. q \in made
    BY <2>1, <2>2, <2>9, <2>10, <2>11, <2>12, <2>13, OrderingsAre
  <2> QED BY <2>14
<1> QED BY <1>1, <1>2 DEF Threes

\* OrderingRight.
LEMMA OrderingIsRight ==
  ASSUME AyatInput(problem) PROVE OrderingRight
<1> DEFINE all == ToSet(AyatOf(problem))
           runs == {p \in all \X all \X all : After(p[1], p[2]) /\ After(p[2], p[3])}
           single == \A c, d \in all :
                       (c.surat = d.surat /\ c.ayat = d.ayat) => c = d
<1>1. ASSUME Is("ayat"), NEW groups \in groupBySurat(AyatOf(problem)),
             NEW made, made = generateOrdering(groups)
      PROVE  /\ single => (made = {} <=> runs = {})
             /\ \A q \in made : Orders(all, q)
  <2>1. AyatList(AyatOf(problem))
    BY <1>1, AyatListed
  <2>2. /\ \A q \in made : Orders(all, q)
        /\ made # {} => Threes(all)
        /\ (single /\ Threes(all)) => made # {}
    BY <1>1, <2>1, OrderingsRight
  <2> HIDE DEF all
  <2>3. runs # {} => Threes(all)
    BY DEF Threes
  <2>4. Threes(all) => runs # {}
    <3>1. SUFFICES ASSUME Threes(all) PROVE runs # {}
      OBVIOUS
    <3>2. PICK c \in all, d \in all, e \in all : After(c, d) /\ After(d, e)
      BY <3>1 DEF Threes
    <3>3. PICK p : p = <<c, d, e>>
      OBVIOUS
    <3>4. p \in all \X all \X all /\ p[1] = c /\ p[2] = d /\ p[3] = e
      BY <3>3
    <3>5. p \in runs
      BY <3>2, <3>4
    <3> QED BY <3>5
  <2> HIDE DEF runs, single
  <2> QED BY <2>2, <2>3, <2>4
<1> QED BY <1>1 DEF OrderingRight, Orders, CardOf, Ids

\* A quiz is made of types that can be generated, all it was asked for when each
\* type it may use can.
Asked(type) == IF type = "mixed_ayat" THEN AyatTypes ELSE {type}

\* So it is, of any count.
LEMMA QuizWhole ==
  ASSUME NEW type, NEW cards, NEW groups, NEW count \in Nat,
         NEW quiz \in GenerateAyatQuiz(type, cards, groups, count)
  PROVE  /\ \A i \in DOMAIN quiz : AyatQuestions(quiz[i], cards, groups) # {}
         /\ (/\ Len(cards) >= 2 /\ ~ (Len(cards) < 2)
             /\ \A t \in Asked(type) : AyatQuestions(t, cards, groups) # {})
               => Len(quiz) = count
<1> DEFINE asked == Asked(type)
           made == {t \in asked : AyatQuestions(t, cards, groups) # {}}
           lengths == IF made = asked THEN {count} ELSE 0 .. count
<1>1. CASE Len(cards) < 2
  <2>1. quiz = << >>
    BY <1>1 DEF GenerateAyatQuiz
  <2> QED BY <1>1, <2>1
<1>2. CASE ~ (Len(cards) < 2)
  <2>1. PICK n \in lengths : quiz \in [1 .. n -> made]
    BY <1>2 DEF GenerateAyatQuiz, Asked
  <2>2. n \in Nat
    OBVIOUS
  <2>3. \A t \in made : AyatQuestions(t, cards, groups) # {}
    OBVIOUS
  <2>4. (\A t \in Asked(type) : AyatQuestions(t, cards, groups) # {}) => made = asked
    OBVIOUS
  <2>5. made = asked => n = count
    OBVIOUS
  <2> HIDE DEF made, asked, lengths
  <2>6. Len(quiz) = n
    BY <2>1, <2>2
  <2> QED BY <2>1, <2>3, <2>4, <2>5, <2>6
<1> QED BY <1>1, <1>2

\* AyatQuizWhole.
LEMMA QuizIsWhole ==
  ASSUME AyatInput(problem) PROVE AyatQuizWhole
<1> DEFINE cards == AyatOf(problem)
           can(t, groups) == AyatQuestions(t, cards, groups) # {}
<1>1. ASSUME Is("ayat"), NEW groups \in groupBySurat(cards),
             NEW type \in AyatTypes \cup {"mixed_ayat"},
             NEW quiz \in GenerateAyatQuiz(type, cards, groups, 2)
      PROVE  /\ \A i \in DOMAIN quiz : can(quiz[i], groups)
             /\ (Len(cards) >= 2 /\ \A t \in Asked(type) : can(t, groups)) => Len(quiz) = 2
  <2>1. Len(cards) \in Nat
    BY <1>1, AyatListed DEF AyatList
  <2> HIDE DEF cards
  <2>2. Len(cards) >= 2 => ~ (Len(cards) < 2)
    BY <2>1
  <2>3. 2 \in Nat
    OBVIOUS
  <2>4. PICK n \in Nat : n = 2
    BY <2>3
  <2>5. quiz \in GenerateAyatQuiz(type, cards, groups, n)
    BY <1>1, <2>4
  <2>6. /\ \A i \in DOMAIN quiz : AyatQuestions(quiz[i], cards, groups) # {}
        /\ (/\ Len(cards) >= 2 /\ ~ (Len(cards) < 2)
            /\ \A t \in Asked(type) : AyatQuestions(t, cards, groups) # {})
              => Len(quiz) = n
    BY <2>5, QuizWhole
  <2> QED BY <1>1, <2>2, <2>4, <2>6
<1> QED BY <1>1 DEF AyatQuizWhole, Asked

-----------------------------------------------------------------------------
(***************************************************************************)
(* The study queue and the reminders.                                      *)
(***************************************************************************)

\* The new cards that the loop of GetDueCards keeps.
LEMMA NewKept ==
  ASSUME NEW rows, NEW L \in Nat, NEW nl \in Nat
  PROVE  LET F == {i \in 1 .. L : rows[i].state = New}
             J == {i \in F : NewBefore(rows, i) < nl}
         IN  Cardinality(J) = AtMost(nl, Cardinality(F))
<1> DEFINE F == {i \in 1 .. L : rows[i].state = New}
           J == {i \in F : NewBefore(rows, i) < nl}
           B(m) == {j \in 1 .. m - 1 : rows[j].state = New}
<1>1. /\ IsFiniteSet(F) /\ IsFiniteSet(J) /\ F \in SUBSET Nat /\ J \subseteq F
      /\ Cardinality(F) \in Nat /\ Cardinality(J) \in Nat
      /\ Cardinality(J) <= Cardinality(F)
  <2>1. IsFiniteSet(1 .. L) /\ F \subseteq 1 .. L /\ J \subseteq F
    BY FS_Interval
  <2>2. IsFiniteSet(F) /\ F \in SUBSET Nat
    BY <2>1, FS_Subset
  <2>3. IsFiniteSet(J) /\ Cardinality(J) <= Cardinality(F)
    <3> HIDE DEF F, J
    <3> QED BY <2>1, <2>2, FS_Subset
  <2> HIDE DEF F, J
  <2> QED BY <2>1, <2>2, <2>3, FS_CardinalityType
<1>2. ASSUME NEW m \in F
      PROVE  /\ NewBefore(rows, m) = Cardinality(B(m))
             /\ IsFiniteSet(B(m)) /\ B(m) = {j \in F : j < m} /\ Cardinality(B(m)) \in Nat
  <2>1. m \in 1 .. L
    OBVIOUS
  <2>2. B(m) = {j \in F : j < m}
    BY <2>1
  <2>3. IsFiniteSet(B(m))
    BY <1>1, <2>2, FS_Subset
  <2> QED BY <2>2, <2>3, FS_CardinalityType DEF NewBefore
<1> HIDE DEF B
<1>3. Cardinality(J) <= nl
  <2>1. CASE J = {}
    BY <2>1, FS_EmptySet
  <2>2. CASE J # {}
    <3>1. PICK m \in J : \A j \in J : j <= m
      <4>1. J \in SUBSET Int /\ (\A x \in J : x <= L) /\ L \in Int
        OBVIOUS
      <4> HIDE DEF J
      <4> QED BY <2>2, <4>1, GreatestOf
    <3>2. J \ {m} \subseteq B(m)
      BY <1>1, <1>2, <3>1
    <3>3. Cardinality(J \ {m}) <= Cardinality(B(m))
            /\ Cardinality(J \ {m}) = Cardinality(J) - 1
      <4> HIDE DEF J
      <4>1. IsFiniteSet(B(m)) /\ IsFiniteSet(J) /\ m \in J
        BY <1>1, <1>2, <3>1
      <4> QED BY <4>1, <3>2, FS_Subset, FS_RemoveElement
    <3>4. Cardinality(B(m)) < nl /\ Cardinality(B(m)) \in Nat
      BY <1>2, <3>1
    <3> HIDE DEF J
    <3> QED BY <1>1, <3>3, <3>4
  <2> QED BY <2>1, <2>2
<1>4. ASSUME J = F PROVE Cardinality(J) = AtMost(nl, Cardinality(F))
  <2> HIDE DEF J, F
  <2> QED BY <1>1, <1>3, <1>4 DEF AtMost
<1>5. ASSUME J # F PROVE Cardinality(J) = AtMost(nl, Cardinality(F))
  <2>1. PICK m \in F \ J : \A j \in F \ J : m <= j
    <3>1. F \ J \in SUBSET Nat /\ F \ J # {}
      BY <1>1, <1>5
    <3> HIDE DEF F, J
    <3> QED BY <3>1, LeastOf
  <2>2. B(m) \subseteq J
    BY <1>1, <1>2, <2>1
  <2>3. Cardinality(B(m)) <= Cardinality(J) /\ Cardinality(B(m)) >= nl
          /\ Cardinality(B(m)) \in Nat
    BY <1>1, <1>2, <2>1, <2>2, FS_Subset
  <2>4. Cardinality(J) # Cardinality(F)
    <3> HIDE DEF J, F
    <3> QED BY <1>1, <1>5, FS_Subset
  <2> HIDE DEF J, F
  <2> QED BY <1>1, <1>3, <2>3, <2>4 DEF AtMost
<1> QED BY <1>4, <1>5

\* What a queue is: of the cards that are offered, each once and in order, the
\* first ones up to both limits, without the new cards beyond the one limit.
QueueOf(q, offered, s, n, kept, at, nl) ==
  LET N == Cardinality(offered) IN
  /\ N \in Nat /\ n \in 0 .. N
  /\ s \in [1 .. N -> offered]
  /\ \A i, j \in 1 .. N : s[i] = s[j] => i = j
  /\ \A c \in offered : \E i \in 1 .. N : s[i] = c
  /\ \A i, j \in 1 .. N : i < j => ~Before(s[j], s[i])
  /\ kept \in SUBSET (1 .. n) /\ IsFiniteSet(kept)
  /\ \A i \in 1 .. n : s[i].state # New => i \in kept
  /\ Cardinality({i \in kept : s[i].state = New})
        = AtMost(nl, Cardinality({i \in 1 .. n : s[i].state = New}))
  /\ at \in [1 .. Cardinality(kept) -> kept]
  /\ q = [k \in 1 .. Cardinality(kept) |-> s[at[k]]]
  /\ \A i \in kept : \E k \in 1 .. Cardinality(kept) : at[k] = i
  /\ \A j, k \in 1 .. Cardinality(kept) : at[j] = at[k] => j = k

\* That is what GetDueCards answers.
LEMMA QueueIs ==
  ASSUME NEW cards, IsFiniteSet(cards), NEW nl \in Nat, NEW rl \in Nat,
         NEW q \in GetDueCards(cards, 1, 1, nl, rl)
  PROVE  LET offered == Offered(cards, 1, 1)
         IN  \E s, kept, at :
               QueueOf(q, offered, s, AtMost(nl + rl, Cardinality(offered)), kept, at, nl)
<1> DEFINE offered == Offered(cards, 1, 1)
           N == Cardinality(offered)
           n == IF nl + rl < N THEN nl + rl ELSE N
           Kept(rows) == {i \in DOMAIN rows : rows[i].state # New
                           \/ NewBefore(rows, i) < nl}
<1>1. IsFiniteSet(offered) /\ N \in Nat
  <2>1. offered \subseteq cards
    BY DEF Offered, In
  <2> QED BY <2>1, FS_Subset, FS_CardinalityType
<1>2. PICK rows \in DueRows(cards, 1, 1, nl + rl) : q = KeepAt(rows, Kept(rows))
  BY DEF GetDueCards
<1>3. PICK s \in SetToSeqs(offered) :
        /\ \A i, j \in DOMAIN s : i < j => ~Before(s[j], s[i])
        /\ rows = SubSeq(s, 1, n)
  BY DEF DueRows
<1> HIDE DEF offered
<1>4. /\ s \in [1 .. N -> offered]
      /\ \A i, j \in 1 .. N : s[i] = s[j] => i = j
      /\ \A c \in offered : \E i \in 1 .. N : s[i] = c
  <2>1. s \in [1 .. N -> offered] /\ \A i, j \in 1 .. N : i # j => s[i] # s[j]
    BY <1>3 DEF SetToSeqs
  <2>2. s \in Injection(1 .. N, offered)
    BY <2>1 DEF Injection, IsInjective
  <2>3. Cardinality(1 .. N) = N /\ IsFiniteSet(1 .. N)
    BY <1>1, FS_Interval
  <2>4. s \in Surjection(1 .. N, offered)
    BY <1>1, <2>2, <2>3, FS_Injection
  <2> QED BY <2>1, <2>4 DEF Surjection
<1>5. n \in 0 .. N /\ n = AtMost(nl + rl, N)
  BY <1>1 DEF AtMost
<1> HIDE DEF n
<1>6. DOMAIN rows = 1 .. n /\ \A i \in 1 .. n : rows[i] = s[i]
  <2>1. s \in Seq(offered) /\ Len(s) = N
    BY <1>1, <1>4
  <2>2. \A i \in 1 .. n : s[i] \in offered
    BY <1>1, <1>4, <1>5
  <2>3. rows \in Seq(offered) /\ Len(rows) = n /\ \A i \in 1 .. n : rows[i] = s[i]
    BY <1>1, <1>3, <1>5, <2>2, SubSeqProperties
  <2> QED BY <2>3
<1> DEFINE kept == Kept(rows)
           K == Cardinality(kept)
<1>7. kept = {i \in 1 .. n : s[i].state # New \/ NewBefore(rows, i) < nl}
  BY <1>6
<1>8. kept \in SUBSET (1 .. n) /\ IsFiniteSet(kept) /\ n \in Nat
  <2>1. kept \in SUBSET (1 .. n) /\ n \in Int
    BY <1>5, <1>7
  <2>2. n \in Nat
    BY <1>1, <1>5
  <2> HIDE DEF kept
  <2>3. IsFiniteSet(1 .. n)
    BY <2>2, FS_Interval
  <2> QED BY <2>1, <2>2, <2>3, FS_Subset
<1>9. {i \in kept : s[i].state = New} =
        {i \in {j \in 1 .. n : rows[j].state = New} : NewBefore(rows, i) < nl}
      /\ {i \in 1 .. n : s[i].state = New} = {j \in 1 .. n : rows[j].state = New}
  BY <1>6, <1>7
<1>10. Cardinality({i \in kept : s[i].state = New})
         = AtMost(nl, Cardinality({i \in 1 .. n : s[i].state = New}))
  <2> HIDE DEF kept
  <2> QED BY <1>8, <1>9, NewKept, SMTT(60)
<1>11. kept \in SUBSET Int
  BY <1>5, <1>7
<1> HIDE DEF kept
<1>12. PICK at : Keeps(q, rows, kept, at)
  <2>1. kept \in SUBSET Int /\ IsFiniteSet(kept)
    BY <1>8, <1>11
  <2>2. q = KeepAt(rows, kept)
    BY <1>2 DEF kept
  <2> QED BY <2>1, <2>2, KeptInOrder
<1>13. q = [k \in 1 .. K |-> s[at[k]]] /\ at \in [1 .. K -> kept]
  <2>1. q = [k \in 1 .. K |-> rows[at[k]]] /\ at \in [1 .. K -> kept]
    BY <1>12 DEF Keeps
  <2>2. \A k \in 1 .. K : rows[at[k]] = s[at[k]]
    BY <1>6, <1>8, <2>1
  <2> QED BY <2>1, <2>2
<1>17. /\ \A i \in kept : \E k \in 1 .. K : at[k] = i
       /\ \A j, k \in 1 .. K : at[j] = at[k] => j = k
  BY <1>12 DEF Keeps
<1>14. \A i \in 1 .. n : s[i].state # New => i \in kept
  BY <1>7
<1>15. DOMAIN s = 1 .. N
  BY <1>4
<1>16. QueueOf(q, offered, s, n, kept, at, nl)
  BY <1>1, <1>3, <1>4, <1>5, <1>8, <1>10, <1>13, <1>14, <1>15, <1>17 DEF QueueOf
<1> QED BY <1>5, <1>16 DEF offered

\* What the limits and the order mean for the cards it serves.
LEMMA QueueServed ==
  ASSUME NEW cards, IsFiniteSet(cards), NEW nl \in Nat, NEW rl \in Nat,
         \A c \in cards : c.state \in 0 .. 3 /\ c.due \in Int,
         NEW q \in GetDueCards(cards, 1, 1, nl, rl)
  PROVE  LET mine == In(cards, 1)
             due == {c \in mine : c.state # New /\ c.due <= 1}
             fresh == {c \in mine : c.state = New}
             served == ToSet(q)
         IN  /\ Having(q, {New}) <= nl
             /\ Len(q) <= nl + rl
             /\ Len(q) = Having(q, {New}) + Having(q, {Learning, Relearning})
                            + Having(q, {Review})
             /\ \A i \in DOMAIN q : q[i].state # New => q[i].due <= 1 /\ ~q[i].suspended
             /\ \A c \in served, d \in due \ served : ~Before(d, c)
             /\ Cardinality(due) <= rl =>
                   /\ due \subseteq served
                   /\ Cardinality(served \cap fresh) = AtMost(nl, Cardinality(fresh))
<1> DEFINE mine == In(cards, 1)
           due == {c \in mine : c.state # New /\ c.due <= 1}
           fresh == {c \in mine : c.state = New}
           offered == Offered(cards, 1, 1)
           N == Cardinality(offered)
           n == AtMost(nl + rl, N)
           served == ToSet(q)
<1>1. PICK s, kept, at : QueueOf(q, offered, s, n, kept, at, nl)
  BY QueueIs
<1>2. offered = due \cup fresh /\ due \cap fresh = {} /\ offered \subseteq cards
      /\ (\A c \in offered : ~c.suspended) /\ due \subseteq offered
         /\ fresh \subseteq offered
      /\ \A c \in offered : (c \in due <=> c.state # New) /\ (c \in fresh <=> c.state = New)
  BY DEF Offered, In
<1>3. IsFiniteSet(offered) /\ IsFiniteSet(due) /\ IsFiniteSet(fresh)
  <2> HIDE DEF offered, due, fresh
  <2> QED BY <1>2, FS_Subset
<1>4. \A c \in due : c.due <= 1
  OBVIOUS
<1> HIDE DEF offered, due, fresh, mine, n
<1> DEFINE K == Cardinality(kept)
<1>5. /\ N \in Nat /\ n \in 0 .. N
      /\ s \in [1 .. N -> offered]
      /\ \A i, j \in 1 .. N : s[i] = s[j] => i = j
      /\ \A c \in offered : \E i \in 1 .. N : s[i] = c
      /\ \A i, j \in 1 .. N : i < j => ~Before(s[j], s[i])
  BY <1>1 DEF QueueOf
<1>6. /\ kept \in SUBSET (1 .. n) /\ IsFiniteSet(kept)
      /\ \A i \in 1 .. n : s[i].state # New => i \in kept
      /\ Cardinality({i \in kept : s[i].state = New})
            = AtMost(nl, Cardinality({i \in 1 .. n : s[i].state = New}))
  BY <1>1 DEF QueueOf
<1>7. /\ at \in [1 .. K -> kept]
      /\ q = [k \in 1 .. K |-> s[at[k]]]
      /\ \A i \in kept : \E k \in 1 .. K : at[k] = i
      /\ \A j, k \in 1 .. K : at[j] = at[k] => j = k
  BY <1>1 DEF QueueOf
<1>8. K \in Nat /\ IsFiniteSet(1 .. K)
  BY <1>6, FS_CardinalityType, FS_Interval
<1>9. DOMAIN q = 1 .. K /\ Len(q) = K /\ \A k \in 1 .. K : q[k] = s[at[k]] /\ at[k] \in kept
  BY <1>7, <1>8
<1>10. \A i \in kept : i \in 1 .. N /\ i \in 1 .. n
  BY <1>5, <1>6
<1>11. \A k \in 1 .. K : q[k] \in offered
  BY <1>5, <1>9, <1>10
<1>12. N \in Nat /\ n \in Nat /\ n <= nl + rl /\ n <= N
  BY <1>5 DEF n, AtMost
<1>a. \A i \in 1 .. n : i \in 1 .. N
  BY <1>12
<1>b. IsFiniteSet(1 .. n) /\ Cardinality(1 .. n) = n
  <2>1. n \in Nat
    BY <1>12
  <2> QED BY <2>1, FS_Interval
<1>13. K <= n
  <2>1. Cardinality(kept) <= Cardinality(1 .. n)
    BY <1>6, <1>b, FS_Subset
  <2> QED BY <1>b, <2>1
<1>14. ASSUME NEW X
       PROVE  Having(q, X) = Cardinality({i \in kept : s[i].state \in X})
  <2> DEFINE A == {k \in DOMAIN q : q[k].state \in X}
             B == {i \in kept : s[i].state \in X}
             f == [k \in A |-> at[k]]
  <2>1. IsFiniteSet(A) /\ A \subseteq 1 .. K
    BY <1>8, <1>9, FS_Subset
  <2>2. f \in [A -> B]
    BY <1>9
  <2>3. \A j, k \in A : f[j] = f[k] => j = k
    BY <1>7, <1>9
  <2>4. \A i \in B : \E k \in A : f[k] = i
    BY <1>7, <1>9
  <2>5. Cardinality(A) = Cardinality(B)
    <3> HIDE DEF A, B, f
    <3> QED BY <2>1, <2>2, <2>3, <2>4, SameCount
  <2> QED BY <2>5 DEF Having
<1> DEFINE J == {i \in kept : s[i].state = New}
           F == {i \in 1 .. n : s[i].state = New}
<1>15. Having(q, {New}) = Cardinality(J)
  <2>1. {i \in kept : s[i].state \in {New}} = J
    OBVIOUS
  <2> QED BY <1>14, <2>1
<1>16. /\ IsFiniteSet(J) /\ IsFiniteSet(F) /\ J \subseteq kept /\ F \subseteq 1 .. n
       /\ Cardinality(J) \in Nat /\ Cardinality(F) \in Nat
  <2>1. IsFiniteSet(1 .. n)
    BY <1>12, FS_Interval
  <2>2. J \subseteq kept /\ F \subseteq 1 .. n
    OBVIOUS
  <2> HIDE DEF J, F
  <2> QED BY <1>6, <2>1, <2>2, FS_Subset, FS_CardinalityType
<1>17. Cardinality(J) = AtMost(nl, Cardinality(F))
  BY <1>6
<1>18. Having(q, {New}) <= nl
  <2> HIDE DEF J, F
  <2> QED BY <1>15, <1>16, <1>17 DEF AtMost
<1>19. Len(q) <= nl + rl
  BY <1>8, <1>9, <1>12, <1>13
<1>20. Len(q) = Having(q, {New}) + Having(q, {Learning, Relearning}) + Having(q, {Review})
  <2> DEFINE A == {i \in kept : s[i].state \in {New}}
             B == {i \in kept : s[i].state \in {Learning, Relearning}}
             C == {i \in kept : s[i].state \in {Review}}
  <2>1. /\ A \cap B = {} /\ (A \cup B) \cap C = {}
        /\ A \subseteq kept /\ B \subseteq kept /\ C \subseteq kept
    BY DEF New, Learning, Relearning, Review
  <2>2. \A i \in kept : s[i].state \in 0 .. 3
    BY <1>2, <1>5, <1>10
  <2>3. (A \cup B) \cup C = kept
    BY <2>2 DEF New, Learning, Relearning, Review
  <2>4. Having(q, {New}) = Cardinality(A)
          /\ Having(q, {Learning, Relearning}) = Cardinality(B)
        /\ Having(q, {Review}) = Cardinality(C)
    BY <1>14
  <2> HIDE DEF A, B, C
  <2>5. IsFiniteSet(A) /\ IsFiniteSet(B) /\ IsFiniteSet(C)
    BY <1>6, <2>1, FS_Subset
  <2>6. /\ IsFiniteSet(A \cup B) /\ Cardinality(A \cup B) = Cardinality(A) + Cardinality(B)
    BY <2>1, <2>5, CountApart
  <2>7. Cardinality(kept) = Cardinality(A \cup B) + Cardinality(C)
    BY <2>1, <2>3, <2>5, <2>6, CountApart
  <2> QED BY <1>9, <2>4, <2>6, <2>7
<1>21. ASSUME NEW i \in DOMAIN q, q[i].state # New
       PROVE  q[i].due <= 1 /\ ~q[i].suspended
  BY <1>2, <1>4, <1>9, <1>11, <1>21
<1>22. served = {s[i] : i \in kept}
  <2>1. served = {q[k] : k \in 1 .. K}
    BY <1>9 DEF ToSet
  <2> QED BY <1>7, <1>9, <2>1
<1>23. ASSUME NEW d \in due, d \notin served
       PROVE  \E j \in 1 .. N : s[j] = d /\ j > n
  <2>1. PICK j \in 1 .. N : s[j] = d
    BY <1>2, <1>5
  <2>2. d.state # New
    BY <1>2
  <2>3. ~ (j <= n)
    BY <1>6, <1>12, <1>22, <1>23, <2>1, <2>2
  <2> QED BY <1>12, <2>1, <2>3
<1>24. ASSUME NEW c \in served, NEW d \in due \ served PROVE ~Before(d, c)
  <2>1. PICK i \in kept : c = s[i]
    BY <1>22
  <2>2. PICK j \in 1 .. N : s[j] = d /\ j > n
    BY <1>23
  <2>3. i < j /\ i \in 1 .. N
    BY <1>5, <1>10, <1>12, <2>2
  <2> QED BY <1>5, <2>1, <2>2, <2>3
<1>25. N = Cardinality(due) + Cardinality(fresh)
       /\ Cardinality(due) \in Nat /\ Cardinality(fresh) \in Nat
  BY <1>2, <1>3, CountApart
<1>26. ASSUME Cardinality(due) <= rl, NEW d \in due, d \notin served PROVE FALSE
  <2>1. PICK j \in 1 .. N : s[j] = d /\ j > n
    BY <1>23, <1>26
  <2>2. n = nl + rl
    BY <1>5, <1>12, <2>1 DEF n, AtMost
  <2>3. ASSUME NEW i \in 1 .. n PROVE s[i] \in due \ {d}
    <3>1. i \in 1 .. N /\ i < j
      BY <1>12, <1>a, <2>1
    <3>2. ~Before(d, s[i]) /\ s[i] \in offered /\ s[i] # d
      BY <1>5, <2>1, <3>1
    <3>3. d.state \in 0 .. 3 /\ s[i].state \in 0 .. 3 /\ d.state # New
      BY <1>2, <3>2
    <3>4. Rank(d) < 2
      BY <3>3 DEF Rank, New, Learning, Review, Relearning
    <3>5. s[i].state = New => Rank(s[i]) = 2
      BY DEF Rank, New, Learning, Review, Relearning
    <3>6. s[i].state # New
      BY <3>2, <3>3, <3>4, <3>5 DEF Before, Rank, New, Learning, Review, Relearning
    <3> QED BY <1>2, <3>2, <3>6
  <2> DEFINE f == [i \in 1 .. n |-> s[i]]
  <2>4. f \in [1 .. n -> due \ {d}] /\ \A i, k \in 1 .. n : f[i] = f[k] => i = k
    BY <1>5, <1>12, <2>3
  <2>5. IsFiniteSet(due \ {d}) /\ Cardinality(due \ {d}) = Cardinality(due) - 1
    BY <1>3, FS_RemoveElement
  <2>6. Cardinality(1 .. n) = n
    BY <1>12, FS_Interval
  <2> HIDE DEF f
  <2>7. Cardinality(1 .. n) <= Cardinality(due \ {d})
    BY <2>4, <2>5, NoFewer
  <2> QED BY <1>12, <1>25, <1>26, <2>2, <2>5, <2>6, <2>7
<1>27. ASSUME Cardinality(due) <= rl
       PROVE  /\ due \subseteq served
              /\ Cardinality(served \cap fresh) = AtMost(nl, Cardinality(fresh))
  <2>1. due \subseteq served
    BY <1>26, <1>27
  <2> DEFINE D == {i \in 1 .. n : s[i].state # New}
  <2>2. /\ D \cap F = {} /\ D \cup F = 1 .. n
    OBVIOUS
  <2>3. IsFiniteSet(D) /\ Cardinality(D) = Cardinality(due)
    <3> DEFINE f == [i \in D |-> s[i]]
    <3>1. IsFiniteSet(D)
      <4>1. IsFiniteSet(1 .. n) /\ D \subseteq 1 .. n
        BY <1>12, FS_Interval
      <4> HIDE DEF D
      <4> QED BY <4>1, FS_Subset
    <3>2. f \in [D -> due] /\ \A i, j \in D : f[i] = f[j] => i = j
      BY <1>2, <1>5, <1>a
    <3>3. ASSUME NEW d \in due PROVE \E i \in D : f[i] = d
      <4>1. PICK i \in kept : s[i] = d
        BY <1>22, <2>1
      <4>2. d.state # New
        BY <1>2
      <4>3. i \in D
        BY <1>10, <4>1, <4>2
      <4> QED BY <4>1, <4>3
    <3> HIDE DEF D, f
    <3> QED BY <3>1, <3>2, <3>3, SameCount
  <2>4. n = Cardinality(due) + Cardinality(F)
    <3> HIDE DEF D, F
    <3> QED BY <1>16, <2>2, <2>3, <1>b, CountApart
  <2>5. Cardinality(J) = AtMost(nl, Cardinality(fresh))
    <3>1. n = IF nl + rl < N THEN nl + rl ELSE N
      BY DEF n, AtMost
    <3> HIDE DEF J, F, D
    <3> QED BY <1>16, <1>17, <1>25, <1>27, <2>4, <3>1 DEF AtMost
  <2>6. Cardinality(J) = Cardinality(served \cap fresh)
    <3> DEFINE f == [i \in J |-> s[i]]
    <3>1. f \in [J -> served \cap fresh] /\ \A i, j \in J : f[i] = f[j] => i = j
      BY <1>2, <1>5, <1>10, <1>22, ZenonT(60)
    <3>2. \A c \in served \cap fresh : \E i \in J : f[i] = c
      BY <1>2, <1>22
    <3> HIDE DEF J, f, served
    <3> QED BY <1>16, <3>1, <3>2, SameCount
  <2> QED BY <2>1, <2>5, <2>6
<1> QED BY <1>18, <1>19, <1>20, <1>21, <1>24, <1>27 DEF due, fresh, mine

\* What the reminders say is what the statistics of the decks say.
LEMMA RemindersTrue ==
  ASSUME NEW cards, IsFiniteSet(cards), NEW decks, IsFiniteSet(decks),
         \A c \in cards : c.state \in 0 .. 3 /\ c.due \in Int
  PROVE LET r == GetReminders(cards, decks, 1, 1)
            stats(d) == DeckStats(cards, d, 1)
        IN  /\ r.totalDue = SumFunction([d \in decks |-> stats(d).due])
            /\ \A s \in r.decks : s.new = stats(s.deck).new
            /\ \A d \in decks \ {s.deck : s \in r.decks} :
                  stats(d).new = 0 /\ stats(d).due = 0
            /\ r.dueSoon > 0 <=> r.nextDueAt = 2
            /\ \A d \in decks : stats(d).total = Cardinality(In(cards, d))
<1> DEFINE r == GetReminders(cards, decks, 1, 1)
           stats(d) == DeckStats(cards, d, 1)
           rows == GetUpcomingDueSummary(cards, decks, 1, 2)
           new(d) == {c \in In(cards, d) : c.state = New}
           now1(d) == {c \in In(cards, d) : AsCard(c) /\ c.due <= 1}
           soon(d) == {c \in In(cards, d) : AsCard(c) /\ c.due > 1 /\ c.due <= 2}
           row(d) == Summary(cards, d, 1, 2)
<1>1. \A d : /\ IsFiniteSet(In(cards, d)) /\ IsFiniteSet(new(d)) /\ IsFiniteSet(now1(d))
             /\ IsFiniteSet(soon(d))
             /\ Cardinality(new(d)) \in Nat /\ Cardinality(now1(d)) \in Nat
             /\ Cardinality(soon(d)) \in Nat
  <2>1. SUFFICES ASSUME NEW d
        PROVE  /\ IsFiniteSet(In(cards, d)) /\ IsFiniteSet(new(d)) /\ IsFiniteSet(now1(d))
               /\ IsFiniteSet(soon(d))
    BY FS_CardinalityType
  <2>2. In(cards, d) \subseteq cards /\ new(d) \subseteq cards /\ now1(d) \subseteq cards
        /\ soon(d) \subseteq cards
    BY DEF In
  <2> HIDE DEF new, now1, soon
  <2> QED BY <2>2, FS_Subset
<1>2. \A d : /\ row(d).deck = d /\ row(d).new = Cardinality(new(d))
             /\ row(d).dueNow = Cardinality(now1(d))
                /\ row(d).dueSoon = Cardinality(soon(d))
  BY DEF Summary
<1>3. \A d : stats(d).new = Cardinality(new(d)) /\ stats(d).due = Cardinality(now1(d))
  BY DEF DeckStats, CountByState, CountDue
<1>4. rows = {s \in {row(d) : d \in decks} : s.new > 0 \/ s.dueNow + s.dueSoon > 0}
  BY DEF GetUpcomingDueSummary
<1>5. /\ r.decks = rows
      /\ r.totalDue = SumFunction([s \in rows |-> s.dueNow])
      /\ r.dueSoon = SumFunction([s \in rows |-> s.dueSoon])
      /\ r.nextDueAt = GetNextDueAt(cards, decks, 1)
  <2>1. 1 + 1 = 2
    OBVIOUS
  <2> HIDE DEF rows
  <2> QED BY <2>1 DEF GetReminders, rows
<1> HIDE DEF new, now1, soon, row, stats, rows, r
<1> DEFINE used == {d \in decks : row(d).new > 0 \/ row(d).dueNow + row(d).dueSoon > 0}
<1>6. rows = {row(d) : d \in used} /\ used \subseteq decks
  BY <1>4
<1>7. IsFiniteSet(used)
  <2> HIDE DEF used
  <2> QED BY <1>6, FS_Subset
<1>8. \A d \in decks \ used : Cardinality(new(d)) = 0 /\ Cardinality(now1(d)) = 0
                                 /\ Cardinality(soon(d)) = 0
  BY <1>1, <1>2
<1>9. \A d, e \in used : row(d) = row(e) => d = e
  <2>1. \A d, e : row(d) = row(e) => row(d).deck = row(e).deck
    OBVIOUS
  <2> QED BY <1>2, <2>1
<1> DEFINE f == [d \in used |-> row(d)]
<1>10. /\ f \in [used -> rows] /\ \A d, e \in used : f[d] = f[e] => d = e
       /\ \A s \in rows : \E d \in used : f[d] = s
  BY <1>6, <1>9
<1>11. r.totalDue = SumFunction([d \in decks |-> stats(d).due])
  <2> DEFINE g == [d \in decks |-> stats(d).due]
             h == [s \in rows |-> s.dueNow]
  <2>1. \A d \in decks : g[d] = Cardinality(now1(d)) /\ g[d] \in Nat
    BY <1>1, <1>3
  <2>2. \A d \in used : g[d] \in Nat /\ h[f[d]] = g[d]
    BY <1>2, <1>6, <2>1
  <2>3. \A d \in decks \ used : g[d] = 0
    BY <1>8, <2>1
  <2>4. DOMAIN g = decks /\ DOMAIN h = rows
    OBVIOUS
  <2> HIDE DEF f, g, h, used
  <2>5. SumFunctionOnSet(g, used) = SumFunctionOnSet(h, rows)
    BY <1>7, <1>10, <2>2, SumMoved
  <2>6. SumFunctionOnSet(g, decks) = SumFunctionOnSet(g, used)
    BY <1>6, <2>1, <2>3, SumPart
  <2>7. r.totalDue = SumFunctionOnSet(h, rows)
    BY <1>5, <2>4, SumOf DEF h
  <2>8. SumFunction(g) = SumFunctionOnSet(g, decks)
    BY <2>4, SumOf
  <2> QED BY <2>5, <2>6, <2>7, <2>8 DEF g
<1>12. \A s \in r.decks : s.new = stats(s.deck).new
  BY <1>2, <1>3, <1>5, <1>6
<1>13. ASSUME NEW d \in decks \ {s.deck : s \in r.decks}
       PROVE  stats(d).new = 0 /\ stats(d).due = 0
  <2>1. d \notin used
    BY <1>2, <1>5, <1>6
  <2> QED BY <1>3, <1>8, <2>1
<1>14. r.dueSoon > 0 <=> \E d \in decks : Cardinality(soon(d)) > 0
  <2> DEFINE h == [s \in rows |-> s.dueSoon]
  <2>1. IsFiniteSet(rows)
    <3> HIDE DEF used, f
    <3> QED BY <1>7, <1>10, SameCount
  <2>2. \A s \in rows : h[s] \in Nat /\ \E d \in used : h[s] = Cardinality(soon(d))
    BY <1>1, <1>2, <1>6
  <2>3. \A d \in used : \E s \in rows : h[s] = Cardinality(soon(d))
    BY <1>2, <1>6
  <2>4. DOMAIN h = rows
    OBVIOUS
  <2> HIDE DEF h, used
  <2>5. r.dueSoon = SumFunctionOnSet(h, rows)
    BY <1>5, <2>4, SumOf DEF h
  <2>6. SumFunctionOnSet(h, rows) > 0 <=> \E s \in rows : h[s] > 0
    BY <2>1, <2>2, SumPositive
  <2>7. \A d \in decks : Cardinality(soon(d)) > 0 => d \in used
    BY <1>8
  <2>8. ASSUME NEW s \in rows, h[s] > 0 PROVE \E d \in decks : Cardinality(soon(d)) > 0
    BY <1>6, <2>2, <2>8
  <2>9. ASSUME NEW d \in decks, Cardinality(soon(d)) > 0 PROVE \E s \in rows : h[s] > 0
    BY <2>3, <2>7, <2>9
  <2> QED BY <2>5, <2>6, <2>8, <2>9
<1> DEFINE later == {c.due : c \in {d \in cards : /\ d.deck \in decks /\ ~d.suspended
                                                  /\ AsCard(d) /\ d.due > 1}}
<1>15. r.nextDueAt = IF later = {} THEN 0 ELSE Min(later)
  BY <1>5 DEF GetNextDueAt
<1>16. later \in SUBSET Nat /\ \A x \in later : x >= 2
  BY DEF AsCard
<1>17. 2 \in later <=> \E d \in decks : Cardinality(soon(d)) > 0
  <2>1. \A d : Cardinality(soon(d)) > 0 <=> soon(d) # {}
    BY <1>1, FS_EmptySet
  <2>2. ASSUME 2 \in later PROVE \E d \in decks : soon(d) # {}
    <3>1. PICK c \in cards : /\ c.deck \in decks /\ ~c.suspended /\ AsCard(c) /\ c.due > 1
                             /\ c.due = 2
      BY <2>2
    <3>2. c \in soon(c.deck)
      BY <3>1 DEF soon, In
    <3> QED BY <3>1, <3>2
  <2>3. ASSUME NEW d \in decks, NEW c \in soon(d) PROVE 2 \in later
    <3>1. /\ c \in cards /\ c.deck = d /\ ~c.suspended /\ AsCard(c)
          /\ c.due > 1 /\ c.due <= 2
      BY DEF soon, In
    <3>2. c.due = 2
      BY <3>1
    <3> QED BY <3>1, <3>2
  <2> HIDE DEF later
  <2> QED BY <2>1, <2>2, <2>3
<1>18. r.nextDueAt = 2 <=> 2 \in later
  <2> HIDE DEF later
  <2>1. CASE later = {}
    BY <1>15, <2>1
  <2>2. CASE later # {}
    <3>1. PICK n \in later : \A m \in later : n <= m
      BY <1>16, <2>2, LeastOf
    <3>2. Min(later) \in later /\ \A m \in later : Min(later) <= m
      BY <3>1 DEF Min
    <3>3. Min(later) \in Nat /\ Min(later) >= 2 /\ (2 \in later => Min(later) <= 2)
      BY <1>16, <3>2
    <3>4. r.nextDueAt = Min(later)
      BY <1>15, <2>2
    <3>5. Min(later) = 2 <=> 2 \in later
      BY <3>2, <3>3
    <3> QED BY <3>4, <3>5
  <2> QED BY <2>1, <2>2
<1>19. ASSUME NEW d \in decks PROVE stats(d).total = Cardinality(In(cards, d))
  <2> DEFINE C(s) == {c \in In(cards, d) : c.state = s}
             S == In(cards, d)
  <2>1. stats(d).total =
          Cardinality(C(New)) + Cardinality(C(Learning)) + Cardinality(C(Review))
                           + Cardinality(C(Relearning))
    BY DEF stats, DeckStats, CountByState
  <2>2. \A c \in S : c.state \in 0 .. 3
    BY DEF In
  <2>3. \A s : IsFiniteSet(C(s))
    <3>1. \A s : C(s) \subseteq S
      OBVIOUS
    <3> HIDE DEF C
    <3> QED BY <1>1, <3>1, FS_Subset
  <2>4. /\ C(New) \cap C(Learning) = {}
        /\ (C(New) \cup C(Learning)) \cap C(Review) = {}
        /\ ((C(New) \cup C(Learning)) \cup C(Review)) \cap C(Relearning) = {}
    BY DEF New, Learning, Review, Relearning
  <2>5. ((C(New) \cup C(Learning)) \cup C(Review)) \cup C(Relearning) = S
    BY <2>2 DEF New, Learning, Review, Relearning
  <2> HIDE DEF C
  <2>6. /\ IsFiniteSet(C(New) \cup C(Learning))
        /\ Cardinality(C(New) \cup C(Learning))
           = Cardinality(C(New)) + Cardinality(C(Learning))
    BY <2>3, <2>4, CountApart
  <2>7. /\ IsFiniteSet((C(New) \cup C(Learning)) \cup C(Review))
        /\ Cardinality((C(New) \cup C(Learning)) \cup C(Review))
             = Cardinality(C(New) \cup C(Learning)) + Cardinality(C(Review))
    BY <2>3, <2>4, <2>6, CountApart
  <2>8. Cardinality(S) = Cardinality((C(New) \cup C(Learning)) \cup C(Review))
                            + Cardinality(C(Relearning))
    BY <2>3, <2>4, <2>5, <2>7, CountApart
  <2> QED BY <2>1, <2>6, <2>7, <2>8
<1> QED BY <1>11, <1>12, <1>13, <1>14, <1>17, <1>18, <1>19 DEF r, stats

-----------------------------------------------------------------------------
(***************************************************************************)
(* Paged lists.                                                            *)
(***************************************************************************)

\* A listing of rows has each once, none before one that goes before it.
Lists(L, S) ==
  /\ L \in [1 .. Cardinality(S) -> S]
  /\ \A i, j \in 1 .. Cardinality(S) : L[i] = L[j] => i = j
  /\ \A r \in S : \E i \in 1 .. Cardinality(S) : L[i] = r
  /\ \A i, j \in 1 .. Cardinality(S) : i < j => ~InListOrder(L[j], L[i])

\* What Listings gives are such, and there is one.
LEMMA ListingIs ==
  ASSUME NEW S, IsFiniteSet(S), NEW L \in Listings(S)
  PROVE  Lists(L, S)
<1> DEFINE N == Cardinality(S)
           A == 1 .. N
<1>1. N \in Nat /\ IsFiniteSet(A) /\ Cardinality(A) = N
  <2>1. N \in Nat
    BY FS_CardinalityType
  <2> QED BY <2>1, FS_Interval
<1>2. /\ L \in SetToSeqs(S)
      /\ \A i, j \in DOMAIN L : i < j => ~InListOrder(L[j], L[i])
  BY DEF Listings
<1>3. L \in [A -> S] /\ \A i, j \in A : i # j => L[i] # L[j]
  BY <1>2 DEF SetToSeqs
<1>4. DOMAIN L = A
  BY <1>3
<1> HIDE DEF A
<1>5. \A r \in S : \E i \in A : L[i] = r
  <2>1. Cardinality(A) = Cardinality(S)
    BY <1>1
  <2>2. \A i, j \in A : L[i] = L[j] => i = j
    BY <1>3
  <2> QED BY <1>1, <1>3, <2>1, <2>2, AllReached
<1> QED BY <1>2, <1>3, <1>4, <1>5 DEF Lists, A

\* Each of them is one that Listings gives.
LEMMA ListingOf ==
  ASSUME NEW S, NEW L, Lists(L, S)
  PROVE  L \in Listings(S)
<1>1. L \in [1 .. Cardinality(S) -> S]
      /\ \A i, j \in 1 .. Cardinality(S) : i # j => L[i] # L[j]
  BY DEF Lists
<1>2. L \in SetToSeqs(S)
  BY <1>1 DEF SetToSeqs
<1>3. DOMAIN L = 1 .. Cardinality(S)
  BY <1>1
<1> QED BY <1>2, <1>3 DEF Lists, Listings

\* Two listings of the same rows agree on what may go before what.
LEMMA ListsAgree ==
  ASSUME NEW S, IsFiniteSet(S), \A r \in S : r.position \in Int /\ r.created \in Int,
         NEW L, Lists(L, S), NEW M, Lists(M, S),
         NEW i \in 1 .. Cardinality(S), NEW j \in 1 .. Cardinality(S), i <= j
  PROVE  ~InListOrder(M[j], L[i])
<1> DEFINE N == Cardinality(S)
<1>0. N \in Nat
  BY FS_CardinalityType
<1>1. /\ L \in [1 .. N -> S] /\ M \in [1 .. N -> S]
      /\ \A a, b \in 1 .. N : M[a] = M[b] => a = b
      /\ \A r \in S : \E a \in 1 .. N : L[a] = r
      /\ \A a, b \in 1 .. N : a < b => ~InListOrder(L[b], L[a])
      /\ \A a, b \in 1 .. N : a < b => ~InListOrder(M[b], M[a])
  BY DEF Lists
<1> HIDE DEF N
<1>2. SUFFICES ASSUME InListOrder(M[j], L[i]) PROVE FALSE
  OBVIOUS
<1>3. i \in 1 .. N /\ j \in 1 .. N
  BY DEF N
<1>4. \A x, y, z \in S : ~InListOrder(y, x) /\ InListOrder(y, z) => InListOrder(x, z)
  BY DEF InListOrder
<1>5. \A x \in S : ~InListOrder(x, x)
  BY DEF InListOrder
<1>6. ASSUME NEW a \in 1 .. j PROVE \E b \in 1 .. i - 1 : L[b] = M[a]
  <2>1. a \in 1 .. N /\ (a < j \/ a = j)
    BY <1>0, <1>3
  <2>2. M[a] \in S /\ M[j] \in S /\ L[i] \in S
    BY <1>1, <1>3, <2>1
  <2>3. ~InListOrder(M[j], M[a])
    BY <1>1, <1>3, <1>5, <2>1, <2>2
  <2>4. InListOrder(M[a], L[i])
    BY <1>2, <1>4, <2>2, <2>3
  <2>5. PICK b \in 1 .. N : L[b] = M[a]
    BY <1>1, <2>2
  <2>6. b # i /\ ~ (i < b)
    BY <1>1, <1>3, <1>5, <2>2, <2>4, <2>5
  <2>7. b \in 1 .. i - 1
    BY <1>0, <1>3, <2>6
  <2> QED BY <2>5, <2>7
<1> DEFINE to == [a \in 1 .. j |-> CHOOSE b \in 1 .. i - 1 : L[b] = M[a]]
<1>7. \A a \in 1 .. j : to[a] \in 1 .. i - 1 /\ L[to[a]] = M[a]
  BY <1>6
<1>8. to \in [1 .. j -> 1 .. i - 1]
  BY <1>7
<1> HIDE DEF to
<1>9. \A a, b \in 1 .. j : to[a] = to[b] => a = b
  <2>1. \A a \in 1 .. j : a \in 1 .. N
    BY <1>0, <1>3
  <2> QED BY <1>1, <1>7, <2>1
<1>10. IsFiniteSet(1 .. i - 1) /\ Cardinality(1 .. i - 1) = i - 1 /\ Cardinality(1 .. j) = j
  BY <1>0, <1>3, FS_Interval
<1>11. Cardinality(1 .. j) <= Cardinality(1 .. i - 1)
  BY <1>8, <1>9, <1>10, NoFewer
<1> QED BY <1>0, <1>3, <1>10, <1>11

\* Of the rows of a finite set one goes before none: the one that most go before.
LEMMA LastRow ==
  ASSUME NEW S, IsFiniteSet(S), S # {},
         \A r \in S : r.position \in Int /\ r.created \in Int
  PROVE  \E r \in S : \A s \in S : ~InListOrder(r, s)
<1> DEFINE below == [r \in S |-> {s \in S : InListOrder(s, r)}]
           score == [r \in S |-> Cardinality(below[r])]
<1>1. \A r \in S : IsFiniteSet(below[r]) /\ Cardinality(below[r]) \in Nat
  <2>1. \A r \in S : below[r] \subseteq S
    OBVIOUS
  <2> HIDE DEF below
  <2> QED BY <2>1, FS_Subset, FS_CardinalityType
<1>2. \A r, s \in S : s \in below[r] <=> InListOrder(s, r)
  OBVIOUS
<1>3. \A r \in S : below[r] \subseteq S
  OBVIOUS
<1> HIDE DEF below
<1>4. PICK r \in S : \A s \in S : Cardinality(below[s]) <= Cardinality(below[r])
  <2>1. \A s \in S : score[s] \in Nat /\ score[s] = Cardinality(below[s])
    BY <1>1
  <2> HIDE DEF score
  <2>2. PICK r \in S : \A s \in S : score[s] <= score[r]
    BY <2>1, Highest
  <2> QED BY <2>1, <2>2
<1>5. ASSUME NEW s \in S, InListOrder(r, s) PROVE FALSE
  <2>1. r \in below[s] /\ r \notin below[r]
    BY <1>2, <1>5 DEF InListOrder
  <2>2. ASSUME NEW t \in below[r] PROVE t \in below[s]
    <3>1. t \in S /\ InListOrder(t, r)
      BY <1>2, <1>3, <2>2
    <3>2. InListOrder(t, s)
      BY <1>5, <3>1 DEF InListOrder
    <3> QED BY <1>2, <3>1, <3>2
  <2>3. below[r] \subseteq below[s] /\ below[r] # below[s]
    BY <2>1, <2>2
  <2>4. Cardinality(below[r]) < Cardinality(below[s])
    <3>1. IsFiniteSet(below[s]) /\ Cardinality(below[r]) <= Cardinality(below[s])
      BY <1>1, <2>3, FS_Subset
    <3>2. Cardinality(below[r]) # Cardinality(below[s])
      BY <2>3, <3>1, FS_Subset
    <3> QED BY <1>1, <3>1, <3>2
  <2>5. Cardinality(below[s]) <= Cardinality(below[r])
    BY <1>4
  <2> QED BY <1>1, <2>4, <2>5
<1> QED BY <1>5

\* There is a listing of any finite set of rows: the last row of all goes last.
LEMMA ListingExists ==
  ASSUME NEW R, IsFiniteSet(R), \A r \in R : r.position \in Int /\ r.created \in Int
  PROVE  \E L : Lists(L, R)
<1> DEFINE F == {T \in SUBSET R : ~ \E L : Lists(L, T)}
<1>1. ASSUME F # {} PROVE FALSE
  <2>1. \A T \in F : IsFiniteSet(T)
    BY FS_Subset
  <2>2. PICK T \in F : \A x \in T : T \ {x} \notin F
    BY <1>1, <2>1, SmallestMember
  <2>3. IsFiniteSet(T) /\ T \in SUBSET R
    BY <2>1
  <2>4. T # {}
    <3>1. ASSUME T = {} PROVE Lists(<< >>, T)
      BY <3>1, FS_EmptySet DEF Lists
    <3> QED BY <3>1
  <2>5. PICK r \in T : \A s \in T : ~InListOrder(r, s)
    BY <2>3, <2>4, LastRow
  <2>6. PICK K : Lists(K, T \ {r})
    BY <2>2, <2>3
  <2>7. PICK n \in Nat : n = Cardinality(T \ {r}) /\ Cardinality(T) = n + 1
    <3>1. IsFiniteSet(T \ {r}) /\ Cardinality(T \ {r}) = Cardinality(T) - 1
      BY <2>3, FS_RemoveElement
    <3> QED BY <2>3, <3>1, FS_CardinalityType
  <2>8. /\ K \in [1 .. n -> T \ {r}]
        /\ \A i, j \in 1 .. n : K[i] = K[j] => i = j
        /\ \A x \in T \ {r} : \E i \in 1 .. n : K[i] = x
        /\ \A i, j \in 1 .. n : i < j => ~InListOrder(K[j], K[i])
    BY <2>6, <2>7 DEF Lists
  <2> DEFINE L == [i \in 1 .. n + 1 |-> IF i = n + 1 THEN r ELSE K[i]]
  <2>9. /\ L[n + 1] = r /\ n + 1 \in 1 .. n + 1
        /\ \A i \in 1 .. n : i \in 1 .. n + 1 /\ L[i] = K[i]
        /\ \A i \in 1 .. n + 1 : i = n + 1 \/ i \in 1 .. n
    OBVIOUS
  <2>10. L \in [1 .. n + 1 -> T]
    BY <2>8, <2>9
  <2> HIDE DEF L
  <2>11. \A i, j \in 1 .. n + 1 : L[i] = L[j] => i = j
    BY <2>8, <2>9
  <2>12. \A x \in T : \E i \in 1 .. n + 1 : L[i] = x
    BY <2>8, <2>9
  <2>13. ASSUME NEW i \in 1 .. n + 1, NEW j \in 1 .. n + 1, i < j
         PROVE  ~InListOrder(L[j], L[i])
    <3>1. i \in 1 .. n /\ L[i] \in T
      BY <2>10, <2>13
    <3>2. CASE j = n + 1
      BY <2>5, <2>9, <3>1, <3>2
    <3>3. CASE j \in 1 .. n
      BY <2>8, <2>9, <2>13, <3>1, <3>3
    <3> QED BY <2>9, <3>2, <3>3
  <2>14. Lists(L, T)
    BY <2>7, <2>10, <2>11, <2>12, <2>13 DEF Lists
  <2> QED BY <2>14
<1> QED BY <1>1

\* What a client has seen that was given every row of S, or another of its place.
SeenAll(seen, S) ==
  /\ DOMAIN seen = 1 .. Len(seen) /\ Len(seen) = Cardinality(S)
  /\ ToSet(seen) \subseteq S
  /\ \A i, j \in DOMAIN seen : i < j => ~InListOrder(seen[j], seen[i])
  /\ \A r \in S : Cardinality({i \in DOMAIN seen : SamePlace(seen[i], r)})
                    = Cardinality({s \in S : SamePlace(s, r)})

\* A function on 1 .. n is a sequence of n elements.
LEMMA RowsInARow ==
  ASSUME NEW S, NEW n \in Nat, NEW f \in [1 .. n -> S]
  PROVE  f \in Seq(S) /\ Len(f) = n /\ DOMAIN f = 1 .. n
OBVIOUS

\* The indices of a sequence are finite.
LEMMA PlacesFinite ==
  ASSUME NEW n \in Nat PROVE IsFiniteSet(1 .. n)
BY FS_Interval

\* A sequence that has at each index what some listing has there is such.
LEMMA MergedListings ==
  ASSUME NEW S, IsFiniteSet(S), \A r \in S : r.position \in Int /\ r.created \in Int,
         NEW m, m = [n \in 1 .. Cardinality(S) |-> m[n]],
         \A n \in 1 .. Cardinality(S) : \E L : Lists(L, S) /\ m[n] = L[n]
  PROVE  m \in Seq(S) /\ SeenAll(m, S)
<1> DEFINE N == Cardinality(S)
<1>1. N \in Nat
  BY FS_CardinalityType
<1>2. PICK K : Lists(K, S)
  BY ListingExists
<1>3. /\ K \in [1 .. N -> S]
      /\ \A i, j \in 1 .. N : K[i] = K[j] => i = j
      /\ \A r \in S : \E i \in 1 .. N : K[i] = r
  BY <1>2 DEF Lists
<1>4. \A n \in 1 .. N : m[n] \in S
  <2>1. SUFFICES ASSUME NEW n \in 1 .. N PROVE m[n] \in S
    OBVIOUS
  <2>2. PICK L : Lists(L, S) /\ m[n] = L[n]
    OBVIOUS
  <2> QED BY <2>2 DEF Lists
<1>5. m \in Seq(S) /\ Len(m) = N /\ DOMAIN m = 1 .. N
  <2> HIDE DEF N
  <2>1. m = [n \in 1 .. N |-> m[n]]
    BY DEF N
  <2>2. m \in [1 .. N -> S]
    BY <1>4, <2>1
  <2> QED BY <1>1, <2>2, RowsInARow
<1>6. ASSUME NEW i \in 1 .. N, NEW j \in 1 .. N, i < j
      PROVE  ~InListOrder(m[j], m[i])
  <2>1. PICK L, M : Lists(L, S) /\ m[i] = L[i] /\ Lists(M, S) /\ m[j] = M[j]
    OBVIOUS
  <2>2. i <= j
    BY <1>1, <1>6
  <2>3. ~InListOrder(M[j], L[i])
    BY <2>1, <2>2, ListsAgree
  <2> QED BY <2>1, <2>3
<1>7. ASSUME NEW i \in 1 .. N
      PROVE  SamePlace(m[i], K[i])
  <2>1. PICK L : Lists(L, S) /\ m[i] = L[i]
    OBVIOUS
  <2>2. i <= i /\ i \in 1 .. Cardinality(S)
    BY <1>1
  <2> HIDE DEF N
  <2>3. ~InListOrder(L[i], K[i])
    BY <1>2, <2>1, <2>2, ListsAgree
  <2>4. ~InListOrder(K[i], L[i])
    BY <1>2, <2>1, <2>2, ListsAgree
  <2> QED BY <2>1, <2>3, <2>4 DEF SamePlace
<1>8. \A x, y, r \in S : SamePlace(x, y) => (SamePlace(x, r) <=> SamePlace(y, r))
  BY DEF SamePlace, InListOrder
<1> HIDE DEF N
<1>9. ASSUME NEW r \in S
      PROVE  Cardinality({i \in 1 .. N : SamePlace(m[i], r)})
               = Cardinality({s \in S : SamePlace(s, r)})
  <2> DEFINE A == {i \in 1 .. N : SamePlace(m[i], r)}
             B == {s \in S : SamePlace(s, r)}
             f == [i \in A |-> K[i]]
  <2>1. IsFiniteSet(A)
    <3>1. IsFiniteSet(1 .. N)
      BY <1>1, PlacesFinite
    <3>2. A \subseteq 1 .. N
      OBVIOUS
    <3> HIDE DEF A
    <3> QED BY <3>1, <3>2, FS_Subset
  <2>2. \A i \in 1 .. N : i \in A <=> K[i] \in B
    BY <1>3, <1>4, <1>7, <1>8
  <2>3. A \subseteq 1 .. N /\ B \subseteq S
    OBVIOUS
  <2> HIDE DEF A, B
  <2>4. f \in [A -> B] /\ \A x, y \in A : f[x] = f[y] => x = y
    BY <1>3, <2>2, <2>3
  <2>5. \A b \in B : \E x \in A : f[x] = b
    BY <1>3, <2>2, <2>3
  <2> HIDE DEF f
  <2>6. Cardinality(A) = Cardinality(B)
    BY <2>1, <2>4, <2>5, SameCount
  <2> QED BY <2>6 DEF A, B
<1>10. ToSet(m) \subseteq S
  BY <1>4, <1>5 DEF ToSet
<1>11. /\ DOMAIN m = 1 .. Len(m) /\ Len(m) = N
       /\ \A i, j \in DOMAIN m : i < j => ~InListOrder(m[j], m[i])
       /\ \A r \in S : Cardinality({i \in DOMAIN m : SamePlace(m[i], r)})
                         = Cardinality({s \in S : SamePlace(s, r)})
  BY <1>5, <1>6, <1>9
<1> QED BY <1>5, <1>10, <1>11 DEF SeenAll, N

\* Pieces of listings that meet where one ends and the next begins, put together.
LEMMA PiecesMerge ==
  ASSUME NEW S, IsFiniteSet(S), \A r \in S : r.position \in Int /\ r.created \in Int,
         NEW k \in Nat \ {0}, NEW cut \in [0 .. k -> 0 .. Cardinality(S)],
         cut[0] = 0, cut[k] = Cardinality(S), \A i \in 1 .. k : cut[i - 1] <= cut[i],
         NEW ls, \A i \in 1 .. k : Lists(ls[i], S),
         NEW seqs, seqs = [i \in 1 .. k |-> SubSeq(ls[i], cut[i - 1] + 1, cut[i])]
  PROVE  SeenAll(FlattenSeq(seqs), S)
<1> DEFINE N == Cardinality(S)
           of(n) == {i \in 1 .. k : n <= cut[i]}
           m == [n \in 1 .. N |-> ls[Min(of(n))][n]]
<1>1. N \in Nat
  BY FS_CardinalityType
<1>2. ASSUME NEW n \in 1 .. N
      PROVE  Min(of(n)) \in of(n) /\ \A i \in of(n) : Min(of(n)) <= i
  <2>1. k \in of(n) /\ of(n) \in SUBSET Nat
    BY <1>1, <1>2
  <2> HIDE DEF of
  <2> QED BY <2>1, MinIs
<1>3. \A n \in 1 .. N : m[n] = ls[Min(of(n))][n] /\ Min(of(n)) \in 1 .. k
  BY <1>2
<1>4. m = [n \in 1 .. N |-> m[n]]
  OBVIOUS
<1>5. m \in Seq(S) /\ SeenAll(m, S)
  <2>1. \A n \in 1 .. N : \E L : Lists(L, S) /\ m[n] = L[n]
    BY <1>3
  <2>2. PICK s : s = m
    OBVIOUS
  <2> HIDE DEF m
  <2>3. /\ s = [n \in 1 .. Cardinality(S) |-> s[n]]
        /\ \A n \in 1 .. Cardinality(S) : \E L : Lists(L, S) /\ s[n] = L[n]
    BY <1>4, <2>1, <2>2
  <2>4. s \in Seq(S) /\ SeenAll(s, S)
    BY <2>3, MergedListings
  <2> QED BY <2>2, <2>4
<1>6. ASSUME NEW i \in 1 .. k, NEW n \in 1 .. N, cut[i - 1] < n, n <= cut[i]
      PROVE  m[n] = ls[i][n]
  <2>1. PICK j : j = Min(of(n)) /\ j \in of(n) /\ j <= i
    BY <1>2, <1>6
  <2>2. j \in 1 .. k /\ n <= cut[j]
    BY <2>1
  <2>3. ~ (j < i)
    <3>1. SUFFICES ASSUME j < i PROVE FALSE
      OBVIOUS
    <3>2. cut[j] <= cut[i - 1]
      <4> DEFINE a == [x \in 1 .. k |-> cut[x]]
      <4>1. \A x \in 1 .. k : a[x] = cut[x] /\ a[x] \in Int
        BY <1>1
      <4>2. \A x \in 1 .. k - 1 : a[x] <= a[x + 1]
        <5>1. SUFFICES ASSUME NEW x \in 1 .. k - 1 PROVE a[x] <= a[x + 1]
          OBVIOUS
        <5>2. x + 1 \in 1 .. k /\ (x + 1) - 1 = x /\ x \in 1 .. k
          OBVIOUS
        <5> HIDE DEF a
        <5> QED BY <4>1, <5>2
      <4>3. j \in 1 .. k /\ i - 1 \in 1 .. k /\ j <= i - 1
        BY <2>2, <3>1
      <4> HIDE DEF a
      <4>4. a[j] <= a[i - 1]
        BY <4>1, <4>2, <4>3, InOrderThroughout
      <4> QED BY <4>1, <4>3, <4>4
    <3>3. i - 1 \in 0 .. k /\ cut[i - 1] \in Int /\ cut[j] \in Int /\ n \in Int
      BY <1>1, <2>2
    <3> QED BY <1>6, <2>2, <3>2, <3>3
  <2>4. j = i
    BY <2>1, <2>2, <2>3
  <2> QED BY <1>3, <2>1, <2>4
<1> HIDE DEF m, of
<1>7. ASSUME NEW i \in 1 .. k
      PROVE  SubSeq(ls[i], cut[i - 1] + 1, cut[i]) = SubSeq(m, cut[i - 1] + 1, cut[i])
  <2>1. PICK a, b : a = cut[i - 1] /\ b = cut[i]
    OBVIOUS
  <2>2. a \in 0 .. N /\ b \in 0 .. N /\ a <= b
    <3>1. i - 1 \in 0 .. k /\ i \in 0 .. k
      OBVIOUS
    <3> QED BY <2>1, <3>1
  <2>3. SubSeq(ls[i], a + 1, b) = [x \in 1 .. b - a |-> ls[i][a + x]]
    BY <1>1, <2>2
  <2>4. SubSeq(m, a + 1, b) = [x \in 1 .. b - a |-> m[a + x]]
    BY <1>1, <2>2
  <2>5. \A x \in 1 .. b - a : a + x \in 1 .. N /\ a < a + x /\ a + x <= b
    BY <1>1, <2>2
  <2>6. \A x \in 1 .. b - a : m[a + x] = ls[i][a + x]
    BY <1>6, <2>1, <2>5
  <2>7. SubSeq(ls[i], a + 1, b) = SubSeq(m, a + 1, b)
    BY <2>3, <2>4, <2>6
  <2> QED BY <2>1, <2>7
<1>8. seqs = [i \in 1 .. k |-> SubSeq(m, cut[i - 1] + 1, cut[i])]
  BY <1>7
<1>9. Len(m) = N
  BY <1>5 DEF SeenAll
<1>10. FlattenSeq(seqs) = SubSeq(m, 1, cut[k])
  <2>1. cut \in [0 .. k -> 0 .. Len(m)] /\ m \in Seq(S)
    BY <1>5, <1>9
  <2> HIDE DEF N
  <2> QED BY <1>8, <2>1, FlattenPieces
<1>11. FlattenSeq(seqs) = m
  BY <1>5, <1>9, <1>10, SubSeqFull
<1> QED BY <1>5, <1>11

\* What following the pages of a list brings.
WalkSees(walk, upTo, S) ==
  LET seen == FlattenSeq([n \in 1 .. upTo + 1 |-> walk[n - 1]])
  IN  /\ Len(seen) = Cardinality(S)
      /\ ToSet(seen) \subseteq S
      /\ \A i, j \in DOMAIN seen : i < j => ~InListOrder(seen[j], seen[i])
      /\ \A r \in S : Cardinality({i \in DOMAIN seen : SamePlace(seen[i], r)})
                        = Cardinality({s \in S : SamePlace(s, r)})
      /\ \A n \in 0 .. upTo : IsInjective(walk[n])

CoversPlaces(R, filter, limit) ==
  LET matching == {r \in R : Matches(r, filter)}
      step == NewParams(limit, 0).limit
      answers == [n \in 0 .. Cardinality(R) |-> ListPage(R, filter, limit, n * step)]
      pages == [n \in DOMAIN answers |-> {a.data : a \in answers[n]}]
      last == {n \in DOMAIN answers : \E a \in answers[n] : ~a.hasMore}
      upTo == Min(last)
  IN  /\ \A n \in DOMAIN answers : \A a \in answers[n] :
            a.limit = step /\ a.total = Cardinality(matching)
      /\ last # {}
      /\ \A a \in answers[upTo] : ~a.hasMore
      /\ \A walk \in [0 .. upTo -> UNION {pages[n] : n \in 0 .. upTo}] :
            (\A n \in 0 .. upTo : walk[n] \in pages[n]) => WalkSees(walk, upTo, matching)

\* The parts of an answer.
LEMMA ResponseIs ==
  ASSUME NEW data, NEW total, NEW limit, NEW offset,
         NEW a, a = NewResponse(data, total, limit, offset)
  PROVE  /\ a.data = data /\ a.limit = limit /\ a.total = total
         /\ a.hasMore <=> offset + limit < total
BY DEF NewResponse

\* So it does: the pages cut the list at growing places.
LEMMA PagesCover ==
  ASSUME PagingOK, NEW R, IsFiniteSet(R), NEW filter, NEW limit \in Int,
         \A r \in R : r.position \in Int /\ r.created \in Int
  PROVE  CoversPlaces(R, filter, limit)
<1> DEFINE S == {r \in R : Matches(r, filter)}
           N == Cardinality(S)
           M == Cardinality(R)
           step == NewParams(limit, 0).limit
           answers == [n \in 0 .. M |-> ListPage(R, filter, limit, n * step)]
           pages == [n \in DOMAIN answers |-> {a.data : a \in answers[n]}]
           last == {n \in DOMAIN answers : \E a \in answers[n] : ~a.hasMore}
           upTo == Min(last)
<1>1. step \in Nat \ {0} /\ \A off \in Nat :
        NewParams(limit, off) = [limit |-> step, offset |-> off]
  <2>1. step = IF limit <= 0 \/ limit > MaxLimit THEN DefaultLimit ELSE limit
    BY DEF NewParams
  <2> HIDE DEF step
  <2> QED BY <2>1 DEF NewParams, PagingOK
<1>2. IsFiniteSet(S) /\ N \in Nat /\ M \in Nat /\ N <= M
  BY FS_Subset, FS_CardinalityType
<1>3. CountCardsByDeckID(R, filter) = N
  <2> DEFINE A == {r \in R : filter.state = AnyState \/ r.state = filter.state}
             B == {r \in R : filter.tag = AnyTag \/ filter.tag \in r.tags}
             C == {r \in R : \/ filter.query = AnyQuery
                             \/ filter.query \in r.front
                             \/ filter.query \in r.back}
  <2>1. CountCardsByDeckID(R, filter) = Cardinality(A \cap B \cap C)
    BY DEF CountCardsByDeckID
  <2>2. A \cap B \cap C = S
    BY DEF Matches
  <2> HIDE DEF A, B, C, S
  <2> QED BY <2>1, <2>2
<1>4. /\ \A r \in S : r.position \in Int /\ r.created \in Int
      /\ Listings(S) # {} /\ \A L \in Listings(S) : Lists(L, S)
  <2>1. \A r \in S : r.position \in Int /\ r.created \in Int
    OBVIOUS
  <2> HIDE DEF S
  <2> QED BY <1>2, <2>1, ListingIs, ListingOf, ListingExists
<1> DEFINE upto(n) == IF n + step < N THEN n + step ELSE N
           answer(L, off) == NewResponse(SubSeq(L, off + 1, upto(off)), N, step, off)
<1>5. ASSUME NEW off \in Nat
      PROVE  ListPage(R, filter, limit, off) = {answer(L, off) : L \in Listings(S)}
  <2>1. NewParams(limit, off).limit = step /\ NewParams(limit, off).offset = off
    BY <1>1
  <2>2. ListCardsByDeckID(R, filter, step, off)
          = {SubSeq(L, off + 1, upto(off)) : L \in Listings(S)}
    BY DEF ListCardsByDeckID
  <2> HIDE DEF step, S, N
  <2>3. ListPage(R, filter, limit, off)
          = {NewResponse(data, N, step, off) :
                data \in ListCardsByDeckID(R, filter, step, off)}
    BY <1>3, <2>1 DEF ListPage
  <2> QED BY <2>2, <2>3
<1> HIDE DEF step, S
<1>6. ASSUME NEW n \in 0 .. M
      PROVE  /\ \A a \in answers[n] :
                   /\ a.limit = step /\ a.total = N
                   /\ a.hasMore <=> n * step + step < N
             /\ answers[n] # {}
             /\ pages[n] = {SubSeq(L, n * step + 1, upto(n * step)) : L \in Listings(S)}
  <2>1. n * step \in Nat
    BY <1>1, <1>2
  <2>2. PICK off : off = n * step
    OBVIOUS
  <2>3. answers[n] = {answer(L, off) : L \in Listings(S)}
    BY <1>5, <2>1, <2>2
  <2> DEFINE data(L) == SubSeq(L, off + 1, upto(off))
  <2>4. pages[n] = {a.data : a \in answers[n]}
    OBVIOUS
  <2> HIDE DEF answers, pages, N
  <2>5. \A L : answer(L, off) = NewResponse(data(L), N, step, off)
    OBVIOUS
  <2> HIDE DEF upto, answer, data
  <2>6. \A L : /\ answer(L, off).data = data(L) /\ answer(L, off).limit = step
               /\ answer(L, off).total = N
               /\ answer(L, off).hasMore <=> off + step < N
    BY <2>5, ResponseIs
  <2>7. \A a \in answers[n] : /\ a.limit = step /\ a.total = N
                              /\ a.hasMore <=> off + step < N
    BY <2>3, <2>6
  <2>8. answers[n] # {}
    BY <1>4, <2>3
  <2>9. pages[n] = {data(L) : L \in Listings(S)}
    BY <2>3, <2>4, <2>6
  <2> QED BY <2>2, <2>7, <2>8, <2>9 DEF data
<1>7. last = {n \in 0 .. M : ~ (n * step + step < N)}
  <2>1. DOMAIN answers = 0 .. M
    OBVIOUS
  <2> HIDE DEF answers
  <2>2. \A n \in 0 .. M : (\E a \in answers[n] : ~a.hasMore) <=> ~ (n * step + step < N)
    BY <1>6
  <2> QED BY <2>1, <2>2
<1> HIDE DEF answers
<1>8. last \in SUBSET Nat /\ M \in last
  <2>1. M * step >= M
    BY <1>1, <1>2
  <2>2. M * step \in Nat
    BY <1>1, <1>2
  <2>3. M \in 0 .. M
    BY <1>2
  <2> QED BY <1>1, <1>2, <1>7, <2>1, <2>2, <2>3
<1>9. upTo \in 0 .. M /\ ~ (upTo * step + step < N)
        /\ \A n \in 0 .. upTo - 1 : n * step + step < N
  <2>1. upTo \in last /\ \A n \in last : upTo <= n
    BY <1>8, MinIs
  <2> HIDE DEF upTo, last
  <2> QED BY <1>2, <1>7, <2>1
<1> HIDE DEF upTo, last
<1> DEFINE cut == [i \in 0 .. upTo + 1 |-> IF i * step < N THEN i * step ELSE N]
<1>10. cut \in [0 .. upTo + 1 -> 0 .. N] /\ cut[0] = 0
  BY <1>1, <1>2, <1>9
<1>11. ASSUME NEW i \in 1 .. upTo + 1
       PROVE  /\ cut[i - 1] <= cut[i]
              /\ pages[i - 1] = {SubSeq(L, cut[i - 1] + 1, cut[i]) : L \in Listings(S)}
  <2>1. /\ i - 1 \in 0 .. upTo /\ i - 1 \in 0 .. M /\ i - 1 \in Nat /\ i \in Nat
        /\ i - 1 \in 0 .. upTo + 1 /\ i \in 0 .. upTo + 1
    BY <1>2, <1>9
  <2>2. (i - 1) * step \in Nat /\ i * step = (i - 1) * step + step
    BY <1>1, <2>1
  <2>3. cut[i - 1] = (i - 1) * step
    <3>1. CASE i - 1 = 0
      <4>1. (i - 1) * step = 0
        BY <1>1, <3>1
      <4> QED BY <1>10, <3>1, <4>1
    <3>2. CASE i - 1 # 0
      <4>1. i - 2 \in 0 .. upTo - 1 /\ (i - 2) * step + step = (i - 1) * step
        BY <1>1, <1>2, <1>9, <2>1, <3>2
      <4>2. (i - 1) * step < N
        BY <1>9, <4>1
      <4> QED BY <2>1, <4>2
    <3> QED BY <3>1, <3>2
  <2>4. cut[i] = upto((i - 1) * step)
    BY <2>1, <2>2
  <2>5. cut[i - 1] <= cut[i]
    <3>1. cut[i - 1] \in 0 .. N
      BY <1>10, <2>1
    <3>2. PICK a, b : a = cut[i - 1] /\ b = upto((i - 1) * step)
      OBVIOUS
    <3>3. b = IF a + step < N THEN a + step ELSE N
      BY <2>3, <3>2
    <3> HIDE DEF cut, N, upto
    <3>4. a <= b
      BY <1>1, <1>2, <3>1, <3>2, <3>3
    <3> QED BY <2>4, <3>2, <3>4
  <2> HIDE DEF cut, upto, pages
  <2> QED BY <1>6, <2>1, <2>3, <2>4, <2>5
<1>12. cut[upTo + 1] = N
  <2>1. upTo + 1 \in 0 .. upTo + 1 /\ (upTo + 1) * step = upTo * step + step
    BY <1>1, <1>2, <1>9
  <2> QED BY <1>9, <2>1
<1>13. ASSUME NEW walk, DOMAIN walk = 0 .. upTo,
              \A n \in 0 .. upTo : walk[n] \in pages[n]
       PROVE  WalkSees(walk, upTo, S)
  <2> DEFINE k == upTo + 1
             ls == [i \in 1 .. k |-> CHOOSE L \in Listings(S) :
                                        walk[i - 1] = SubSeq(L, cut[i - 1] + 1, cut[i])]
             seqs == [n \in 1 .. k |-> walk[n - 1]]
  <2>1. k \in Nat \ {0} /\ \A i \in 1 .. k : i - 1 \in 0 .. upTo
    BY <1>2, <1>9
  <2>2. ASSUME NEW i \in 1 .. k
        PROVE  /\ ls[i] \in Listings(S)
               /\ walk[i - 1] = SubSeq(ls[i], cut[i - 1] + 1, cut[i])
    <3>1. \E L \in Listings(S) : walk[i - 1] = SubSeq(L, cut[i - 1] + 1, cut[i])
      <4>1. walk[i - 1] \in pages[i - 1]
        BY <1>13, <2>1
      <4> HIDE DEF pages, cut
      <4> QED BY <1>11, <4>1
    <3> HIDE DEF cut
    <3> QED BY <3>1
  <2>3. /\ cut \in [0 .. k -> 0 .. N] /\ cut[0] = 0 /\ cut[k] = N
        /\ \A i \in 1 .. k : cut[i - 1] <= cut[i]
    BY <1>10, <1>11, <1>12
  <2>4. \A i \in 1 .. k : Lists(ls[i], S)
    BY <1>4, <2>2
  <2>5. seqs = [i \in 1 .. k |-> SubSeq(ls[i], cut[i - 1] + 1, cut[i])]
    BY <2>2
  <2> HIDE DEF cut, ls, k
  <2>6. SeenAll(FlattenSeq(seqs), S)
    <3> HIDE DEF seqs
    <3> QED BY <1>2, <1>4, <2>1, <2>3, <2>4, <2>5, PiecesMerge
  <2>7. ASSUME NEW n \in 0 .. upTo PROVE IsInjective(walk[n])
    <3>1. PICK i \in 1 .. k : i - 1 = n
      <4>1. n + 1 \in 1 .. k /\ (n + 1) - 1 = n
        BY <1>2, <1>9 DEF k
      <4> QED BY <4>1
    <3>2. PICK L, a, b : /\ L = ls[i] /\ a = cut[i - 1] /\ b = cut[i]
      OBVIOUS
    <3>3. walk[n] = SubSeq(L, a + 1, b) /\ Lists(L, S)
      BY <2>2, <2>4, <3>1, <3>2
    <3>4. a \in 0 .. N /\ b \in 0 .. N
      <4>1. i - 1 \in 0 .. k /\ i \in 0 .. k
        BY <2>1
      <4> QED BY <2>3, <3>2, <4>1
    <3>5. walk[n] = [x \in 1 .. b - a |-> L[a + x]]
      BY <1>2, <3>3, <3>4
    <3>6. \A x \in 1 .. b - a : a + x \in 1 .. N
      BY <1>2, <3>4
    <3>7. \A x, y \in 1 .. N : L[x] = L[y] => x = y
      BY <3>3 DEF Lists
    <3>8. \A x, y \in 1 .. b - a : walk[n][x] = walk[n][y] => x = y
      BY <1>2, <3>4, <3>5, <3>6, <3>7
    <3> QED BY <3>5, <3>8 DEF IsInjective
  <2> QED BY <2>6, <2>7 DEF SeenAll, WalkSees, k
<1>14. last # {} /\ \A a \in answers[upTo] : ~a.hasMore
  <2>1. upTo \in 0 .. M
    BY <1>9
  <2> HIDE DEF answers, upTo
  <2> QED BY <1>6, <1>8, <1>9, <2>1
<1>15. DOMAIN answers = 0 .. M
  BY DEF answers
<1>16. \A n \in 0 .. M : \A a \in answers[n] : a.limit = step /\ a.total = N
  BY <1>6
<1>17. \A walk \in [0 .. upTo -> UNION {pages[n] : n \in 0 .. upTo}] :
          (\A n \in 0 .. upTo : walk[n] \in pages[n]) => WalkSees(walk, upTo, S)
  <2> HIDE DEF pages, upTo
  <2> QED BY <1>13
<1> QED BY <1>14, <1>15, <1>16, <1>17 DEF CoversPlaces, S, step, answers, last, upTo

-----------------------------------------------------------------------------
(***************************************************************************)
(* Goals.                                                                  *)
(***************************************************************************)

\* The list of a day's reviews, when it is no longer than a list may be.
LEMMA ReviewsListed ==
  ASSUME NEW reviews, IsFiniteSet(reviews), NEW today \in Int, NEW limit \in Nat,
         \A r \in reviews : r.id \in Int /\ r.day \in Int,
         \A r, s \in reviews : r.id = s.id => r = s,
         NEW S, \A r : r \in S <=> r \in reviews /\ r.day = today, Cardinality(S) <= limit,
         NEW listed, listed = ListByUserID(reviews, today, today + 1, limit)
  PROVE  /\ listed \in [1 .. Cardinality(S) -> S]
         /\ \A i, j \in 1 .. Cardinality(S) : listed[i] = listed[j] => i = j
         /\ \A r \in S : \E i \in 1 .. Cardinality(S) : listed[i] = r
<1> DEFINE all == OrderBy(S, LAMBDA r, s : r.id > s.id)
           below == [x \in S |-> {y \in S : y.id > x.id}]
           N == Cardinality(S)
           nth(n) == CHOOSE x \in S : Cardinality({y \in S : y.id > x.id}) = n - 1
<1>0. S = Within(reviews, today, today + 1)
  BY DEF Within
<1>1. all = [n \in 1 .. N |-> nth(n)]
  BY DEF OrderBy
<1>2. below \in [S -> SUBSET S]
      /\ \A x \in S : below[x] = {y \in S : y.id > x.id}
  OBVIOUS
<1>3. \A n \in 1 .. N : (\E x \in S : Cardinality(below[x]) = n - 1)
                           => all[n] \in S /\ Cardinality(below[all[n]]) = n - 1
  <2>1. \A n \in 1 .. N : all[n] = nth(n)
    BY <1>1
  <2>2. \A n, x : x \in S => Cardinality(below[x]) = Cardinality({y \in S : y.id > x.id})
    BY <1>2
  <2> HIDE DEF all, below
  <2>3. \A n : (\E x \in S : Cardinality({y \in S : y.id > x.id}) = n - 1)
                 => nth(n) \in S /\ Cardinality({y \in S : y.id > nth(n).id}) = n - 1
    OBVIOUS
  <2> HIDE DEF nth
  <2> QED BY <2>1, <2>2, <2>3
<1>4. /\ \A x \in S : x \notin below[x]
      /\ \A x, y, z \in S : x \in below[y] /\ y \in below[z] => x \in below[z]
      /\ \A x, y \in S : x = y \/ x \in below[y] \/ y \in below[x]
  BY <1>2
<1>a. \A n \in 1 .. N : all[n] = nth(n)
  BY <1>1
<1> HIDE DEF nth, below
<1>5. IsFiniteSet(S) /\ N \in Nat
  <2>1. S \subseteq reviews
    OBVIOUS
  <2> QED BY <2>1, FS_Subset, FS_CardinalityType
<1>6. listed = SubSeq(all, 1, IF limit < Len(all) THEN limit ELSE Len(all))
  BY <1>0 DEF ListByUserID
<1> HIDE DEF all
<1>7. /\ N \in Nat
      /\ \A n \in 1 .. N : all[n] \in S
      /\ \A x \in S : \E n \in 1 .. N : all[n] = x
      /\ \A i, j \in 1 .. N : i < j <=> all[i] \in below[all[j]]
  <2>1. PICK T, n, b, a : T = S /\ n = N /\ b = below /\ a = all
    OBVIOUS
  <2>2. /\ IsFiniteSet(T) /\ b \in [T -> SUBSET T] /\ n = Cardinality(T)
        /\ \A x \in T : x \notin b[x]
    BY <1>2, <1>4, <1>5, <2>1
  <2>3. /\ \A x, y, z \in T : x \in b[y] /\ y \in b[z] => x \in b[z]
        /\ \A x, y \in T : x = y \/ x \in b[y] \/ y \in b[x]
    BY <1>4, <2>1
  <2>4. \A k \in 1 .. n : (\E x \in T : Cardinality(b[x]) = k - 1)
                               => a[k] \in T /\ Cardinality(b[a[k]]) = k - 1
    BY <1>3, <2>1
  <2>5. /\ n \in Nat
        /\ \A k \in 1 .. n : a[k] \in T
        /\ \A x \in T : \E k \in 1 .. n : a[k] = x
        /\ \A i, j \in 1 .. n : i < j <=> a[i] \in b[a[j]]
    BY <2>2, <2>3, <2>4, OrderIs
  <2> QED BY <2>1, <2>5
<1>8. all = [n \in 1 .. N |-> all[n]]
  <2> DEFINE g == [n \in 1 .. N |-> nth(n)]
  <2>1. g = [n \in 1 .. N |-> g[n]]
    OBVIOUS
  <2> QED BY <1>1, <2>1
<1>c. Cardinality(S) = N
  OBVIOUS
<1> HIDE DEF N
<1>9. all \in Seq(S) /\ Len(all) = N /\ all \in [1 .. N -> S]
  BY <1>7, <1>8, SMTT(60)
<1>10. listed = all
  <2>0. N <= limit
    BY <1>c
  <2>1. (IF limit < Len(all) THEN limit ELSE Len(all)) = Len(all)
    BY <1>5, <1>9, <2>0
  <2>2. listed = SubSeq(all, 1, Len(all))
    BY <1>6, <2>1
  <2> QED BY <1>9, <2>2, SubSeqFull
<1>11. \A i, j \in 1 .. N : all[i] = all[j] => i = j
  BY <1>4, <1>7
<1> QED BY <1>7, <1>9, <1>10, <1>11 DEF N

\* The reviews of a day, the new ones among them, those of the eight days up to
\* it, and the time they took.
OnDay(reviews, today) == {r \in reviews : r.day = today}

NewOn(reviews, today) == {r \in OnDay(reviews, today) : r.state = 0}

WeekTo(reviews, today) == {r \in reviews : r.day \in today - 7 .. today}

TimeOn(reviews, today) == SumFunction([r \in OnDay(reviews, today) |-> r.ms])

\* What the progress of a goal is measured by.
LEMMA CurrentIs ==
  ASSUME NEW reviews, IsFiniteSet(reviews), NEW today \in Int, ReviewRows \in Nat,
         \A r \in reviews : r.id \in Int /\ r.day \in Int /\ r.ms \in Nat,
         \A r, s \in reviews : r.id = s.id => r = s,
         Cardinality(OnDay(reviews, today)) <= ReviewRows
  PROVE  /\ CurrentValue("daily_reviews", reviews, today)
            = Cardinality(OnDay(reviews, today))
         /\ CurrentValue("daily_new", reviews, today) = Cardinality(NewOn(reviews, today))
         /\ CurrentValue("weekly_reviews", reviews, today)
            = Cardinality(WeekTo(reviews, today))
         /\ CurrentValue("daily_minutes", reviews, today)
            = TimeOn(reviews, today) \div 60000
         /\ TimeOn(reviews, today) \in Nat
         /\ Cardinality(OnDay(reviews, today)) \in Nat
         /\ Cardinality(NewOn(reviews, today)) \in Nat
         /\ Cardinality(WeekTo(reviews, today)) \in Nat
<1> DEFINE S == {r \in reviews : r.day = today}
           N == Cardinality(S)
           week == {r \in reviews : r.day \in today - 7 .. today}
           listed == ListByUserID(reviews, today, today + 1, ReviewRows)
           days == GetReviewCountsPerDay(reviews, today - 7, today + 1)
           fresh == {r \in S : r.state = 0}
<1>a. /\ S = OnDay(reviews, today) /\ fresh = NewOn(reviews, today)
      /\ week = WeekTo(reviews, today)
  BY DEF OnDay, NewOn, WeekTo
<1>b. TimeOn(reviews, today) = SumFunction([r \in S |-> r.ms])
  BY DEF TimeOn, OnDay
<1>c. N <= ReviewRows
  BY <1>a
<1>1. /\ IsFiniteSet(S) /\ IsFiniteSet(week) /\ IsFiniteSet(fresh)
      /\ N \in Nat /\ Cardinality(week) \in Nat /\ Cardinality(fresh) \in Nat
  <2>1. S \subseteq reviews /\ week \subseteq reviews /\ fresh \subseteq reviews
    OBVIOUS
  <2> HIDE DEF S, week, fresh
  <2> QED BY <2>1, FS_Subset, FS_CardinalityType
<1>2. /\ listed \in [1 .. N -> S]
      /\ \A i, j \in 1 .. N : listed[i] = listed[j] => i = j
      /\ \A r \in S : \E i \in 1 .. N : listed[i] = r
  <2>1. PICK T, l : T = S /\ l = listed
    OBVIOUS
  <2>2. /\ \A r : r \in T <=> r \in reviews /\ r.day = today
        /\ Cardinality(T) <= ReviewRows
        /\ l = ListByUserID(reviews, today, today + 1, ReviewRows)
    BY <1>c, <2>1
  <2>3. \A r \in reviews : r.id \in Int /\ r.day \in Int
    OBVIOUS
  <2> HIDE DEF S, listed
  <2>4. /\ l \in [1 .. Cardinality(T) -> T]
        /\ \A i, j \in 1 .. Cardinality(T) : l[i] = l[j] => i = j
        /\ \A r \in T : \E i \in 1 .. Cardinality(T) : l[i] = r
    BY <2>2, <2>3, ReviewsListed, SMTT(60)
  <2> QED BY <2>1, <2>4
<1>3. CurrentValue("daily_reviews", reviews, today) = N
  BY DEF CurrentValue, CountByUserAndDate
<1>4. CurrentValue("daily_new", reviews, today)
        = Cardinality({i \in DOMAIN listed : listed[i].state = 0})
  BY DEF CurrentValue
<1>5. CurrentValue("weekly_reviews", reviews, today) = SumFunction([d \in days |-> d.count])
  BY DEF CurrentValue
<1>6. CurrentValue("daily_minutes", reviews, today)
        = SumFunction([i \in DOMAIN listed |-> listed[i].ms]) \div 60000
  BY DEF CurrentValue
<1>7. \A r \in S : r.ms \in Nat
  OBVIOUS
<1> HIDE DEF listed
<1>8. Cardinality({i \in DOMAIN listed : listed[i].state = 0}) = Cardinality(fresh)
  <2> DEFINE A == {i \in DOMAIN listed : listed[i].state = 0}
             f == [i \in A |-> listed[i]]
  <2>1. IsFiniteSet(1 .. N) /\ A \subseteq 1 .. N
    BY <1>1, <1>2, FS_Interval
  <2>2. f \in [A -> fresh] /\ \A i, j \in A : f[i] = f[j] => i = j
    BY <1>2
  <2>3. \A r \in fresh : \E i \in A : f[i] = r
    BY <1>2
  <2> HIDE DEF A, f, fresh
  <2>4. IsFiniteSet(A)
    BY <2>1, FS_Subset
  <2>5. Cardinality(A) = Cardinality(fresh)
    BY <2>2, <2>3, <2>4, SameCount
  <2> QED BY <2>5 DEF A
<1>9. /\ SumFunction([i \in DOMAIN listed |-> listed[i].ms])
         = SumFunction([r \in S |-> r.ms])
      /\ SumFunction([r \in S |-> r.ms]) \in Nat
  <2> DEFINE g == [i \in DOMAIN listed |-> listed[i].ms]
             h == [r \in S |-> r.ms]
  <2>1. DOMAIN g = 1 .. N /\ DOMAIN h = S /\ IsFiniteSet(1 .. N)
    BY <1>1, <1>2, FS_Interval
  <2>2. \A i \in 1 .. N : g[i] \in Nat /\ h[listed[i]] = g[i]
    BY <1>2, <1>7
  <2>3. \A r \in S : h[r] \in Nat
    BY <1>7
  <2> HIDE DEF g, h, S
  <2>4. SumFunctionOnSet(g, 1 .. N) = SumFunctionOnSet(h, S)
    <3>1. PICK A, B, f : A = 1 .. N /\ B = S /\ f = listed
      OBVIOUS
    <3>2. /\ IsFiniteSet(A) /\ f \in [A -> B]
          /\ \A i, j \in A : f[i] = f[j] => i = j
          /\ \A r \in B : \E i \in A : f[i] = r
          /\ \A i \in A : g[i] \in Nat /\ h[f[i]] = g[i]
      BY <1>2, <2>1, <2>2, <3>1
    <3>3. SumFunctionOnSet(g, A) = SumFunctionOnSet(h, B)
      BY <3>2, SumMoved
    <3> QED BY <3>1, <3>3
  <2>5. SumFunctionOnSet(h, S) \in Nat
    BY <1>1, <2>3, SumType
  <2> QED BY <2>1, <2>4, <2>5, SumOf DEF g, h
<1>10. SumFunction([d \in days |-> d.count]) = Cardinality(week)
  <2> DEFINE D == {r.day : r \in Within(reviews, today - 7, today + 1)}
             On(d) == {r \in reviews : r.day = d}
             Right(d) == {r \in reviews : r.day = d /\ r.rating >= 3}
             row(d) == [day |-> d, count |-> Cardinality(On(d)),
                        correct |-> Cardinality(Right(d))]
             f == [d \in D |-> row(d)]
             g == [d \in D |-> Cardinality(On(d))]
             h == [d \in days |-> d.count]
             part == [d \in D |-> On(d)]
  <2>1. days = {row(d) : d \in D}
    BY DEF GetReviewCountsPerDay, CountByUserAndDate
  <2>2. Within(reviews, today - 7, today + 1) = week
    BY DEF Within
  <2>3. IsFiniteSet(D)
    <3> DEFINE i == [r \in week |-> r.day]
    <3>1. i \in Surjection(week, D)
      BY <2>2 DEF Surjection
    <3> HIDE DEF i, week, D
    <3> QED BY <1>1, <3>1, FS_Surjection
  <2>4. \A d : IsFiniteSet(On(d)) /\ Cardinality(On(d)) \in Nat
    <3>1. \A d : On(d) \subseteq reviews
      OBVIOUS
    <3> HIDE DEF On
    <3> QED BY <3>1, FS_Subset, FS_CardinalityType
  <2>5. UNION {part[d] : d \in D} = week
    <3>1. week \subseteq reviews /\ D = {r.day : r \in week}
      BY <2>2
    <3>a. \A r \in reviews : r.day \in D => \E s \in week : r.day = s.day
      BY <3>1
    <3>b. \A r \in reviews : r \in week <=> r.day \in today - 7 .. today
      OBVIOUS
    <3>2. \A r \in reviews : r.day \in D => r \in week
      <4> HIDE DEF week, D
      <4> QED BY <3>1, <3>a, <3>b
    <3>3. \A d \in D : part[d] = {r \in reviews : r.day = d}
      OBVIOUS
    <3> HIDE DEF week, D, part
    <3>4. \A r \in week : r \in part[r.day] /\ r.day \in D
      BY <3>1, <3>3
    <3>5. \A d \in D : part[d] \subseteq week
      BY <3>2, <3>3
    <3> QED BY <3>4, <3>5
  <2>6. \A d, e \in D : d # e => part[d] \cap part[e] = {}
    OBVIOUS
  <2> HIDE DEF Right, On
  <2>7. \A d : row(d).day = d /\ row(d).count = Cardinality(On(d))
    OBVIOUS
  <2>8. \A d, e : row(d) = row(e) => d = e
    <3>1. \A d, e : row(d) = row(e) => row(d).day = row(e).day
      OBVIOUS
    <3> HIDE DEF row
    <3> QED BY <2>7, <3>1
  <2> HIDE DEF row, D, week, days
  <2>9. f \in [D -> days] /\ (\A d, e \in D : f[d] = f[e] => d = e)
          /\ \A s \in days : \E d \in D : f[d] = s
    BY <2>1, <2>8
  <2>10. \A d \in D : g[d] \in Nat /\ h[f[d]] = g[d]
    BY <2>1, <2>4, <2>7
  <2>11. \A d \in D : IsFiniteSet(part[d]) /\ g[d] = Cardinality(part[d])
    BY <2>4
  <2>12. DOMAIN h = days
    OBVIOUS
  <2> HIDE DEF f, g, h, part
  <2>13. SumFunctionOnSet(g, D) = SumFunctionOnSet(h, days)
    BY <2>3, <2>9, <2>10, SumMoved
  <2>14. SumFunctionOnSet(g, D) = Cardinality(UNION {part[d] : d \in D})
    BY <2>3, <2>6, <2>11, SumOfCounts
  <2>15. SumFunction(h) = SumFunctionOnSet(h, days)
    BY <2>12, SumOf
  <2> QED BY <2>5, <2>13, <2>14, <2>15 DEF h
<1> HIDE DEF S, week, fresh, days, listed
<1> QED BY <1>a, <1>b, <1>1, <1>3, <1>4, <1>5, <1>6, <1>8, <1>9, <1>10

\* A goal is completed at its target.
LEMMA CompletedIs ==
  \A c, t : Progress(c, t).completed <=> c >= t
<1> TAKE c, t
<1> DEFINE p(f) == IF f < 10000 THEN f ELSE 10000
<1>1. \A a, b, d : [current |-> a, completed |-> b, percent |-> d].completed = b
  OBVIOUS
<1>2. Progress(c, t)
         = [current |-> c, completed |-> c >= t, percent |-> p(Percent(c, t))]
  BY DEF Progress
<1> HIDE DEF p
<1>3. Progress(c, t).completed = (c >= t)
  BY <1>1, <1>2
<1> QED BY <1>3

\* After SetGoal the goal of a type is listed with its progress.
LEMMA OneGoal ==
  ASSUME NEW type, NEW target, NEW reviews, NEW today,
         NEW g \in ListWithProgress(SetGoal({}, type, target), reviews, today)
  PROVE  g.progress = Progress(CurrentValue(type, reviews, today), target)
<1>1. SetGoal({}, type, target) = {[type |-> type, target |-> target]}
  BY DEF SetGoal
<1>2. PICK h \in SetGoal({}, type, target) :
         g = [goal |-> h,
              progress |-> Progress(CurrentValue(h.type, reviews, today), h.target)]
  BY DEF ListWithProgress
<1>3. h.type = type /\ h.target = target
  BY <1>1
<1>4. g.progress = Progress(CurrentValue(h.type, reviews, today), h.target)
  BY <1>2
<1> QED BY <1>3, <1>4

\* Whole minutes reach n when the time does.
LEMMA WholeMinutes ==
  ASSUME NEW x \in Nat, NEW n \in Nat
  PROVE  x \div 60000 >= n <=> x >= 60000 * n
<1>1. /\ x \div 60000 \in Int /\ x >= 60000 * (x \div 60000)
      /\ x < 60000 * (x \div 60000) + 60000
  BY Z3
<1> QED BY <1>1

\* GoalsMet.
LEMMA GoalsReached ==
  ASSUME GoalInput(problem), ReviewRows \in Nat
  PROVE  GoalsMet
<1> DEFINE reviews == problem.reviews
           today == problem.today
           now1 == {r \in reviews : r.day = today}
           week == {r \in reviews : r.day \in today - 7 .. today}
           fresh == {r \in now1 : r.state = 0}
           ms == SumFunction([r \in now1 |-> r.ms])
           enough(type, n) ==
             \/ type = "daily_reviews" /\ Cardinality(now1) >= n
             \/ type = "daily_new" /\ Cardinality(fresh) >= n
             \/ type = "weekly_reviews" /\ Cardinality(week) >= n
             \/ type = "daily_minutes" /\ ms >= 60000 * n
<1>1. ASSUME Is("goal"), Cardinality(now1) <= ReviewRows, NEW type \in GoalTypes,
             NEW target \in 1 .. 3,
             NEW g \in ListWithProgress(SetGoal({}, type, target), reviews, today)
      PROVE  g.progress.completed <=> enough(type, target)
  <2>1. g.progress.completed <=> CurrentValue(type, reviews, today) >= target
    BY OneGoal, CompletedIs
  <2>2. /\ CurrentValue("daily_reviews", reviews, today) = Cardinality(now1)
        /\ CurrentValue("daily_new", reviews, today) = Cardinality(fresh)
        /\ CurrentValue("weekly_reviews", reviews, today) = Cardinality(week)
        /\ CurrentValue("daily_minutes", reviews, today) = ms \div 60000
        /\ ms \in Nat
    <3>1. /\ IsFiniteSet(reviews) /\ today \in Int
          /\ \A r \in reviews : r.id \in Int /\ r.day \in Int /\ r.ms \in Nat
          /\ \A r, s \in reviews : r.id = s.id => r = s
      BY <1>1 DEF GoalInput, Is
    <3>2. Cardinality(now1) <= ReviewRows
      BY <1>1
    <3>3. /\ now1 = OnDay(reviews, today) /\ fresh = NewOn(reviews, today)
          /\ week = WeekTo(reviews, today)
      BY DEF OnDay, NewOn, WeekTo
    <3>4. ms = TimeOn(reviews, today)
      BY DEF TimeOn, OnDay
    <3> HIDE DEF reviews, today, now1, fresh, week, ms
    <3> QED BY <3>1, <3>2, <3>3, <3>4, CurrentIs
  <2>3. type \in {"daily_reviews", "daily_new", "weekly_reviews", "daily_minutes"}
    BY DEF GoalTypes
  <2> HIDE DEF now1, week, fresh, ms, reviews, today
  <2>4. CASE type = "daily_reviews"
    BY <2>1, <2>2, <2>4
  <2>5. CASE type = "daily_new"
    BY <2>1, <2>2, <2>5
  <2>6. CASE type = "weekly_reviews"
    BY <2>1, <2>2, <2>6
  <2>7. CASE type = "daily_minutes"
    <3>1. ms \div 60000 >= target <=> ms >= 60000 * target
      BY <2>2, WholeMinutes
    <3> QED BY <2>1, <2>2, <2>7, <3>1
  <2>8. \/ type = "daily_reviews" \/ type = "daily_new" \/ type = "weekly_reviews"
        \/ type = "daily_minutes"
    BY <2>3
  <2> QED BY <2>4, <2>5, <2>6, <2>7, <2>8
<1>2. Is("goal") =>
        \A type \in GoalTypes, target \in 1 .. 3 :
          \A g \in ListWithProgress(SetGoal({}, type, target), reviews, today) :
             Cardinality(now1) <= ReviewRows
               => (g.progress.completed <=> enough(type, target))
  <2> HIDE DEF enough, now1, reviews, today
  <2> QED BY <1>1
<1> QED BY <1>2, SMTT(60) DEF GoalsMet

\* A target is positive and less than 10000.
LEMMA TargetRange ==
  ASSUME NEW t \in TargetValues PROVE t \in Nat /\ 1 <= t /\ t < 10000
BY DEF TargetValues

\* HundredMeansMet: what is rounded to hundredths of a percent is 100 only when
\* the target is met, as it is below 10000.
LEMMA HundredIsMet ==
  ASSUME ProgressInput(problem) PROVE HundredMeansMet
<1> SUFFICES ASSUME Is("progress")
    PROVE  LET p == Progress(problem.current, problem.target)
           IN  p.completed <=> p.percent = 10000
  BY DEF HundredMeansMet
<1>1. PICK c, t : c = problem.current /\ t = problem.target
  OBVIOUS
<1>k. problem.kind = "progress"
  BY DEF Is
<1>i. problem.current \in Nat /\ problem.target \in TargetValues
  BY <1>k DEF ProgressInput
<1>2. c \in Nat /\ t \in Nat /\ 1 <= t /\ t < 10000
  BY <1>1, <1>i, TargetRange
<1> DEFINE a == 2 * (10000 * c) + t
           b == 2 * t
<1>3. a \in Nat /\ b \in Nat /\ b > 0
  BY <1>2
<1>4. Percent(c, t) = a \div b
  BY DEF Percent, Round
<1> HIDE DEF a, b
<1>5. PICK q \in Nat : q = Percent(c, t) /\ b * q <= a /\ a < b * q + b
  BY <1>3, <1>4, Division
<1>6. ASSUME c >= t PROVE q >= 10000
  <2>1. a >= b * 10000
    BY <1>2, <1>6 DEF a, b
  <2>2. q <= 9999 => b * q <= b * 9999
    BY <1>3, Growing
  <2>3. b * 10000 = b * 9999 + b
    BY <1>3
  <2>4. b * q \in Nat /\ b * 9999 \in Nat /\ b * 10000 \in Nat
    BY <1>3
  <2> QED BY <1>3, <1>5, <2>1, <2>2, <2>3, <2>4
<1>7. ASSUME ~ (c >= t) PROVE q < 10000
  <2>1. a < b * 10000
    BY <1>2, <1>7 DEF a, b
  <2>2. q >= 10000 => b * q >= b * 10000
    BY <1>3, Growing
  <2>3. b * q \in Nat /\ b * 10000 \in Nat
    BY <1>3
  <2> QED BY <1>3, <1>5, <2>1, <2>2, <2>3
<1>8. Progress(c, t).completed <=> c >= t
  BY CompletedIs
<1>9. Progress(c, t).percent = IF q < 10000 THEN q ELSE 10000
  BY <1>5 DEF Progress
<1> QED BY <1>1, <1>5, <1>6, <1>7, <1>8, <1>9

-----------------------------------------------------------------------------
(***************************************************************************)
(* Weak areas and test results.                                            *)
(***************************************************************************)

\* The cards that are weak and not suspended.
WeakOf(cards) == {c \in cards : Weak(c) /\ ~c.suspended}

\* rows are the first n of these, s, in an order in which none is weaker than one
\* before it.
Ranked(cards, rows, s, N, n) ==
  /\ N \in Nat /\ n \in Nat
  /\ n <= N /\ Len(rows) = n /\ DOMAIN rows = 1 .. n /\ rows \in Seq(WeakOf(cards))
  /\ s \in [1 .. N -> WeakOf(cards)]
  /\ \A i, j \in 1 .. N : s[i] = s[j] => i = j
  /\ \A c \in WeakOf(cards) : \E i \in 1 .. N : s[i] = c
  /\ \A i, j \in 1 .. N : i < j => ~Weaker(s[j], s[i])
  /\ \A i \in 1 .. n : rows[i] = s[i]

\* That is what GetWeakCards returns.
LEMMA RowsAre ==
  ASSUME NEW cards, IsFiniteSet(cards), NEW limit \in Nat,
         NEW rows \in GetWeakCards(cards, limit)
  PROVE  \E s, N, n : Ranked(cards, rows, s, N, n)
<1> DEFINE W == WeakOf(cards)
           N == Cardinality(W)
           n == IF limit < N THEN limit ELSE N
<1>1. IsFiniteSet(W) /\ N \in Nat
  <2>1. W \subseteq cards
    BY DEF WeakOf
  <2> QED BY <2>1, FS_Subset, FS_CardinalityType
<1>2. GetWeakCards(cards, limit) =
        {SubSeq(s, 1, n) : s \in {t \in SetToSeqs(W) :
            \A i, j \in DOMAIN t : i < j => ~Weaker(t[j], t[i])}}
  BY DEF GetWeakCards, WeakOf
<1>3. SetToSeqs(W) = {f \in [1 .. N -> W] : \A i, j \in 1 .. N : i # j => f[i] # f[j]}
  BY DEF SetToSeqs, IsInjective
<1> HIDE DEF W, N, n
<1>4. PICK s \in SetToSeqs(W) : /\ rows = SubSeq(s, 1, n)
                                /\ \A i, j \in DOMAIN s : i < j => ~Weaker(s[j], s[i])
  BY <1>2
<1>5. /\ s \in [1 .. N -> W]
      /\ \A i, j \in 1 .. N : s[i] = s[j] => i = j
      /\ \A i, j \in 1 .. N : i < j => ~Weaker(s[j], s[i])
  BY <1>3, <1>4
<1>6. n \in 0 .. N /\ n \in Nat
  BY <1>1 DEF n
<1>7. \A c \in W : \E i \in 1 .. N : s[i] = c
  <2>1. PICK A : A = 1 .. N
    OBVIOUS
  <2>2. IsFiniteSet(A) /\ Cardinality(A) = Cardinality(W)
    <3>1. IsFiniteSet(1 .. N) /\ Cardinality(1 .. N) = N
      <4>1. IsFiniteSet(1 .. N) /\ Cardinality(1 .. N) = IF 1 > N THEN 0 ELSE N - 1 + 1
        BY <1>1, FS_Interval
      <4> QED BY <1>1, <4>1
    <3> QED BY <2>1, <3>1 DEF N
  <2>3. s \in [A -> W] /\ \A i, j \in A : s[i] = s[j] => i = j
    BY <1>5, <2>1
  <2>4. \A c \in W : \E i \in A : s[i] = c
    BY <1>1, <2>2, <2>3, AllReached
  <2> QED BY <2>1, <2>4
<1>8. rows \in Seq(W) /\ Len(rows) = n /\ DOMAIN rows = 1 .. n
        /\ \A i \in 1 .. n : rows[i] = s[i]
  <2>1. s \in Seq(W) /\ Len(s) = N
    BY <1>1, <1>5
  <2>2. \A i \in 1 .. n : s[i] \in W
    BY <1>1, <1>5, <1>6
  <2>3. rows = [i \in 1 .. n |-> s[i]]
    BY <1>4, <1>6, <2>1
  <2> QED BY <1>6, <2>2, <2>3
<1>9. Ranked(cards, rows, s, N, n)
  BY <1>1, <1>5, <1>6, <1>7, <1>8 DEF Ranked, W
<1> QED BY <1>9

\* A tag is counted once for each of its cards, when none has it twice.
LEMMA TagsCounted ==
  ASSUME NEW cards, IsFiniteSet(cards), NEW n \in Nat, NEW rows, DOMAIN rows = 1 .. n,
         \A i \in 1 .. n : rows[i] \in cards,
         \A i, j \in 1 .. n : rows[i] = rows[j] => i = j,
         \A c \in cards : \A k, m \in DOMAIN c.tags : c.tags[k] = c.tags[m] => k = m,
         NEW tag
  PROVE  TagCount(rows, tag) <= Cardinality({c \in cards : tag \in ToSet(c.tags)})
<1> DEFINE A == UNION {{i} \X {m \in DOMAIN rows[i].tags : rows[i].tags[m] = tag} :
                  i \in DOMAIN rows}
           B == {c \in cards : tag \in ToSet(c.tags)}
           f == [x \in A |-> rows[x[1]]]
<1>1. IsFiniteSet(B)
  <2>1. B \subseteq cards
    OBVIOUS
  <2> QED BY <2>1, FS_Subset
<1>2. \A x \in A : /\ x = <<x[1], x[2]>> /\ x[1] \in 1 .. n
                   /\ x[2] \in DOMAIN rows[x[1]].tags
                   /\ rows[x[1]].tags[x[2]] = tag
  OBVIOUS
<1>3. \A x \in A : f[x] \in B
  <2>1. SUFFICES ASSUME NEW x \in A PROVE rows[x[1]] \in B
    OBVIOUS
  <2>2. rows[x[1]] \in cards /\ x[2] \in DOMAIN rows[x[1]].tags
          /\ rows[x[1]].tags[x[2]] = tag
    BY <1>2
  <2>3. tag \in ToSet(rows[x[1]].tags)
    BY <2>2 DEF ToSet
  <2> QED BY <2>2, <2>3
<1>4. \A x, y \in A : f[x] = f[y] => x = y
  <2>1. SUFFICES ASSUME NEW x \in A, NEW y \in A, rows[x[1]] = rows[y[1]] PROVE x = y
    OBVIOUS
  <2>2. x[1] = y[1]
    BY <1>2, <2>1
  <2>3. rows[x[1]] \in cards
    BY <1>2
  <2>4. x[2] = y[2]
    BY <1>2, <2>1, <2>2, <2>3
  <2> QED BY <1>2, <2>2, <2>4
<1>5. TagCount(rows, tag) = Cardinality(A)
  BY DEF TagCount
<1>6. f \in [A -> B]
  BY <1>3
<1> HIDE DEF A, B, f
<1>7. Cardinality(A) <= Cardinality(B)
  BY <1>1, <1>4, <1>6, NoFewer
<1> QED BY <1>5, <1>7 DEF B

\* What is to be of the cards listed,
ListedRight(cards, w) ==
  \A i \in DOMAIN w.cards :
     /\ w.cards[i].reps = 0 => w.cards[i].lapses > 2
     /\ \A c \in cards \ ToSet(w.cards) :
           (Weak(c) /\ ~c.suspended) => ~Weaker(c, w.cards[i])

\* and of the areas.
AreasRight(cards, w) ==
  \A a \in w.areas :
     /\ a.weakCards >= 2
     /\ (\A c \in cards : IsInjective(c.tags)) =>
           Cardinality({c \in cards : a.tag \in ToSet(c.tags)}) >= a.weakCards

\* WeakAreasTrue.
LEMMA WeakAreasAreTrue ==
  ASSUME WeakInput(problem), WeakRows \in Nat, TopRows \in Nat
  PROVE  WeakAreasTrue
<1> SUFFICES ASSUME Is("weak"), NEW w \in WeakAreas(problem.cards)
             PROVE  ListedRight(problem.cards, w) /\ AreasRight(problem.cards, w)
  BY DEF WeakAreasTrue, ListedRight, AreasRight
<1> DEFINE cards == problem.cards
<1>1. IsFiniteSet(cards)
  BY DEF WeakInput, Is
<1>2. PICK rows \in GetWeakCards(cards, WeakRows) :
        /\ w.areas = {[tag |-> t, weakCards |-> TagCount(rows, t)] :
                        t \in {u \in UNION {ToSet(rows[i].tags) : i \in DOMAIN rows} :
                                  TagCount(rows, u) >= 2}}
        /\ w.cards = SubSeq(rows, 1, IF TopRows < Len(rows) THEN TopRows ELSE Len(rows))
  BY DEF WeakAreas
<1> HIDE DEF cards
<1>a. PICK s, N, n : Ranked(cards, rows, s, N, n)
  BY <1>1, RowsAre
<1>3. /\ N \in Nat /\ n \in Nat
      /\ n <= N /\ Len(rows) = n /\ DOMAIN rows = 1 .. n /\ rows \in Seq(WeakOf(cards))
      /\ s \in [1 .. N -> WeakOf(cards)]
      /\ \A i, j \in 1 .. N : s[i] = s[j] => i = j
      /\ \A c \in WeakOf(cards) : \E i \in 1 .. N : s[i] = c
      /\ \A i, j \in 1 .. N : i < j => ~Weaker(s[j], s[i])
      /\ \A i \in 1 .. n : rows[i] = s[i]
  BY <1>a DEF Ranked
<1>4. \A c : c \in WeakOf(cards) <=> c \in cards /\ Weak(c) /\ ~c.suspended
  BY DEF WeakOf
<1>5. PICK top \in 0 .. n : /\ DOMAIN w.cards = 1 .. top
                            /\ \A i \in 1 .. top : w.cards[i] = s[i]
  <2> DEFINE top == IF TopRows < Len(rows) THEN TopRows ELSE Len(rows)
  <2>1. top \in 0 .. n /\ top \in Nat
    BY <1>3
  <2> HIDE DEF top
  <2>2. w.cards = SubSeq(rows, 1, top)
    BY <1>2 DEF top
  <2>3. w.cards = [i \in 1 .. top |-> rows[i]]
    BY <1>3, <2>1, <2>2
  <2>a. n \in Nat
    BY <1>3
  <2>4. \A i \in 1 .. top : i \in 1 .. n
    BY <2>1, <2>a
  <2> QED BY <1>3, <2>1, <2>3, <2>4, SMTT(60)
<1>6. ASSUME NEW i \in DOMAIN w.cards
      PROVE  /\ w.cards[i].reps = 0 => w.cards[i].lapses > 2
             /\ \A c \in cards \ ToSet(w.cards) :
                   (Weak(c) /\ ~c.suspended) => ~Weaker(c, w.cards[i])
  <2>1. i \in 1 .. top /\ i \in 1 .. N /\ w.cards[i] = s[i]
    BY <1>3, <1>5, <1>6
  <2>2. Weak(s[i])
    BY <1>3, <1>4, <2>1
  <2>3. w.cards[i].reps = 0 => w.cards[i].lapses > 2
    BY <2>1, <2>2 DEF Weak
  <2>4. ASSUME NEW c \in cards \ ToSet(w.cards), Weak(c), ~c.suspended
        PROVE  ~Weaker(c, w.cards[i])
    <3>1. PICK j \in 1 .. N : s[j] = c
      BY <1>3, <1>4, <2>4
    <3>2. j \notin 1 .. top
      <4>1. \A k \in 1 .. top : s[k] \in ToSet(w.cards)
        BY <1>5 DEF ToSet
      <4> QED BY <2>4, <3>1, <4>1
    <3>3. i < j
      BY <2>1, <3>2
    <3> QED BY <1>3, <2>1, <3>1, <3>3
  <2> QED BY <2>3, <2>4
<1>7. ASSUME NEW a \in w.areas
      PROVE  /\ a.weakCards >= 2
             /\ (\A c \in cards : IsInjective(c.tags)) =>
                   Cardinality({c \in cards : a.tag \in ToSet(c.tags)}) >= a.weakCards
  <2>1. PICK t : /\ TagCount(rows, t) >= 2
               /\ a = [tag |-> t, weakCards |-> TagCount(rows, t)]
    BY <1>2
  <2>2. a.tag = t /\ a.weakCards = TagCount(rows, t)
    BY <2>1
  <2>3. \A i \in 1 .. n : rows[i] \in cards
    BY <1>3, <1>4
  <2>4. \A i, j \in 1 .. n : rows[i] = rows[j] => i = j
    BY <1>3
  <2>5. ASSUME \A c \in cards : IsInjective(c.tags)
        PROVE  TagCount(rows, t) <= Cardinality({c \in cards : t \in ToSet(c.tags)})
    <3>1. \A c \in cards : \A k, m \in DOMAIN c.tags : c.tags[k] = c.tags[m] => k = m
      BY <2>5 DEF IsInjective
    <3> QED BY <1>1, <1>3, <2>3, <2>4, <3>1, TagsCounted

  <2> QED BY <2>1, <2>2, <2>5
<1> QED BY <1>6, <1>7 DEF cards, ListedRight, AreasRight

\* The finished attempts at some tests.
Finished(Q) == UNION {{a \in ToSet(Q[i]) : a.completed} : i \in DOMAIN Q}

\* The result is that of a finished attempt that no other beats.
Best(Q, result) ==
  /\ \A a \in Finished(Q) : a.score <= result.score
  /\ \E a \in Finished(Q) : a.score = result.score /\ a.total = result.total

\* That is the result when an attempt was finished, and otherwise there is none.
LEMMA ResultIs ==
  ASSUME NEW Q, Quizzes(Q), NEW result \in buildTestResult(Q)
  PROVE  /\ Finished(Q) = {} => result = NoResult
         /\ Finished(Q) # {} => result # NoResult /\ Best(Q, result)
<1> DEFINE best(i) == GetBestAttemptByQuizID(Q[i])
           wins(a, i) == \A j \in DOMAIN Q : \A b \in best(j) :
                            b.score < a.score \/ (b.score = a.score /\ j >= i)
           winners == UNION {{a \in best(i) : wins(a, i)} : i \in DOMAIN Q}
           made == SumFunction([i \in DOMAIN Q |-> Len(Q[i])])
           fin(i) == {a \in ToSet(Q[i]) : a.completed}
           N == Len(Q)
<1>1. /\ N \in Nat /\ DOMAIN Q = 1 .. N
      /\ \A i \in 1 .. N : /\ Len(Q[i]) \in Nat /\ DOMAIN Q[i] = 1 .. Len(Q[i])
                           /\ \A j \in 1 .. Len(Q[i]) : Q[i][j].score \in Nat
  BY DEF Quizzes
<1>2. ASSUME NEW i \in 1 .. N
      PROVE  /\ IsFiniteSet(fin(i)) /\ \A a \in fin(i) : a.score \in Nat
             /\ \A a : a \in best(i) <=>
                   a \in fin(i) /\ \A b \in fin(i) : b.score <= a.score
             /\ fin(i) # {} => Len(Q[i]) > 0
  <2>1. fin(i) = {Q[i][j] : j \in {k \in DOMAIN Q[i] : Q[i][k].completed}}
    BY DEF ToSet
  <2>2. IsFiniteSet(fin(i))
    <3> DEFINE K == {k \in DOMAIN Q[i] : Q[i][k].completed}
               f == [k \in K |-> Q[i][k]]
    <3>1. IsFiniteSet(1 .. Len(Q[i])) /\ K \subseteq 1 .. Len(Q[i])
      <4>1. Len(Q[i]) \in Nat /\ K \subseteq 1 .. Len(Q[i])
        BY <1>1
      <4>2. \A n \in Nat : IsFiniteSet(1 .. n)
        BY FS_Interval
      <4> QED BY <4>1, <4>2
    <3>2. f \in Surjection(K, fin(i))
      BY <2>1 DEF Surjection
    <3> HIDE DEF K, f, fin
    <3>3. IsFiniteSet(K)
      BY <3>1, FS_Subset
    <3> QED BY <3>2, <3>3, FS_Surjection
  <2>3. \A a \in fin(i) : a.score \in Nat
    BY <1>1, <2>1
  <2>4. \A a : a \in best(i) <=> a \in fin(i) /\ \A b \in fin(i) : b.score <= a.score
    BY <2>1 DEF GetBestAttemptByQuizID
  <2>5. fin(i) # {} => Len(Q[i]) > 0
    BY <1>1, <2>1
  <2> QED BY <2>2, <2>3, <2>4, <2>5
<1>3. Finished(Q) = UNION {fin(i) : i \in 1 .. N}
  BY <1>1 DEF Finished
<1>4. \A a : a \in winners <=> \E i \in 1 .. N : a \in best(i) /\ wins(a, i)
  BY <1>1
<1>5. /\ winners = {} => result = NoResult
      /\ winners # {} =>
           \E a \in winners :
              /\ result.score = a.score
              /\ result.total = a.total
              /\ result.attempts = made
  <2> DEFINE row(a) == [score |-> a.score, total |-> a.total, attempts |-> made,
                        percent |-> IF a.total > 0 THEN Percent(a.score, a.total) ELSE 0]
  <2>1. result \in (IF winners = {} THEN {NoResult} ELSE {row(a) : a \in winners})
    BY DEF buildTestResult
  <2> HIDE DEF made, winners
  <2>2. \A a : row(a).score = a.score /\ row(a).total = a.total /\ row(a).attempts = made
    OBVIOUS
  <2> HIDE DEF row
  <2> QED BY <2>1, <2>2
<1>6. \A a, i : wins(a, i) <=> \A j \in 1 .. N : \A b \in best(j) :
                                  b.score < a.score \/ (b.score = a.score /\ j >= i)
  BY <1>1
<1>7. made \in Nat /\ (made > 0 <=> \E i \in 1 .. N : Len(Q[i]) > 0)
  <2> DEFINE g == [i \in DOMAIN Q |-> Len(Q[i])]
  <2>1. /\ DOMAIN g = 1 .. N /\ IsFiniteSet(1 .. N)
        /\ \A i \in 1 .. N : g[i] = Len(Q[i]) /\ g[i] \in Nat
    BY <1>1, FS_Interval
  <2> HIDE DEF g
  <2>2. SumFunction(g) = SumFunctionOnSet(g, 1 .. N)
    BY <2>1, SumOf
  <2>3. SumFunctionOnSet(g, 1 .. N) \in Nat
        /\ (SumFunctionOnSet(g, 1 .. N) > 0 <=> \E i \in 1 .. N : g[i] > 0)
    <3>1. PICK U : U = 1 .. N
      OBVIOUS
    <3>2. IsFiniteSet(U) /\ \A i \in U : g[i] \in Nat
      BY <2>1, <3>1
    <3>3. SumFunctionOnSet(g, U) \in Nat
            /\ (SumFunctionOnSet(g, U) > 0 <=> \E i \in U : g[i] > 0)
      BY <3>2, SumPositive
    <3> QED BY <3>1, <3>3
  <2> QED BY <2>1, <2>2, <2>3 DEF g
<1> HIDE DEF best, wins, winners, made, fin
<1>8. ASSUME NEW i \in 1 .. N, NEW a \in fin(i)
      PROVE  \E b \in best(i) : a.score <= b.score
  <2> DEFINE score == [x \in fin(i) |-> x.score]
  <2>1. \A x \in fin(i) : score[x] \in Nat /\ score[x] = x.score
    BY <1>2
  <2> HIDE DEF score
  <2>2. IsFiniteSet(fin(i)) /\ fin(i) # {}
    BY <1>2, <1>8
  <2>3. PICK b \in fin(i) : \A x \in fin(i) : score[x] <= score[b]
    BY <2>1, <2>2, Highest
  <2>4. b \in best(i)
    BY <1>2, <2>1, <2>3
  <2> QED BY <1>8, <2>1, <2>3, <2>4
<1>9. ASSUME Finished(Q) = {} PROVE winners = {}
  <2>1. \A i \in 1 .. N : fin(i) = {}
    BY <1>3, <1>9
  <2> QED BY <1>2, <1>4, <2>1
<1>10. ASSUME Finished(Q) # {} PROVE winners # {}
  <2> DEFINE F == {j \in 1 .. N : fin(j) # {}}
             top == [j \in F |-> CHOOSE s \in Nat : \E b \in best(j) : b.score = s]
  <2>1. \A j \in F : top[j] \in Nat /\ (\E b \in best(j) : b.score = top[j])
    <3>1. \A j \in F : \E b \in best(j) : b.score \in Nat
      BY <1>2, <1>8
    <3> QED BY <3>1
  <2>2. \A j \in F : \A b \in best(j) : b.score = top[j]
    <3>1. SUFFICES ASSUME NEW j \in F, NEW b \in best(j) PROVE b.score = top[j]
      OBVIOUS
    <3>2. PICK c \in best(j) : c.score = top[j]
      BY <2>1
    <3>3. b \in fin(j) /\ c \in fin(j) /\ b.score <= c.score /\ c.score <= b.score
      BY <1>2
    <3>4. b.score \in Nat /\ c.score \in Nat
      BY <1>2, <3>3
    <3> QED BY <3>2, <3>3, <3>4
  <2>3. IsFiniteSet(F) /\ F # {} /\ F \subseteq 1 .. N
    <3>1. F # {}
      BY <1>3, <1>10
    <3>2. F \subseteq 1 .. N /\ IsFiniteSet(1 .. N)
      BY <1>1, FS_Interval
    <3> HIDE DEF F
    <3> QED BY <3>1, <3>2, FS_Subset
  <2>4. \A j \in 1 .. N : \A b \in best(j) : j \in F
    BY <1>2
  <2> HIDE DEF F, top
  <2>5. PICK m \in F : \A j \in F : top[j] <= top[m]
    BY <2>1, <2>3, Highest
  <2> DEFINE G == {j \in F : top[j] = top[m]}
  <2>6. G \in SUBSET Nat /\ G # {}
    <3>1. m \in G /\ G \subseteq F
      BY <2>5
    <3>2. 1 .. N \subseteq Nat
      BY <1>1
    <3> HIDE DEF G, N
    <3> QED BY <2>3, <3>1, <3>2
  <2>7. PICK i \in G : \A j \in G : i <= j
    BY <2>6, LeastOf
  <2>8. PICK a \in best(i) : a.score = top[i]
    BY <2>1, <2>7
  <2>9. wins(a, i)
    <3>1. SUFFICES ASSUME NEW j \in 1 .. N, NEW b \in best(j)
                   PROVE  b.score < a.score \/ (b.score = a.score /\ j >= i)
      BY <1>6
    <3>2. j \in F /\ b.score = top[j] /\ a.score = top[m]
      BY <2>2, <2>4, <2>7, <2>8
    <3>3. top[j] <= top[m] /\ top[j] \in Nat /\ top[m] \in Nat
      BY <2>1, <2>5, <3>2
    <3>4. top[j] = top[m] => i <= j
      BY <2>7, <3>2
    <3>5. i \in 1 .. N
      BY <2>3, <2>7
    <3> QED BY <3>2, <3>3, <3>4, <3>5
  <2> QED BY <1>4, <2>3, <2>7, <2>8, <2>9
<1>11. ASSUME NEW a \in winners
       PROVE  /\ a \in Finished(Q) /\ \A b \in Finished(Q) : b.score <= a.score
              /\ made > 0
  <2>1. PICK i \in 1 .. N : a \in best(i) /\ wins(a, i)
    BY <1>4
  <2>2. a \in fin(i)
    BY <1>2, <2>1
  <2>3. ASSUME NEW b \in Finished(Q) PROVE b.score <= a.score
    <3>1. PICK j \in 1 .. N : b \in fin(j)
      BY <1>3
    <3>2. PICK c \in best(j) : b.score <= c.score
      BY <1>8, <3>1
    <3>3. c.score < a.score \/ c.score = a.score
      BY <1>6, <2>1
    <3>4. b.score \in Nat /\ c.score \in Nat /\ a.score \in Nat
      BY <1>2, <2>2, <3>1
    <3> QED BY <3>2, <3>3, <3>4
  <2>4. made > 0
    BY <1>2, <1>7, <2>2
  <2> QED BY <1>3, <2>2, <2>3, <2>4
<1>12. ASSUME Finished(Q) # {} PROVE result # NoResult /\ Best(Q, result)
  <2>1. PICK a \in winners : /\ result.score = a.score /\ result.total = a.total
                             /\ result.attempts = made
    BY <1>5, <1>10, <1>12
  <2>2. NoResult.attempts = 0
    BY DEF NoResult
  <2>3. result.attempts > 0
    BY <1>11, <2>1
  <2> QED BY <1>11, <2>1, <2>2, <2>3 DEF Best
<1> QED BY <1>5, <1>9, <1>12

\* BestAttemptCounts.
LEMMA BestCounts ==
  ASSUME TestsInput(problem) PROVE BestAttemptCounts
<1>1. ASSUME Is("tests"), NEW t \in TestComparison(problem.pre, problem.post)
      PROVE  /\ t.compared <=> Finished(problem.pre) # {} /\ Finished(problem.post) # {}
             /\ t.compared => Best(problem.pre, t.preTest) /\ Best(problem.post, t.postTest)
  <2>1. PICK a \in buildTestResult(problem.pre), b \in buildTestResult(problem.post) :
          t = [preTest |-> a, postTest |-> b, compared |-> a # NoResult /\ b # NoResult,
               improvement |-> b.percent - a.percent]
    BY DEF TestComparison
  <2>2. t.preTest = a /\ t.postTest = b
    BY <2>1
  <2>3. t.compared <=> a # NoResult /\ b # NoResult
    BY <2>1
  <2>4. Quizzes(problem.pre) /\ Quizzes(problem.post)
    BY <1>1 DEF TestsInput, Is
  <2> QED BY <2>2, <2>3, <2>4, ResultIs
<1> QED BY <1>1 DEF BestAttemptCounts, Best, Finished

-----------------------------------------------------------------------------
(***************************************************************************)
(* What the behaviours keep to: a problem is one of Problems, or none has  *)
(* been taken up, and the limiter goes its own way.                        *)
(***************************************************************************)
Taken == problem \in Problems \cup {None}

\* Whatever is taken up is one of the problems.
THEOREM OnlyProblems == Spec => []Taken
<1>1. Init => Taken
  BY DEF Init, Taken
<1>2. ASSUME Taken, [Next]_vars PROVE Taken'
  <2>1. CASE TakeUp
    BY <2>1 DEF TakeUp, Taken
  <2>2. CASE UNCHANGED problem
    BY <1>2, <2>2 DEF Taken
  <2> QED BY <1>2, <2>1, <2>2 DEF Next, RunLimiter, vars
<1> QED BY <1>1, <1>2, PTL DEF Spec

\* So the problem is an input that the calculations are made for.
LEMMA InputOK ==
  ASSUME Taken
  PROVE  /\ DeckInput(problem) /\ ClozeInput(problem) /\ AyatInput(problem)
         /\ QuestionInput(problem) /\ QueueInput(problem) /\ RemindersInput(problem)
         /\ PagesInput(problem) /\ GoalInput(problem) /\ ProgressInput(problem)
         /\ WeakInput(problem) /\ TestsInput(problem)
<1>1. CASE problem \in Problems
  BY <1>1, ProblemsOK
<1>2. CASE problem = None
  <2>1. problem.kind = "none"
    BY <1>2 DEF None
  <2> QED BY <2>1 DEF DeckInput, ClozeInput, AyatInput, QuestionInput, QueueInput,
                      RemindersInput, PagesInput, GoalInput, ProgressInput, WeakInput,
                      TestsInput
<1> QED BY <1>1, <1>2 DEF Taken

\* The session that StartSession opens is within the limits of the user, and
\* serves what is due first.
LEMMA SessionServes ==
  ASSUME QueueInput(problem) PROVE QueueWithinLimits /\ DueServedFirst
<1> SUFFICES ASSUME Is("queue"), NEW user \in problem.users,
                    NEW s \in StartSession(problem.cards, 1, 1, user)
    PROVE  LET mine == In(problem.cards, 1)
               due == {c \in mine : c.state # New /\ c.due <= 1}
               fresh == {c \in mine : c.state = New}
               served == ToSet(s.cards)
           IN  /\ s.counts.new <= user.dailyNewLimit
               /\ s.counts.total <= user.dailyNewLimit + user.dailyReviewLimit
               /\ s.counts.total = s.counts.new + s.counts.learning + s.counts.review
               /\ \A i \in DOMAIN s.cards : s.cards[i].state # New =>
                     s.cards[i].due <= 1 /\ ~s.cards[i].suspended
               /\ \A c \in served, d \in due \ served : ~Before(d, c)
               /\ Cardinality(due) <= user.dailyReviewLimit =>
                     /\ due \subseteq served
                     /\ Cardinality(served \cap fresh) =
                           AtMost(user.dailyNewLimit, Cardinality(fresh))
  BY DEF QueueWithinLimits, DueServedFirst
<1>1. /\ IsFiniteSet(problem.cards)
      /\ \A c \in problem.cards : c.state \in 0 .. 3 /\ c.due \in Int
      /\ user.dailyNewLimit \in Nat /\ user.dailyReviewLimit \in Nat
  BY DEF QueueInput, Is
<1>2. PICK cards, nl, rl : /\ cards = problem.cards
                           /\ nl = user.dailyNewLimit /\ rl = user.dailyReviewLimit
  OBVIOUS
<1>3. PICK q \in GetDueCards(cards, 1, 1, nl, rl) :
        s = [cards |-> q, counts |-> countCards(q)]
  BY <1>2 DEF StartSession
<1>4. /\ s.cards = q /\ s.counts = countCards(q)
  BY <1>3
<1>5. /\ countCards(q).new = Having(q, {New}) /\ countCards(q).total = Len(q)
      /\ countCards(q).learning = Having(q, {Learning, Relearning})
      /\ countCards(q).review = Having(q, {Review})
  BY DEF countCards
<1>6. /\ IsFiniteSet(cards) /\ nl \in Nat /\ rl \in Nat
      /\ \A c \in cards : c.state \in 0 .. 3 /\ c.due \in Int
  BY <1>1, <1>2
<1>7. LET mine == In(cards, 1)
          due == {c \in mine : c.state # New /\ c.due <= 1}
          fresh == {c \in mine : c.state = New}
          served == ToSet(q)
      IN  /\ Having(q, {New}) <= nl
          /\ Len(q) <= nl + rl
          /\ Len(q) = Having(q, {New}) + Having(q, {Learning, Relearning})
                         + Having(q, {Review})
          /\ \A i \in DOMAIN q : q[i].state # New => q[i].due <= 1 /\ ~q[i].suspended
          /\ \A c \in served, d \in due \ served : ~Before(d, c)
          /\ Cardinality(due) <= rl =>
                /\ due \subseteq served
                /\ Cardinality(served \cap fresh) = AtMost(nl, Cardinality(fresh))
  BY <1>6, QueueServed
<1> QED BY <1>2, <1>4, <1>5, <1>7

\* RemindersAgree.
LEMMA RemindersRight ==
  ASSUME RemindersInput(problem) PROVE RemindersAgree
<1>1. ASSUME Is("reminders")
      PROVE  LET r == GetReminders(problem.cards, problem.decks, 1, 1)
                 stats(d) == DeckStats(problem.cards, d, 1)
             IN  /\ r.totalDue = SumFunction([d \in problem.decks |-> stats(d).due])
                 /\ \A s \in r.decks : s.new = stats(s.deck).new
                 /\ \A d \in problem.decks \ {s.deck : s \in r.decks} :
                       stats(d).new = 0 /\ stats(d).due = 0
                 /\ r.dueSoon > 0 <=> r.nextDueAt = 2
                 /\ \A d \in problem.decks :
                       stats(d).total = Cardinality(In(problem.cards, d))
  <2>1. /\ IsFiniteSet(problem.cards) /\ IsFiniteSet(problem.decks)
        /\ \A c \in problem.cards : c.state \in 0 .. 3 /\ c.due \in Int
    BY <1>1 DEF RemindersInput, Is
  <2> QED BY <2>1, RemindersTrue
<1> QED BY <1>1 DEF RemindersAgree

\* PagesCoverPlaces.
LEMMA PagesRight ==
  ASSUME PagesInput(problem) PROVE PagesCoverPlaces
<1>1. ASSUME Is("pages"), NEW filter \in problem.filters, NEW limit \in -1 .. MaxLimit + 1
      PROVE  CoversPlaces(problem.rows, filter, limit)
  <2>1. PICK R : R = problem.rows
    OBVIOUS
  <2>2. IsFiniteSet(R) /\ \A r \in R : r.position \in Int /\ r.created \in Int
    BY <1>1, <2>1 DEF PagesInput, Is
  <2>3. limit \in Int
    BY <1>1, PagingOK
  <2>4. CoversPlaces(R, filter, limit)
    BY <2>2, <2>3, PagingOK, PagesCover
  <2> QED BY <2>1, <2>4
<1> QED BY <1>1 DEF PagesCoverPlaces, CoversPlaces, WalkSees

\* Every question made from a deck is about another card, passes the validation
\* of authored questions and is answered by its own answer; a choice has one
\* right option (GenerateFromDeck).
THEOREM DeckQuestionsAreRight == Spec => []DeckQuestionsRight
<1>1. Taken => DeckQuestionsRight
  BY InputOK, EachCardAsked, OptionsAreFair, StatementsAreTrue DEF DeckQuestionsRight
<1> QED BY <1>1, OnlyProblems, PTL

\* Clozes, continuations, questions about a surat and orderings ask what they
\* say they ask, and are found where the deck has them (GenerateAyatQuiz).
THEOREM AyatQuestionsAreRight == Spec => []AyatQuestionsRight
<1>1. Taken => AyatQuestionsRight
  BY InputOK, GapsFilled, ContinuationsRight, SurahsRight, OrderingIsRight, QuizIsWhole
  DEF AyatQuestionsRight
<1> QED BY <1>1, OnlyProblems, PTL

\* A question of any type that the validation accepts is answered by its own
\* answer, unless it is an ordering stored with space around its answer, which
\* nothing answers (validateQuestionOptions, gradeAnswer).
THEOREM AcceptedCanBeAnswered == Spec => []AcceptedIsAnswerable
<1>1. Taken => AcceptedIsAnswerable
  BY InputOK, AnswersExist
<1> QED BY <1>1, OnlyProblems, PTL

\* A study session keeps to the limits of its user and puts off no card for one
\* that ranks after it; reminders and deck counts agree (GetDueCards,
\* GetReminders).
THEOREM DueCardsAreServed == Spec => []DueCardsServed
<1>1. Taken => DueCardsServed
  BY InputOK, SessionServes, RemindersRight DEF DueCardsServed
<1> QED BY <1>1, OnlyProblems, PTL

\* Whatever the limit asked for and in whatever order each query puts the rows of
\* one place, paging through a list ends, and of the rows of each place brings as
\* many as there are (pagination.NewParams, ListCardsByDeckID).
THEOREM PagesCoverEveryPlace == Spec => []PagesCoverPlaces
<1>1. Taken => PagesCoverPlaces
  BY InputOK, PagesRight
<1> QED BY <1>1, OnlyProblems, PTL

\* Goals are met when they say so, weak areas count cards and the result of a
\* test is that of its best attempt (ListWithProgress, WeakAreas, TestComparison).
THEOREM StatisticsAreTrue == Spec => []StatisticsTrue
<1>1. Taken => StatisticsTrue
  BY InputOK, RowsOK, GoalsReached, HundredIsMet, WeakAreasAreTrue, BestCounts
  DEF StatisticsTrue
<1> QED BY <1>1, OnlyProblems, PTL

-----------------------------------------------------------------------------
(***************************************************************************)
(* The limiter beside the calculations is the limiter: what is proved of   *)
(* it alone holds here.                                                    *)
(***************************************************************************)

\* No step of the calculations touches the limiter.
LEMMA LimiterRuns == Spec => LimiterSpec
<1>1. Init => LimiterInit
  BY DEF Init
<1>2. [Next]_vars => [LimiterNext]_limiterVars
  BY DEF Next, TakeUp, RunLimiter, vars
<1> QED BY <1>1, <1>2, PTL DEF Spec, LimiterSpec

\* No key is let through more often than Burst and its rate allow, however its
\* visitor is forgotten and made again (getVisitor, cleanup and Middleware).
THEOREM CallersKeepTheirBudget == Spec => []WithinBudget
BY LimiterRuns, BudgetKept, PTL

\* A request is turned away only when letting it through would break the budget
\* of a stretch that ends now (Middleware).
THEOREM CallersAreRefusedOverBudget == Spec => RefusedOverBudget
BY LimiterRuns, RefusalsAreDue, PTL
=============================================================================
