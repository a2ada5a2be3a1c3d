--------------------------- MODULE CalculationsMC ---------------------------
(* The inputs of the calculations for the model checker. *)
EXTENDS Calculations

W(l, c) == Word(l, c)
One(l, c, p) == [words |-> <<W(l, c)>>, pad |-> p]

Backs == {One("a", 0, FALSE), One("a", 1, FALSE), One("b", 0, FALSE), One("b", 0, TRUE),
          One("c", 0, FALSE)}
MCDecks ==
    {[kind |-> "deck", cards |-> [i \in 1 .. n |-> [front |-> One(f[i], 0, FALSE),
                                                    back |-> b[i]]]] :
        n \in {2}, f \in {<<"x", "y">>, <<"x", "x">>}, b \in [1 .. 2 -> Backs]} \cup
    {[kind |-> "deck", cards |-> [i \in 1 .. 4 |-> [front |-> One(f[i], 0, FALSE),
                                                    back |-> b[i]]]] :
        f \in {<<"w", "x", "y", "z">>}, b \in [1 .. 4 -> Backs]}

MCCloze == {[kind |-> "cloze", words |-> w] :
               w \in UNION {[1 .. n -> {W("a", 0), W("b", 0)}] : n \in 1 .. 6}}

Tag(k, v) == [kind |-> k, value |-> v]
S0 == One("s", 0, FALSE)
T0 == One("t", 0, FALSE)
T1 == One("t", 1, FALSE)
Places == <<<<S0, 1>>, <<S0, 2>>, <<S0, 3>>, <<S0, 4>>, <<S0, 5>>, <<S0, 6>>,
            <<T0, 1>>, <<T0, 2>>, <<T1, 1>>, <<NoSurat, 1>>>>
Rising(n, m) == {r \in [1 .. n -> 1 .. m] : \A i \in 1 .. n - 1 : r[i] <= r[i + 1]}
Mixed == <<3, 1, 5, 2, 4>>
Tagged(p) ==
    IF p[1] = NoSurat THEN <<Tag("other", 0), Tag("ayat", p[2])>>
    ELSE IF p[2] = 1 THEN <<Tag("ayat", p[2]), Tag("surat", p[1]), Tag("ayat", NoNumber)>>
    ELSE <<Tag("ayat", 9), Tag("surat", p[1]), Tag("ayat", p[2])>>
MCAyat == {[kind |-> "ayat",
            cards |-> [i \in 1 .. 5 |-> [id |-> i, front |-> One(i, 0, FALSE),
                                         tags |-> Tagged(Places[r[Mixed[i]]])]]] :
              r \in Rising(5, Len(Places))}

Answers == Backs \cup {True, False, [True EXCEPT !.pad = TRUE]}
Options == {Option(t, c) : t \in {One("a", 0, FALSE), One("a", 1, FALSE), One("b", 0, FALSE)},
                           c \in BOOLEAN}
MCQuestions ==
    {[kind |-> "question", type |-> t, options |-> o, answer |-> a, answers |-> Answers] :
        t \in ChoiceTypes, o \in UNION {[1 .. n -> Options] : n \in 0 .. 3},
        a \in {One("a", 0, FALSE), One("b", 0, FALSE), One("b", 0, TRUE)}}
    \cup
    {[kind |-> "question", type |-> t, options |-> o, answer |-> a, answers |-> Answers] :
        t \in QuestionTypes \ ChoiceTypes,
        o \in UNION {[1 .. n -> {One("a", 1, FALSE), One("b", 0, TRUE)}] : n \in 0 .. 1},
        a \in Answers}

Kinds == <<<<New, 0, FALSE>>, <<New, 2, FALSE>>, <<New, 0, TRUE>>,
           <<Learning, 1, FALSE>>, <<Relearning, 2, FALSE>>, <<Review, 0, FALSE>>,
           <<Review, 1, FALSE>>, <<Review, 2, FALSE>>, <<Review, 1, TRUE>>>>
CardOf(i, deck, k) == [id |-> i, deck |-> deck, state |-> k[1], due |-> k[2], suspended |-> k[3]]
MCUsers == {[dailyNewLimit |-> n, dailyReviewLimit |-> r] : n \in 0 .. 2, r \in 0 .. 2}
MCQueues == {[kind |-> "queue", users |-> MCUsers,
              cards |-> {CardOf(i, 1, Kinds[r[i]]) : i \in 1 .. 4}] :
                r \in Rising(4, Len(Kinds))}

MCReminders == {[kind |-> "reminders", decks |-> d,
                 cards |-> {CardOf(i, 1 + (r[i] % 2), Kinds[1 + (r[i] \div 2)]) : i \in 1 .. 3}] :
                   r \in {[i \in 1 .. 3 |-> s[i] - 1] : s \in Rising(3, 2 * Len(Kinds))},
                   d \in {{1}, {1, 2}}}

(* Cards made one by one, two batches, a clone of cards made one by one. *)
RowKinds == <<<<0, {"t"}, {}, {}>>, <<0, {"u"}, {"q"}, {}>>, <<1, {"t", "u"}, {"q"}, {"q"}>>>>
RowPlaces == {<<<<0, 1>>, <<0, 2>>, <<0, 3>>, <<0, 4>>, <<0, 5>>>>,
              <<<<0, 1>>, <<1, 1>>, <<0, 2>>, <<1, 2>>, <<0, 2>>>>,
              <<<<0, 9>>, <<0, 9>>, <<1, 9>>, <<0, 9>>, <<1, 9>>>>}
RowFilters == [state : {AnyState, 0}, tag : {AnyTag, "t"}, query : {AnyQuery, "q"}]
MCPages == {[kind |-> "pages", filters |-> RowFilters,
             rows |-> {[id |-> i, position |-> at[i][1], created |-> at[i][2],
                        state |-> RowKinds[k[i]][1], tags |-> RowKinds[k[i]][2],
                        front |-> RowKinds[k[i]][3], back |-> RowKinds[k[i]][4]] :
                          i \in 1 .. n}] :
               n \in 0 .. 5, at \in RowPlaces, k \in Rising(5, 3)}

ReviewKinds == <<<<32, 0, 45000>>, <<33, 2, 45000>>, <<39, 0, 90000>>, <<40, 0, 45000>>,
                 <<40, 2, 45000>>, <<40, 0, 90000>>, <<40, 2, 20000>>>>
MCGoals == {[kind |-> "goal", today |-> 40,
             reviews |-> {[id |-> i, day |-> ReviewKinds[r[i]][1], rating |-> 3,
                           state |-> ReviewKinds[r[i]][2], ms |-> ReviewKinds[r[i]][3]] :
                             i \in 1 .. n}] :
               n \in 0 .. 3, r \in Rising(3, Len(ReviewKinds))}

Targets == {1, 2, 3, 7, 60, 300, 5000, 9998, 9999}
MCProgress == {[kind |-> "progress", current |-> c, target |-> t] :
                  t \in Targets, c \in {0, 1, 2, 59, 299, 4999, 9997, 9998, 9999, 20000}}

MCMastery == {[kind |-> "mastery", mature |-> m, total |-> 4, stability |-> s,
               correct |-> c, reviews |-> 4] :
                 m \in 0 .. 4, s \in {0, 3, 15, 30, 60}, c \in 0 .. 4}

WeakKinds == <<<<3, 10, 4>>, <<4, 1, 6>>, <<0, 2, 1>>, <<0, 0, 0>>, <<0, 9, 2>>>>
MCWeak == {[kind |-> "weak",
            cards |-> {[id |-> i, lapses |-> WeakKinds[r[i]][1], stability |-> WeakKinds[r[i]][2],
                        reps |-> WeakKinds[r[i]][3], suspended |-> i = s, tags |-> t[i]] :
                          i \in 1 .. 4}] :
              r \in Rising(4, 5), s \in {0, 4},
              t \in {<<<<"u">>, <<"u", "v">>, <<"v">>, <<"u">>>>, <<<<"u">>, <<"v">>, << >>, <<"v">>>>,
                    <<<<"u", "u">>, <<"v">>, << >>, <<"v", "u">>>>}}

Attempts == {[score |-> s, total |-> 2, completed |-> c] : s \in 0 .. 2, c \in BOOLEAN}
QuizRuns == UNION {[1 .. n -> Attempts] : n \in 0 .. 2}
MCTests == {[kind |-> "tests", pre |-> <<q, r>>, post |-> <<p>>] :
               q \in QuizRuns, r \in UNION {[1 .. n -> Attempts] : n \in 0 .. 1},
               p \in UNION {[1 .. n -> Attempts] : n \in 0 .. 1}}

MCProblems == {Limiter} \cup MCDecks \cup MCCloze \cup MCAyat \cup MCQuestions \cup MCQueues
              \cup MCReminders \cup MCPages \cup MCGoals \cup MCProgress \cup MCMastery
              \cup MCWeak \cup MCTests
=============================================================================
