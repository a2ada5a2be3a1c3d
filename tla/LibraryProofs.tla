---------------------------- MODULE LibraryProofs ----------------------------
(***************************************************************************)
(* Decks, cards, quizzes and media, for any number of requests and rows:   *)
(* the statements keep what the tables declare (Inv1), the names that      *)
(* requests have drawn stay theirs (Inv2), and of requests that do not     *)
(* overlap each writes what it has read (Inv3).                            *)
(***************************************************************************)
EXTENDS Library, FiniteSetTheorems, TLAPS

(***************************************************************************)
(* The statements: what each returns, table by table.                      *)
(***************************************************************************)
GoneDeck == [life |-> "gone", owner |-> None, name |-> None, by |-> None]
GoneCard == CardRow("gone", None, None)
GoneQuiz == [life |-> "gone", owner |-> None, deck |-> None]
GoneQuestion == [life |-> "gone", quiz |-> None, card |-> None, position |-> 0, by |-> None]
GoneMedium == [life |-> "gone", owner |-> None, card |-> None]

\* The rows that deletions leave.
LEMMA BlankRows ==
  /\ [FreeDeck EXCEPT !.life = "gone"] = GoneDeck
  /\ [FreeQuiz EXCEPT !.life = "gone"] = GoneQuiz
  /\ [FreeQuestion EXCEPT !.life = "gone"] = GoneQuestion
  /\ [FreeMedium EXCEPT !.life = "gone"] = GoneMedium
<1>1. [FreeDeck EXCEPT !.life = "gone"] = GoneDeck
  BY DEF FreeDeck, GoneDeck
<1>2. [FreeQuiz EXCEPT !.life = "gone"] = GoneQuiz
  BY DEF FreeQuiz, GoneQuiz
<1>3. [FreeQuestion EXCEPT !.life = "gone"] = GoneQuestion
  BY DEF FreeQuestion, GoneQuestion
<1>4. [FreeMedium EXCEPT !.life = "gone"] = GoneMedium
  BY DEF FreeMedium, GoneMedium
<1> QED BY <1>1, <1>2, <1>3, <1>4

\* A card as inserts and deletions leave it.
LEMMA CardRowTyped ==
  ASSUME NEW life \in Life, NEW d \in Decks \cup {None}, NEW r \in Requests \cup {None}
  PROVE  /\ CardRow(life, d, r) \in Card
         /\ CardRow(life, d, r).life = life /\ CardRow(life, d, r).deck = d
         /\ CardRow(life, d, r).by = r /\ CardRow(life, d, r).fsrs = "new"
  BY DEF CardRow, Card, By

LEMMA RowsTyped ==
  /\ GoneDeck \in Deck /\ GoneCard \in Card /\ GoneQuiz \in Quiz
  /\ GoneQuestion \in Question /\ GoneMedium \in Medium
<1>1. GoneDeck \in Deck /\ GoneQuiz \in Quiz /\ GoneMedium \in Medium
  BY DEF GoneDeck, GoneQuiz, GoneMedium, Deck, Quiz, Medium, Life, By
<1>2. GoneQuestion \in Question
  BY DEF GoneQuestion, Question, Life, By
<1> QED BY <1>1, <1>2, CardRowTyped DEF GoneCard, Life

\* Nothing but the named tables differs.
LEMMA CreateDeckIs ==
  ASSUME NEW D \in Database, NEW d \in Decks, NEW u \in Users \cup {None},
         NEW n \in Names \cup {None}, NEW r \in Requests
  PROVE  LET E == CreateDeck(D, d, u, n, r) IN
         /\ E \in Database
         /\ E.decks = [D.decks EXCEPT ![d] = [life |-> "live", owner |-> u, name |-> n, by |-> r]]
         /\ E.cards = D.cards /\ E.quizzes = D.quizzes /\ E.questions = D.questions
         /\ E.media = D.media /\ E.shares = D.shares /\ E.values = D.values
  BY DEF CreateDeck, Database, Deck, Life, By

\* A share is added, or those of one deck go.
LEMMA SharesAre ==
  ASSUME NEW D \in Database, NEW d \in Decks, NEW code \in Requests \cup {Old}
  PROVE  /\ LET E == CreateShare(D, code, d) IN
            /\ E \in Database
            /\ E.shares = D.shares \cup {[code |-> code, deck |-> d]}
            /\ E.decks = D.decks /\ E.cards = D.cards /\ E.quizzes = D.quizzes
            /\ E.questions = D.questions /\ E.media = D.media /\ E.values = D.values
         /\ LET E == DeleteShare(D, d) IN
            /\ E \in Database
            /\ E.shares = {s \in D.shares : s.deck # d}
            /\ E.decks = D.decks /\ E.cards = D.cards /\ E.quizzes = D.quizzes
            /\ E.questions = D.questions /\ E.media = D.media /\ E.values = D.values
<1>1. [code |-> code, deck |-> d] \in Share
  BY DEF Share
<1>2. D.shares \cup {[code |-> code, deck |-> d]} \in SUBSET Share
  BY <1>1 DEF Database
<1>3. D.shares \ SharesOf(D, d) = {s \in D.shares : s.deck # d}
  BY DEF SharesOf
<1> QED BY <1>2, <1>3 DEF CreateShare, DeleteShare, Database

\* ON DELETE: the cards go, the questions and media about them stay without
\* one.
LEMMA DropCardsIs ==
  ASSUME NEW D \in Database, NEW S \in SUBSET Cards
  PROVE  LET E == DropCards(D, S) IN
         /\ E \in Database
         /\ E.decks = D.decks /\ E.quizzes = D.quizzes
         /\ E.shares = D.shares /\ E.values = D.values
         /\ \A c \in Cards : E.cards[c] = IF c \in S THEN GoneCard ELSE D.cards[c]
         /\ \A q \in Questions :
              /\ E.questions[q].life = D.questions[q].life
              /\ E.questions[q].quiz = D.questions[q].quiz
              /\ E.questions[q].position = D.questions[q].position
              /\ E.questions[q].by = D.questions[q].by
              /\ E.questions[q].card = IF D.questions[q].card \in S THEN None
                                                                   ELSE D.questions[q].card
         /\ \A m \in Media :
              /\ E.media[m].life = D.media[m].life
              /\ E.media[m].card = IF D.media[m].card \in S THEN None ELSE D.media[m].card
<1> DEFINE E == DropCards(D, S)
<1>1. /\ E = [D EXCEPT !.cards = E.cards, !.questions = E.questions, !.media = E.media]
      /\ E.decks = D.decks /\ E.quizzes = D.quizzes
      /\ E.shares = D.shares /\ E.values = D.values
  BY DEF DropCards, Database
<1>2. E.cards = [c \in Cards |-> IF c \in S THEN GoneCard ELSE D.cards[c]]
  BY DEF DropCards, Database, GoneCard
<1>3. E.questions = [q \in Questions |->
         IF D.questions[q].card \in S THEN [D.questions[q] EXCEPT !.card = None]
                                      ELSE D.questions[q]]
  BY DEF DropCards, Database
<1>4. E.media = [m \in Media |-> IF D.media[m].card \in S
                                   THEN [D.media[m] EXCEPT !.card = None] ELSE D.media[m]]
  BY DEF DropCards, Database
<1>5. D.cards \in [Cards -> Card] /\ D.questions \in [Questions -> Question]
      /\ D.media \in [Media -> Medium]
  BY DEF Database
<1> HIDE DEF E
<1>6. E.cards \in [Cards -> Card]
  BY <1>2, <1>5, RowsTyped
<1>7. ASSUME NEW q \in Questions
      PROVE  /\ E.questions[q] \in Question
             /\ E.questions[q].life = D.questions[q].life
             /\ E.questions[q].quiz = D.questions[q].quiz
             /\ E.questions[q].position = D.questions[q].position
             /\ E.questions[q].by = D.questions[q].by
             /\ E.questions[q].card = IF D.questions[q].card \in S THEN None
                                                                  ELSE D.questions[q].card
  <2>1. PICK f \in Question : f = D.questions[q]
    BY <1>5
  <2>2. PICK g : g = E.questions[q]
    OBVIOUS
  <2>3. g = IF f.card \in S THEN [f EXCEPT !.card = None] ELSE f
    BY <1>3, <2>1, <2>2
  <2>4. /\ g.life = f.life /\ g.quiz = f.quiz /\ g.position = f.position /\ g.by = f.by
        /\ g.card = IF f.card \in S THEN None ELSE f.card
        /\ g \in Question
    BY <2>3 DEF Question
  <2> QED BY <2>1, <2>2, <2>4
<1>8. ASSUME NEW m \in Media
      PROVE  /\ E.media[m] \in Medium
             /\ E.media[m].life = D.media[m].life
             /\ E.media[m].card = IF D.media[m].card \in S THEN None ELSE D.media[m].card
  <2>1. PICK f \in Medium : f = D.media[m]
    BY <1>5
  <2>2. PICK g : g = E.media[m]
    OBVIOUS
  <2>3. g = IF f.card \in S THEN [f EXCEPT !.card = None] ELSE f
    BY <1>4, <2>1, <2>2
  <2>4. g.life = f.life /\ g.card = (IF f.card \in S THEN None ELSE f.card) /\ g \in Medium
    BY <2>3 DEF Medium
  <2> QED BY <2>1, <2>2, <2>4
<1>9. E.questions \in [Questions -> Question] /\ E.media \in [Media -> Medium]
  BY <1>3, <1>4, <1>7, <1>8
<1>10. E \in Database
  BY <1>1, <1>6, <1>9 DEF Database
<1>11. \A c \in Cards : E.cards[c] = IF c \in S THEN GoneCard ELSE D.cards[c]
  BY <1>2
<1> QED BY <1>1, <1>7, <1>8, <1>10, <1>11 DEF E

\* The questions go, and nothing else changes.
LEMMA DropQuestionsIs ==
  ASSUME NEW D \in Database, NEW S \in SUBSET Questions
  PROVE  LET E == DropQuestions(D, S) IN
         /\ E \in Database
         /\ E.questions = [q \in Questions |-> IF q \in S THEN GoneQuestion ELSE D.questions[q]]
         /\ E.decks = D.decks /\ E.cards = D.cards /\ E.quizzes = D.quizzes
         /\ E.media = D.media /\ E.shares = D.shares /\ E.values = D.values
<1> DEFINE E == DropQuestions(D, S)
<1>1. /\ E = [D EXCEPT !.questions = E.questions]
      /\ E.questions = [q \in Questions |-> IF q \in S THEN [FreeQuestion EXCEPT !.life = "gone"]
                                                       ELSE D.questions[q]]
      /\ E.decks = D.decks /\ E.cards = D.cards /\ E.quizzes = D.quizzes
      /\ E.media = D.media /\ E.shares = D.shares /\ E.values = D.values
  BY DEF DropQuestions, Database
<1> HIDE DEF E
<1>2. E.questions = [q \in Questions |-> IF q \in S THEN GoneQuestion ELSE D.questions[q]]
  BY <1>1, BlankRows
<1>3. E.questions \in [Questions -> Question]
  <2>1. D.questions \in [Questions -> Question]
    BY DEF Database
  <2> QED BY <1>2, <2>1, RowsTyped
<1>4. E \in Database
  BY <1>1, <1>3 DEF Database
<1> QED BY <1>1, <1>2, <1>4 DEF E

\* A deck goes with its shares and cards; its quizzes stay without one.
LEMMA DeleteDeckIs ==
  ASSUME NEW D \in Database, NEW d \in Decks,
         NEW E, E = DeleteDeck(D, d), NEW S, S = CardsOf(D, d)
  PROVE  /\ E \in Database
         /\ E.values = D.values /\ E.shares = {s \in D.shares : s.deck # d}
         /\ \A e \in Decks : E.decks[e] = IF e = d THEN GoneDeck ELSE D.decks[e]
         /\ \A z \in Quizzes :
              /\ E.quizzes[z].life = D.quizzes[z].life
              /\ E.quizzes[z].deck = IF D.quizzes[z].deck = d THEN None ELSE D.quizzes[z].deck
         /\ \A c \in Cards : E.cards[c] = IF c \in S THEN GoneCard ELSE D.cards[c]
         /\ \A q \in Questions :
              /\ E.questions[q].life = D.questions[q].life
              /\ E.questions[q].quiz = D.questions[q].quiz
              /\ E.questions[q].position = D.questions[q].position
              /\ E.questions[q].by = D.questions[q].by
              /\ E.questions[q].card = IF D.questions[q].card \in S THEN None
                                                                   ELSE D.questions[q].card
         /\ \A m \in Media :
              /\ E.media[m].life = D.media[m].life
              /\ E.media[m].card = IF D.media[m].card \in S THEN None ELSE D.media[m].card
<1> DEFINE A == DeleteShare(D, d)
           B == DropCards(A, S)
<1>1. S \in SUBSET Cards
  BY DEF CardsOf, LiveCards
<1>2. /\ A \in Database /\ A.shares = {s \in D.shares : s.deck # d}
      /\ A.decks = D.decks /\ A.cards = D.cards /\ A.quizzes = D.quizzes
      /\ A.questions = D.questions /\ A.media = D.media /\ A.values = D.values
  BY SharesAre
<1>3. E = [B EXCEPT !.decks[d] = [FreeDeck EXCEPT !.life = "gone"],
                    !.quizzes = [z \in Quizzes |-> IF B.quizzes[z].deck = d
                                   THEN [B.quizzes[z] EXCEPT !.deck = None] ELSE B.quizzes[z]]]
  BY DEF DeleteDeck
<1> HIDE DEF A
<1>4. /\ B \in Database
      /\ B.decks = D.decks /\ B.quizzes = D.quizzes
      /\ B.shares = A.shares /\ B.values = D.values
      /\ \A c \in Cards : B.cards[c] = IF c \in S THEN GoneCard ELSE D.cards[c]
      /\ \A q \in Questions :
              /\ B.questions[q].life = D.questions[q].life
              /\ B.questions[q].quiz = D.questions[q].quiz
              /\ B.questions[q].position = D.questions[q].position
              /\ B.questions[q].by = D.questions[q].by
              /\ B.questions[q].card = IF D.questions[q].card \in S THEN None
                                                                   ELSE D.questions[q].card
      /\ \A m \in Media :
              /\ B.media[m].life = D.media[m].life
              /\ B.media[m].card = IF D.media[m].card \in S THEN None ELSE D.media[m].card
  BY <1>1, <1>2, DropCardsIs
<1> HIDE DEF B
<1>5. /\ E.decks = [D.decks EXCEPT ![d] = GoneDeck]
      /\ E.quizzes = [z \in Quizzes |-> IF D.quizzes[z].deck = d
                       THEN [D.quizzes[z] EXCEPT !.deck = None] ELSE D.quizzes[z]]
      /\ E.values = B.values /\ E.shares = B.shares /\ E.cards = B.cards
      /\ E.questions = B.questions /\ E.media = B.media
  BY <1>3, <1>4, BlankRows, SMTT(60) DEF Database
<1>6. E = [B EXCEPT !.decks = E.decks, !.quizzes = E.quizzes]
  BY <1>3, <1>4 DEF Database
<1>7. /\ E.decks \in [Decks -> Deck]
      /\ \A e \in Decks : E.decks[e] = IF e = d THEN GoneDeck ELSE D.decks[e]
  BY <1>5, RowsTyped DEF Database
<1>8. \A z \in Quizzes : D.quizzes[z] \in Quiz /\ [D.quizzes[z] EXCEPT !.deck = None] \in Quiz
  BY DEF Database, Quiz
<1>9. /\ E.quizzes \in [Quizzes -> Quiz]
      /\ \A z \in Quizzes :
              /\ E.quizzes[z].life = D.quizzes[z].life
              /\ E.quizzes[z].deck = IF D.quizzes[z].deck = d THEN None ELSE D.quizzes[z].deck
  BY <1>5, <1>8 DEF Quiz
<1>10. E \in Database
  BY <1>4, <1>6, <1>7, <1>9 DEF Database
<1> QED BY <1>2, <1>4, <1>5, <1>7, <1>9, <1>10

\* A card is inserted.
LEMMA CreateCardIs ==
  ASSUME NEW D \in Database, NEW c \in Cards, NEW d \in Decks, NEW r \in Requests,
         NEW E, E = CreateCard(D, c, d, r)
  PROVE  /\ E \in Database
         /\ \A e \in Cards : E.cards[e] = IF e = c THEN CardRow("live", d, r) ELSE D.cards[e]
         /\ E.decks = D.decks /\ E.quizzes = D.quizzes /\ E.questions = D.questions
         /\ E.media = D.media /\ E.shares = D.shares /\ E.values = D.values
<1>1. CardRow("live", d, r) \in Card
  BY CardRowTyped DEF Life
<1>2. /\ E.cards = [D.cards EXCEPT ![c] = CardRow("live", d, r)]
      /\ E.decks = D.decks /\ E.quizzes = D.quizzes /\ E.questions = D.questions
      /\ E.media = D.media /\ E.shares = D.shares /\ E.values = D.values
  BY DEF CreateCard, Database
<1>3. D.cards \in [Cards -> Card]
  BY DEF Database
<1>4. E \in Database
  BY <1>1 DEF CreateCard, Database
<1> QED BY <1>2, <1>3, <1>4

\* A batch of cards has the card.
Carries(made, c) == \E i \in DOMAIN made : made[i] = c

\* A batch of cards is inserted.
LEMMA CreateCardsIs ==
  ASSUME NEW D \in Database, NEW made, NEW d \in Decks, NEW r \in Requests,
         NEW E, E = CreateCards(D, made, d, r)
  PROVE  /\ E \in Database
         /\ \A c \in Cards : E.cards[c] = IF Carries(made, c) THEN CardRow("live", d, r)
                                                              ELSE D.cards[c]
         /\ E.decks = D.decks /\ E.quizzes = D.quizzes /\ E.questions = D.questions
         /\ E.media = D.media /\ E.shares = D.shares /\ E.values = D.values
<1>1. CardRow("live", d, r) \in Card
  BY CardRowTyped DEF Life
<1>2. /\ E = [D EXCEPT !.cards = E.cards]
      /\ E.cards = [c \in Cards |-> IF Carries(made, c) THEN CardRow("live", d, r)
                                                       ELSE D.cards[c]]
      /\ E.decks = D.decks /\ E.quizzes = D.quizzes /\ E.questions = D.questions
      /\ E.media = D.media /\ E.shares = D.shares /\ E.values = D.values
  BY DEF CreateCards, Database, Carries
<1>3. D.cards \in [Cards -> Card]
  BY DEF Database
<1>4. E.cards \in [Cards -> Card]
  BY <1>1, <1>2, <1>3
<1>5. E \in Database
  BY <1>2, <1>4 DEF Database
<1> QED BY <1>2, <1>5

\* Suspending and resetting leave whose card it is and whether it is there.
LEMMA SuspendedIs ==
  ASSUME NEW D \in Database, NEW c \in Cards, NEW on \in BOOLEAN, NEW E, E = SetSuspended(D, c, on)
  PROVE  /\ E \in Database
         /\ \A e \in Cards : /\ E.cards[e].life = D.cards[e].life
                             /\ E.cards[e].deck = D.cards[e].deck
                             /\ E.cards[e].by = D.cards[e].by
                             /\ E.cards[e].fsrs = D.cards[e].fsrs
                             /\ e # c => E.cards[e] = D.cards[e]
         /\ E.decks = D.decks /\ E.quizzes = D.quizzes /\ E.questions = D.questions
         /\ E.media = D.media /\ E.shares = D.shares /\ E.values = D.values
<1> DEFINE row == [D.cards[c] EXCEPT !.suspended = on]
<1>1. D.cards \in [Cards -> Card] /\ D.cards[c] \in Card
  BY DEF Database
<1>2. CASE E = D
  BY <1>2, <1>1
<1>3. CASE E = [D EXCEPT !.cards[c].suspended = on]
  <2>1. /\ row \in Card /\ row.life = D.cards[c].life /\ row.deck = D.cards[c].deck
        /\ row.by = D.cards[c].by /\ row.fsrs = D.cards[c].fsrs
    BY <1>1 DEF Card
  <2>2. E = [D EXCEPT !.cards = [D.cards EXCEPT ![c] = row]]
    BY <1>3
  <2> HIDE DEF row
  <2>3. /\ E.cards = [D.cards EXCEPT ![c] = row]
        /\ E.decks = D.decks /\ E.quizzes = D.quizzes /\ E.questions = D.questions
        /\ E.media = D.media /\ E.shares = D.shares /\ E.values = D.values
    BY <2>2 DEF Database
  <2>4. E \in Database
    BY <2>1, <2>2 DEF Database
  <2>5. \A e \in Cards : E.cards[e] = IF e = c THEN row ELSE D.cards[e]
    BY <1>1, <2>3
  <2> QED BY <2>1, <2>3, <2>4, <2>5
<1> QED BY <1>2, <1>3 DEF SetSuspended

\* The same of the FSRS state.
LEMMA ResetIs ==
  ASSUME NEW D \in Database, NEW c \in Cards, NEW E, E = ResetFSRS(D, c)
  PROVE  /\ E \in Database
         /\ \A e \in Cards : /\ E.cards[e].life = D.cards[e].life
                             /\ E.cards[e].deck = D.cards[e].deck
                             /\ E.cards[e].by = D.cards[e].by
                             /\ E.cards[e].suspended = D.cards[e].suspended
                             /\ e # c => E.cards[e] = D.cards[e]
         /\ E.decks = D.decks /\ E.quizzes = D.quizzes /\ E.questions = D.questions
         /\ E.media = D.media /\ E.shares = D.shares /\ E.values = D.values
<1> DEFINE row == [D.cards[c] EXCEPT !.fsrs = "new"]
<1>1. D.cards \in [Cards -> Card] /\ D.cards[c] \in Card
  BY DEF Database
<1>2. CASE E = D
  BY <1>2, <1>1
<1>3. CASE E = [D EXCEPT !.cards[c].fsrs = "new"]
  <2>1. /\ row \in Card /\ row.life = D.cards[c].life /\ row.deck = D.cards[c].deck
        /\ row.by = D.cards[c].by /\ row.suspended = D.cards[c].suspended
    BY <1>1 DEF Card
  <2>2. E = [D EXCEPT !.cards = [D.cards EXCEPT ![c] = row]]
    BY <1>3
  <2> HIDE DEF row
  <2>3. /\ E.cards = [D.cards EXCEPT ![c] = row]
        /\ E.decks = D.decks /\ E.quizzes = D.quizzes /\ E.questions = D.questions
        /\ E.media = D.media /\ E.shares = D.shares /\ E.values = D.values
    BY <2>2 DEF Database
  <2>4. E \in Database
    BY <2>1, <2>2 DEF Database
  <2>5. \A e \in Cards : E.cards[e] = IF e = c THEN row ELSE D.cards[e]
    BY <1>1, <2>3
  <2> QED BY <2>1, <2>3, <2>4, <2>5
<1> QED BY <1>2, <1>3 DEF ResetFSRS

\* The copies that a clone makes.
Image(f, S) == {f[x] : x \in S}

\* Copies of cards, with their content and without their progress.
LEMMA CopyCardsIs ==
  ASSUME NEW D \in Database, NEW S \in SUBSET Cards, NEW copies \in [S -> Cards],
         NEW d \in Decks, NEW r \in Requests, NEW E, E = CopyCards(D, copies, d, r),
         NEW new, new = Image(copies, S)
  PROVE  /\ E \in Database
         /\ \A c \in Cards : E.cards[c] = IF c \in new THEN CardRow("live", d, r) ELSE D.cards[c]
         /\ \A x \in Rows \ new : E.values[x] = D.values[x]
         /\ E.decks = D.decks /\ E.quizzes = D.quizzes /\ E.questions = D.questions
         /\ E.media = D.media /\ E.shares = D.shares
<1> DEFINE source(c) == CHOOSE x \in S : copies[x] = c
<1>1. CardRow("live", d, r) \in Card
  BY CardRowTyped DEF Life
<1>2. DOMAIN copies = S
  OBVIOUS
<1>3. /\ E = [D EXCEPT !.cards = E.cards, !.values = E.values]
      /\ E.cards = [c \in Cards |-> IF c \in new THEN CardRow("live", d, r) ELSE D.cards[c]]
      /\ E.values = [x \in Rows |-> IF x \in new THEN D.values[source(x)] ELSE D.values[x]]
      /\ E.decks = D.decks /\ E.quizzes = D.quizzes /\ E.questions = D.questions
      /\ E.media = D.media /\ E.shares = D.shares
  BY <1>2 DEF CopyCards, Database, Image
<1>4. \A x \in new : source(x) \in Rows
  <2> SUFFICES ASSUME NEW x \in new PROVE source(x) \in Rows
    OBVIOUS
  <2>1. \E y \in S : copies[y] = x
    BY DEF Image
  <2>2. source(x) \in S
    BY <2>1
  <2> QED BY <2>2 DEF Rows
<1> HIDE DEF source
<1>5. E.cards \in [Cards -> Card]
  <2>1. D.cards \in [Cards -> Card]
    BY DEF Database
  <2> QED BY <1>1, <1>3, <2>1
<1>6. E.values \in [Rows -> Values]
  <2>1. D.values \in [Rows -> Values]
    BY DEF Database
  <2> QED BY <1>3, <1>4, <2>1
<1>7. E \in Database
  BY <1>3, <1>5, <1>6 DEF Database
<1> QED BY <1>3, <1>7

LEMMA CreateQuizIs ==
  ASSUME NEW D \in Database, NEW z \in Quizzes, NEW u \in Users \cup {None},
         NEW d \in Decks \cup {None}, NEW E, E = CreateQuiz(D, z, u, d)
  PROVE  /\ E \in Database
         /\ \A y \in Quizzes : E.quizzes[y] = IF y = z
              THEN [life |-> "live", owner |-> u, deck |-> d] ELSE D.quizzes[y]
         /\ E.decks = D.decks /\ E.cards = D.cards /\ E.questions = D.questions
         /\ E.media = D.media /\ E.shares = D.shares /\ E.values = D.values
<1>1. [life |-> "live", owner |-> u, deck |-> d] \in Quiz
  BY DEF Quiz, Life
<1>2. D.quizzes \in [Quizzes -> Quiz]
  BY DEF Database
<1> QED BY <1>1, <1>2 DEF CreateQuiz, Database

\* A quiz goes with its questions.
LEMMA DeleteQuizIs ==
  ASSUME NEW D \in Database, NEW z \in Quizzes, NEW E, E = DeleteQuiz(D, z)
  PROVE  /\ E \in Database
         /\ \A y \in Quizzes : E.quizzes[y] = IF y = z THEN GoneQuiz ELSE D.quizzes[y]
         /\ \A q \in Questions : E.questions[q] =
              IF q \in QuestionsOf(D, z) THEN GoneQuestion ELSE D.questions[q]
         /\ E.decks = D.decks /\ E.cards = D.cards
         /\ E.media = D.media /\ E.shares = D.shares /\ E.values = D.values
<1> DEFINE S == QuestionsOf(D, z)
           B == DropQuestions(D, S)
<1>1. S \in SUBSET Questions
  BY DEF QuestionsOf, LiveQuestions
<1>2. E = [B EXCEPT !.quizzes[z] = [FreeQuiz EXCEPT !.life = "gone"]]
  BY DEF DeleteQuiz
<1> HIDE DEF S
<1>3. /\ B \in Database
      /\ B.questions = [q \in Questions |-> IF q \in S THEN GoneQuestion ELSE D.questions[q]]
      /\ B.decks = D.decks /\ B.cards = D.cards /\ B.quizzes = D.quizzes
      /\ B.media = D.media /\ B.shares = D.shares /\ B.values = D.values
  BY <1>1, DropQuestionsIs
<1> HIDE DEF B
<1>4. E = [B EXCEPT !.quizzes[z] = GoneQuiz]
  BY <1>2, BlankRows
<1>5. /\ E.quizzes = [D.quizzes EXCEPT ![z] = GoneQuiz]
      /\ E.questions = B.questions
      /\ E.decks = D.decks /\ E.cards = D.cards
      /\ E.media = D.media /\ E.shares = D.shares /\ E.values = D.values
  BY <1>3, <1>4 DEF Database
<1>6. E \in Database
  BY <1>3, <1>4, RowsTyped DEF Database
<1>7. \A y \in Quizzes : E.quizzes[y] = IF y = z THEN GoneQuiz ELSE D.quizzes[y]
  BY <1>5 DEF Database
<1> QED BY <1>3, <1>5, <1>6, <1>7 DEF S

\* The i-th question of a batch.
QuestionRow(made, z, from, i, r) ==
  [life |-> "live", quiz |-> z, card |-> made[i][2], position |-> from + i - 1, by |-> r]

\* Questions are appended, each with the position of its place in the batch.
LEMMA BulkCreateIs ==
  ASSUME NEW D \in Database, NEW made \in Seq(Questions \X (Cards \cup {None})),
         NEW z \in Quizzes, NEW from \in Nat, NEW r \in Requests,
         NEW E, E = BulkCreateQuestions(D, made, z, from, r)
  PROVE  /\ E \in Database
         /\ \A q \in Questions :
              \/ \E i \in DOMAIN made : /\ made[i][1] = q
                                        /\ E.questions[q] = QuestionRow(made, z, from, i, r)
              \/ /\ E.questions[q] = D.questions[q]
                 /\ \A i \in DOMAIN made : made[i][1] # q
         /\ E.decks = D.decks /\ E.cards = D.cards /\ E.quizzes = D.quizzes
         /\ E.media = D.media /\ E.shares = D.shares /\ E.values = D.values
<1> DEFINE at(q) == CHOOSE j \in DOMAIN made : made[j][1] = q
           row(i) == QuestionRow(made, z, from, i, r)
<1>1. /\ E = [D EXCEPT !.questions = E.questions]
      /\ E.questions = [q \in Questions |-> IF \E i \in DOMAIN made : made[i][1] = q
                                              THEN row(at(q)) ELSE D.questions[q]]
      /\ E.decks = D.decks /\ E.cards = D.cards /\ E.quizzes = D.quizzes
      /\ E.media = D.media /\ E.shares = D.shares /\ E.values = D.values
  BY DEF BulkCreateQuestions, Database, QuestionRow
<1>2. \A q \in Questions : (\E i \in DOMAIN made : made[i][1] = q)
                              => at(q) \in DOMAIN made /\ made[at(q)][1] = q
  OBVIOUS
<1>3. ASSUME NEW i \in DOMAIN made PROVE row(i) \in Question
  <2>1. i \in Nat /\ i > 0 /\ made[i][2] \in Cards \cup {None}
    OBVIOUS
  <2>2. from + i - 1 \in Nat
    BY <2>1
  <2> QED BY <2>1, <2>2 DEF Question, Life, By, QuestionRow
<1> HIDE DEF at, row
<1>4. E.questions \in [Questions -> Question]
  <2>1. D.questions \in [Questions -> Question]
    BY DEF Database
  <2> QED BY <1>1, <1>2, <1>3, <2>1
<1>5. E \in Database
  BY <1>1, <1>4 DEF Database
<1>6. \A q \in Questions :
        \/ \E i \in DOMAIN made : made[i][1] = q /\ E.questions[q] = row(i)
        \/ E.questions[q] = D.questions[q] /\ \A i \in DOMAIN made : made[i][1] # q
  BY <1>1, <1>2
<1> QED BY <1>1, <1>5, <1>6 DEF row

\* A row of media is inserted, or goes.
LEMMA MediaAre ==
  ASSUME NEW D \in Database, NEW m \in Media, NEW u \in Users \cup {None},
         NEW c \in Cards, NEW E, NEW row,
         \/ E = CreateMedium(D, m, u, c) /\ row = [life |-> "live", owner |-> u, card |-> c]
         \/ E = DeleteMedium(D, m) /\ row = GoneMedium
  PROVE  /\ E \in Database
         /\ \A n \in Media : E.media[n] = IF n = m THEN row ELSE D.media[n]
         /\ E.decks = D.decks /\ E.cards = D.cards /\ E.quizzes = D.quizzes
         /\ E.questions = D.questions /\ E.shares = D.shares /\ E.values = D.values
<1>1. row \in Medium
  BY RowsTyped DEF Medium, Life
<1>2. E = [D EXCEPT !.media[m] = row]
  BY BlankRows DEF CreateMedium, DeleteMedium
<1>3. D.media \in [Media -> Medium]
  BY DEF Database
<1> QED BY <1>1, <1>2, <1>3 DEF Database

\* COALESCE, column by column.
LEMMA CoalescedIs ==
  ASSUME NEW old \in Values, NEW new \in Values
  PROVE  /\ Coalesced(old, new) \in Values
         /\ Coalesced(old, new)["plain"] = new["plain"]
         /\ Coalesced(old, new)["nullable"] =
              IF new["nullable"] = None THEN old["nullable"] ELSE new["nullable"]
  BY DEF Coalesced, Values, Columns

\* A whole-row update writes one row: what it was given, or that with the
\* old value for a column that was given as NULL.
LEMMA UpdatesAre ==
  ASSUME NEW D \in Database, NEW x \in Rows, NEW new \in Values, NEW E,
         \/ E = [D EXCEPT !.values[x] = new]
         \/ E = [D EXCEPT !.values[x] = Coalesced(D.values[x], new)]
  PROVE  /\ E \in Database
         /\ \A y \in Rows : y # x => E.values[y] = D.values[y]
         /\ \/ E.values[x] = new
            \/ E.values[x] = Coalesced(D.values[x], new)
         /\ E.decks = D.decks /\ E.cards = D.cards /\ E.quizzes = D.quizzes
         /\ E.questions = D.questions /\ E.media = D.media /\ E.shares = D.shares
<1>1. D.values \in [Rows -> Values]
  BY DEF Database
<1>2. Coalesced(D.values[x], new) \in Values
  BY <1>1, CoalescedIs
<1> QED BY <1>1, <1>2 DEF Database

(***************************************************************************)
(* What the declarations of the tables ask of a database.                  *)
(***************************************************************************)
Refers(D) ==
  /\ \A c \in LiveCards(D) : D.cards[c].deck \in LiveDecks(D)
  /\ \A s \in D.shares : s.deck \in LiveDecks(D)
  /\ \A z \in LiveQuizzes(D) : D.quizzes[z].deck \in LiveDecks(D) \cup {None}
  /\ \A q \in LiveQuestions(D) : /\ D.questions[q].quiz \in LiveQuizzes(D)
                                 /\ D.questions[q].card \in LiveCards(D) \cup {None}
  /\ \A m \in LiveMedia(D) : D.media[m].card \in LiveCards(D) \cup {None}
Named(D, u, n) == {d \in LiveDecks(D) : D.decks[d].owner = u /\ D.decks[d].name = n}
NamesDistinct(D) ==
  \A d, e \in LiveDecks(D) :
    D.decks[d].owner = D.decks[e].owner /\ D.decks[d].name = D.decks[e].name => d = e
Sound(D) == D \in Database /\ Refers(D) /\ NamesDistinct(D)

\* The rows that a transaction can hold: what stands, whatever its table.
Standing(D) == LiveDecks(D) \cup LiveCards(D) \cup LiveQuizzes(D)

\* Membership in the sets of rows that stand.
LEMMA Lives ==
  ASSUME NEW D
  PROVE  /\ \A x : x \in LiveDecks(D) <=> x \in Decks /\ D.decks[x].life = "live"
         /\ \A x : x \in LiveCards(D) <=> x \in Cards /\ D.cards[x].life = "live"
         /\ \A x : x \in LiveQuizzes(D) <=> x \in Quizzes /\ D.quizzes[x].life = "live"
         /\ \A x : x \in LiveQuestions(D) <=> x \in Questions /\ D.questions[x].life = "live"
         /\ \A x : x \in LiveMedia(D) <=> x \in Media /\ D.media[x].life = "live"
  BY DEF LiveDecks, LiveCards, LiveQuizzes, LiveQuestions, LiveMedia

\* A statement that writes values, progress or suspension.
LEMMA ContentSound ==
  ASSUME NEW D, Sound(D), NEW E \in Database, E.decks = D.decks, E.quizzes = D.quizzes,
         E.questions = D.questions, E.media = D.media, E.shares = D.shares,
         \A c \in Cards : E.cards[c].life = D.cards[c].life /\ E.cards[c].deck = D.cards[c].deck
  PROVE  Sound(E) /\ Standing(E) = Standing(D)
<1>1. /\ LiveDecks(E) = LiveDecks(D) /\ LiveCards(E) = LiveCards(D)
      /\ LiveQuizzes(E) = LiveQuizzes(D) /\ LiveQuestions(E) = LiveQuestions(D)
      /\ LiveMedia(E) = LiveMedia(D)
  BY Lives DEF LiveDecks, LiveCards, LiveQuizzes, LiveQuestions, LiveMedia
<1>2. \A c \in LiveCards(D) : E.cards[c].deck = D.cards[c].deck
  BY Lives
<1> QED BY <1>1, <1>2 DEF Sound, Refers, NamesDistinct, Standing

\* A statement on shares, which refer to decks that stand.
LEMMA SharesSound ==
  ASSUME NEW D, Sound(D), NEW E \in Database, E.decks = D.decks, E.quizzes = D.quizzes,
         E.questions = D.questions, E.media = D.media, E.cards = D.cards,
         \A s \in E.shares : s \in D.shares \/ s.deck \in LiveDecks(D)
  PROVE  Sound(E) /\ Standing(E) = Standing(D)
<1>1. /\ LiveDecks(E) = LiveDecks(D) /\ LiveCards(E) = LiveCards(D)
      /\ LiveQuizzes(E) = LiveQuizzes(D) /\ LiveQuestions(E) = LiveQuestions(D)
      /\ LiveMedia(E) = LiveMedia(D)
  BY DEF LiveDecks, LiveCards, LiveQuizzes, LiveQuestions, LiveMedia
<1> QED BY <1>1 DEF Sound, Refers, NamesDistinct, Standing

\* New cards of a deck that stands.
LEMMA CardsSound ==
  ASSUME NEW D, Sound(D), NEW E \in Database, E.decks = D.decks, E.quizzes = D.quizzes,
         E.questions = D.questions, E.media = D.media, E.shares = D.shares,
         NEW d \in LiveDecks(D), NEW r \in Requests,
         \A c \in Cards : E.cards[c] = D.cards[c] \/ E.cards[c] = CardRow("live", d, r)
  PROVE  Sound(E) /\ Standing(D) \subseteq Standing(E)
<1>1. /\ LiveDecks(E) = LiveDecks(D)
      /\ LiveQuizzes(E) = LiveQuizzes(D) /\ LiveQuestions(E) = LiveQuestions(D)
      /\ LiveMedia(E) = LiveMedia(D)
  BY DEF LiveDecks, LiveQuizzes, LiveQuestions, LiveMedia
<1>2. CardRow("live", d, r).life = "live" /\ CardRow("live", d, r).deck = d
  <2>1. d \in Decks \cup {None} /\ r \in Requests \cup {None} /\ "live" \in Life
    BY DEF LiveDecks, Life
  <2> QED BY <2>1, CardRowTyped
<1>3. LiveCards(D) \subseteq LiveCards(E)
  BY <1>2, Lives
<1>4. \A c \in LiveCards(E) : E.cards[c].deck = d \/ (c \in LiveCards(D) /\ E.cards[c] = D.cards[c])
  BY <1>2, Lives
<1>5. \A c \in LiveCards(E) : E.cards[c].deck \in LiveDecks(E)
  BY <1>1, <1>4 DEF Sound, Refers
<1> QED BY <1>1, <1>3, <1>5 DEF Sound, Refers, NamesDistinct, Standing

\* A new deck of a name that its owner has not used.
LEMMA DeckSound ==
  ASSUME NEW D, Sound(D), NEW d \in Decks, NEW u \in Users \cup {None},
         NEW n \in Names \cup {None}, NEW r \in Requests, NEW E, E = CreateDeck(D, d, u, n, r),
         Named(D, u, n) = {}
  PROVE  /\ Sound(E) /\ Standing(D) \subseteq Standing(E)
         /\ LiveDecks(E) = LiveDecks(D) \cup {d}
         /\ E.decks[d].owner = u /\ E.decks[d].name = n /\ E.decks[d].by = r
         /\ \A e \in Decks : e # d => E.decks[e] = D.decks[e]
<1>1. D \in Database
  BY DEF Sound
<1>2. /\ E \in Database
      /\ E.decks = [D.decks EXCEPT ![d] = [life |-> "live", owner |-> u, name |-> n, by |-> r]]
      /\ E.cards = D.cards /\ E.quizzes = D.quizzes /\ E.questions = D.questions
      /\ E.media = D.media /\ E.shares = D.shares /\ E.values = D.values
  BY <1>1, CreateDeckIs
<1>3. /\ E.decks[d].owner = u /\ E.decks[d].name = n /\ E.decks[d].by = r
      /\ E.decks[d].life = "live"
      /\ \A e \in Decks : e # d => E.decks[e] = D.decks[e]
  BY <1>1, <1>2 DEF Database
<1>4. LiveDecks(E) = LiveDecks(D) \cup {d}
  BY <1>3, Lives
<1>5. /\ LiveCards(E) = LiveCards(D)
      /\ LiveQuizzes(E) = LiveQuizzes(D) /\ LiveQuestions(E) = LiveQuestions(D)
      /\ LiveMedia(E) = LiveMedia(D)
  BY <1>2 DEF LiveCards, LiveQuizzes, LiveQuestions, LiveMedia
<1>6. Refers(E)
  BY <1>2, <1>4, <1>5 DEF Sound, Refers
<1>7. NamesDistinct(E)
  <2> SUFFICES ASSUME NEW a \in LiveDecks(E), NEW b \in LiveDecks(E),
                      E.decks[a].owner = E.decks[b].owner, E.decks[a].name = E.decks[b].name
               PROVE  a = b
    BY DEF NamesDistinct
  <2>1. \A x \in LiveDecks(D) : ~(D.decks[x].owner = u /\ D.decks[x].name = n)
    BY DEF Named
  <2>2. a \in Decks /\ b \in Decks
    BY Lives
  <2>3. CASE a # d /\ b # d
    BY <1>3, <1>4, <2>2, <2>3 DEF Sound, NamesDistinct
  <2>4. CASE a = d /\ b # d
    BY <1>3, <1>4, <2>1, <2>2, <2>4
  <2>5. CASE a # d /\ b = d
    BY <1>3, <1>4, <2>1, <2>2, <2>5
  <2> QED BY <2>3, <2>4, <2>5
<1>8. Standing(D) \subseteq Standing(E)
  BY <1>4, <1>5 DEF Standing
<1> QED BY <1>2, <1>3, <1>4, <1>6, <1>7, <1>8 DEF Sound

\* Cards go: the questions and recordings of them stay, and let go of them.
LEMMA CardGoneSound ==
  ASSUME NEW D, Sound(D), NEW c \in Cards, NEW E, E = DeleteCard(D, c)
  PROVE  /\ Sound(E) /\ Standing(D) \ {c} \subseteq Standing(E) /\ E.decks = D.decks
         /\ E.values = D.values
<1>1. /\ E \in Database
      /\ E.decks = D.decks /\ E.quizzes = D.quizzes
      /\ E.shares = D.shares /\ E.values = D.values
      /\ \A x \in Cards : E.cards[x] = IF x \in {c} THEN GoneCard ELSE D.cards[x]
      /\ \A q \in Questions :
           /\ E.questions[q].life = D.questions[q].life
           /\ E.questions[q].quiz = D.questions[q].quiz
           /\ E.questions[q].card = IF D.questions[q].card \in {c} THEN None
                                                                ELSE D.questions[q].card
      /\ \A m \in Media :
           /\ E.media[m].life = D.media[m].life
           /\ E.media[m].card = IF D.media[m].card \in {c} THEN None ELSE D.media[m].card
  <2>1. D \in Database /\ {c} \in SUBSET Cards /\ E = DropCards(D, {c})
    BY DEF Sound, DeleteCard
  <2> QED BY <2>1, DropCardsIs
<1>2. GoneCard.life = "gone"
  <2>1. None \in Decks \cup {None} /\ None \in Requests \cup {None} /\ "gone" \in Life
    BY DEF Life
  <2> QED BY <2>1, CardRowTyped DEF GoneCard
<1>3. LiveDecks(E) = LiveDecks(D) /\ LiveQuizzes(E) = LiveQuizzes(D)
  BY <1>1 DEF LiveDecks, LiveQuizzes
<1>4. LiveCards(E) = LiveCards(D) \ {c}
  BY <1>1, <1>2, Lives
<1>5. \A x \in LiveCards(E) : E.cards[x] = D.cards[x]
  BY <1>1, <1>4, Lives
<1>6. LiveQuestions(E) = LiveQuestions(D) /\ LiveMedia(E) = LiveMedia(D)
  BY <1>1 DEF LiveQuestions, LiveMedia
<1>7. \A q \in LiveQuestions(E) : /\ E.questions[q].quiz \in LiveQuizzes(E)
                                  /\ E.questions[q].card \in LiveCards(E) \cup {None}
  BY <1>1, <1>3, <1>4, <1>6, Lives DEF Sound, Refers
<1>8. \A m \in LiveMedia(E) : E.media[m].card \in LiveCards(E) \cup {None}
  BY <1>1, <1>3, <1>4, <1>6, Lives DEF Sound, Refers
<1>9. Refers(E)
  BY <1>1, <1>3, <1>4, <1>5, <1>7, <1>8 DEF Sound, Refers
<1> QED BY <1>1, <1>3, <1>4, <1>9 DEF Sound, NamesDistinct, Standing

\* A deck that goes with all that refers to it.
LEMMA DeckGoneSound ==
  ASSUME NEW D, Sound(D), NEW d \in Decks, NEW E, E = DeleteDeck(D, d)
  PROVE  /\ Sound(E) /\ Standing(D) \ ({d} \cup CardsOf(D, d)) \subseteq Standing(E)
         /\ LiveDecks(E) = LiveDecks(D) \ {d}
         /\ \A e \in Decks : e # d => E.decks[e] = D.decks[e]
         /\ E.values = D.values
<1> DEFINE S == CardsOf(D, d)
<1>1. \A c : c \in S <=> c \in LiveCards(D) /\ D.cards[c].deck = d
  BY DEF CardsOf
<1> HIDE DEF S
<1>2. /\ E \in Database
      /\ E.values = D.values /\ E.shares = {s \in D.shares : s.deck # d}
      /\ \A e \in Decks : E.decks[e] = IF e = d THEN GoneDeck ELSE D.decks[e]
      /\ \A z \in Quizzes :
           /\ E.quizzes[z].life = D.quizzes[z].life
           /\ E.quizzes[z].deck = IF D.quizzes[z].deck = d THEN None ELSE D.quizzes[z].deck
      /\ \A c \in Cards : E.cards[c] = IF c \in S THEN GoneCard ELSE D.cards[c]
      /\ \A q \in Questions :
           /\ E.questions[q].life = D.questions[q].life
           /\ E.questions[q].quiz = D.questions[q].quiz
           /\ E.questions[q].card = IF D.questions[q].card \in S THEN None
                                                             ELSE D.questions[q].card
      /\ \A m \in Media :
           /\ E.media[m].life = D.media[m].life
           /\ E.media[m].card = IF D.media[m].card \in S THEN None ELSE D.media[m].card
  <2>1. D \in Database /\ S = CardsOf(D, d)
    BY DEF Sound, S
  <2> QED BY <2>1, DeleteDeckIs
<1>3. GoneCard.life = "gone" /\ GoneDeck.life = "gone"
  <2>1. None \in Decks \cup {None} /\ None \in Requests \cup {None} /\ "gone" \in Life
    BY DEF Life
  <2>2. GoneDeck.life = "gone"
    BY DEF GoneDeck
  <2> QED BY <2>1, <2>2, CardRowTyped DEF GoneCard
<1>4. LiveDecks(E) = LiveDecks(D) \ {d}
  BY <1>2, <1>3, Lives
<1>5. LiveCards(E) = LiveCards(D) \ S
  BY <1>2, <1>3, Lives
<1>6. /\ LiveQuizzes(E) = LiveQuizzes(D) /\ LiveQuestions(E) = LiveQuestions(D)
      /\ LiveMedia(E) = LiveMedia(D)
  BY <1>2 DEF LiveQuizzes, LiveQuestions, LiveMedia
<1>7. \A c \in LiveCards(E) : E.cards[c].deck \in LiveDecks(E)
  BY <1>1, <1>2, <1>4, <1>5, Lives DEF Sound, Refers
<1>8. \A s \in E.shares : s.deck \in LiveDecks(E)
  BY <1>2, <1>4 DEF Sound, Refers
<1>9. \A z \in LiveQuizzes(E) : E.quizzes[z].deck \in LiveDecks(E) \cup {None}
  BY <1>2, <1>4, <1>6, Lives DEF Sound, Refers
<1>10. \A q \in LiveQuestions(E) : /\ E.questions[q].quiz \in LiveQuizzes(E)
                                   /\ E.questions[q].card \in LiveCards(E) \cup {None}
  BY <1>2, <1>5, <1>6, Lives DEF Sound, Refers
<1>11. \A m \in LiveMedia(E) : E.media[m].card \in LiveCards(E) \cup {None}
  BY <1>2, <1>5, <1>6, Lives DEF Sound, Refers
<1>12. NamesDistinct(E)
  BY <1>2, <1>4, Lives DEF Sound, NamesDistinct
<1>13. Standing(D) \ ({d} \cup S) \subseteq Standing(E)
  BY <1>4, <1>5, <1>6 DEF Standing
<1> QED BY <1>2, <1>4, <1>7, <1>8, <1>9, <1>10, <1>11, <1>12, <1>13 DEF Sound, Refers, S

\* A new quiz, of a deck that stands or of none.
LEMMA QuizSound ==
  ASSUME NEW D, Sound(D), NEW z \in Quizzes, NEW u \in Users \cup {None},
         NEW d \in LiveDecks(D) \cup {None}, NEW E, E = CreateQuiz(D, z, u, d)
  PROVE  Sound(E) /\ Standing(D) \subseteq Standing(E) /\ E.decks = D.decks /\ E.values = D.values
<1>1. /\ E \in Database
      /\ \A y \in Quizzes : E.quizzes[y] = IF y = z
           THEN [life |-> "live", owner |-> u, deck |-> d] ELSE D.quizzes[y]
      /\ E.decks = D.decks /\ E.cards = D.cards /\ E.questions = D.questions
      /\ E.media = D.media /\ E.shares = D.shares /\ E.values = D.values
  <2>1. D \in Database /\ d \in Decks \cup {None}
    BY Lives DEF Sound
  <2> QED BY <2>1, CreateQuizIs
<1>2. E.quizzes[z].life = "live" /\ E.quizzes[z].deck = d
  BY <1>1
<1>3. LiveQuizzes(E) = LiveQuizzes(D) \cup {z}
  BY <1>1, <1>2, Lives
<1>4. /\ LiveDecks(E) = LiveDecks(D) /\ LiveCards(E) = LiveCards(D)
      /\ LiveQuestions(E) = LiveQuestions(D) /\ LiveMedia(E) = LiveMedia(D)
  BY <1>1 DEF LiveDecks, LiveCards, LiveQuestions, LiveMedia
<1>5. \A y \in LiveQuizzes(E) : E.quizzes[y].deck \in LiveDecks(E) \cup {None}
  BY <1>1, <1>2, <1>3, <1>4, Lives DEF Sound, Refers
<1>6. Refers(E)
  BY <1>1, <1>3, <1>4, <1>5 DEF Sound, Refers
<1> QED BY <1>1, <1>3, <1>4, <1>6 DEF Sound, NamesDistinct, Standing

\* A quiz that goes with its questions.
LEMMA QuizGoneSound ==
  ASSUME NEW D, Sound(D), NEW z \in Quizzes, NEW E, E = DeleteQuiz(D, z)
  PROVE  /\ Sound(E) /\ Standing(D) \ {z} \subseteq Standing(E) /\ E.decks = D.decks
         /\ E.values = D.values
<1>1. /\ E \in Database
      /\ \A y \in Quizzes : E.quizzes[y] = IF y = z THEN GoneQuiz ELSE D.quizzes[y]
      /\ \A q \in Questions : E.questions[q] =
           IF q \in QuestionsOf(D, z) THEN GoneQuestion ELSE D.questions[q]
      /\ E.decks = D.decks /\ E.cards = D.cards
      /\ E.media = D.media /\ E.shares = D.shares /\ E.values = D.values
  BY DeleteQuizIs DEF Sound
<1>2. GoneQuiz.life = "gone" /\ GoneQuestion.life = "gone"
  BY DEF GoneQuiz, GoneQuestion
<1>3. LiveQuizzes(E) = LiveQuizzes(D) \ {z}
  BY <1>1, <1>2, Lives
<1>4. LiveQuestions(E) = LiveQuestions(D) \ QuestionsOf(D, z)
  BY <1>1, <1>2, Lives
<1>5. /\ LiveDecks(E) = LiveDecks(D) /\ LiveCards(E) = LiveCards(D)
      /\ LiveMedia(E) = LiveMedia(D)
  BY <1>1 DEF LiveDecks, LiveCards, LiveMedia
<1>6. \A q \in LiveQuestions(E) : E.questions[q] = D.questions[q] /\ D.questions[q].quiz # z
  BY <1>1, <1>4, Lives DEF QuestionsOf
<1>7. Refers(E)
  BY <1>1, <1>3, <1>4, <1>5, <1>6, Lives DEF Sound, Refers
<1> QED BY <1>1, <1>3, <1>5, <1>7 DEF Sound, NamesDistinct, Standing

\* A question that goes.
LEMMA QuestionGoneSound ==
  ASSUME NEW D, Sound(D), NEW q \in Questions, NEW E, E = DeleteQuestion(D, q)
  PROVE  Sound(E) /\ Standing(D) \subseteq Standing(E) /\ E.decks = D.decks /\ E.values = D.values
<1>1. /\ E \in Database
      /\ E.questions = [x \in Questions |-> IF x \in {q} THEN GoneQuestion ELSE D.questions[x]]
      /\ E.decks = D.decks /\ E.cards = D.cards /\ E.quizzes = D.quizzes
      /\ E.media = D.media /\ E.shares = D.shares /\ E.values = D.values
  <2>1. D \in Database /\ {q} \in SUBSET Questions /\ E = DropQuestions(D, {q})
    BY DEF Sound, DeleteQuestion
  <2> QED BY <2>1, DropQuestionsIs
<1>2. GoneQuestion.life = "gone"
  BY DEF GoneQuestion
<1>3. LiveQuestions(E) \subseteq LiveQuestions(D)
  BY <1>1, <1>2, Lives
<1>4. /\ LiveDecks(E) = LiveDecks(D) /\ LiveCards(E) = LiveCards(D)
      /\ LiveQuizzes(E) = LiveQuizzes(D) /\ LiveMedia(E) = LiveMedia(D)
  BY <1>1 DEF LiveDecks, LiveCards, LiveQuizzes, LiveMedia
<1>5. \A x \in LiveQuestions(E) : E.questions[x] = D.questions[x]
  BY <1>1, <1>2, Lives
<1>6. Refers(E)
  BY <1>1, <1>3, <1>4, <1>5 DEF Sound, Refers
<1> QED BY <1>1, <1>4, <1>6 DEF Sound, NamesDistinct, Standing

\* New questions of a quiz that stands, about cards that stand.
LEMMA QuestionsSound ==
  ASSUME NEW D, Sound(D), NEW made \in Seq(Questions \X (Cards \cup {None})),
         NEW z \in Quizzes, NEW from \in Nat, NEW r \in Requests,
         NEW E, E = BulkCreateQuestions(D, made, z, from, r),
         made # <<>> => z \in LiveQuizzes(D),
         \A i \in DOMAIN made : made[i][2] \in LiveCards(D) \cup {None}
  PROVE  Sound(E) /\ Standing(D) \subseteq Standing(E) /\ E.decks = D.decks /\ E.values = D.values
<1>1. /\ E \in Database
      /\ \A q \in Questions :
           \/ \E i \in DOMAIN made : /\ made[i][1] = q
                                     /\ E.questions[q] = QuestionRow(made, z, from, i, r)
           \/ /\ E.questions[q] = D.questions[q]
              /\ \A i \in DOMAIN made : made[i][1] # q
      /\ E.decks = D.decks /\ E.cards = D.cards /\ E.quizzes = D.quizzes
      /\ E.media = D.media /\ E.shares = D.shares /\ E.values = D.values
  <2>1. D \in Database
    BY DEF Sound
  <2> QED BY <2>1, BulkCreateIs
<1>2. /\ LiveDecks(E) = LiveDecks(D) /\ LiveCards(E) = LiveCards(D)
      /\ LiveQuizzes(E) = LiveQuizzes(D) /\ LiveMedia(E) = LiveMedia(D)
  BY <1>1 DEF LiveDecks, LiveCards, LiveQuizzes, LiveMedia
<1>3. ASSUME NEW q \in LiveQuestions(E)
      PROVE  /\ E.questions[q].quiz \in LiveQuizzes(E)
             /\ E.questions[q].card \in LiveCards(E) \cup {None}
  <2>1. q \in Questions
    BY Lives
  <2>2. ASSUME NEW i \in DOMAIN made, E.questions[q] = QuestionRow(made, z, from, i, r)
        PROVE  /\ E.questions[q].quiz \in LiveQuizzes(E)
               /\ E.questions[q].card \in LiveCards(E) \cup {None}
    <3>1. E.questions[q].quiz = z /\ E.questions[q].card = made[i][2]
      BY <2>2 DEF QuestionRow
    <3>2. made # <<>>
      OBVIOUS
    <3> QED BY <1>2, <3>1, <3>2
  <2>3. CASE E.questions[q] = D.questions[q]
    <3>1. q \in LiveQuestions(D)
      BY <2>3, Lives
    <3> QED BY <1>2, <2>3, <3>1 DEF Sound, Refers
  <2> QED BY <1>1, <2>1, <2>2, <2>3
<1>4. Refers(E)
  BY <1>1, <1>2, <1>3 DEF Sound, Refers
<1> QED BY <1>1, <1>2, <1>4 DEF Sound, NamesDistinct, Standing

\* A row of media that is inserted for a card that stands, or goes.
LEMMA MediaSound ==
  ASSUME NEW D, Sound(D), NEW m \in Media, NEW u \in Users \cup {None}, NEW c \in Cards, NEW E,
         \/ E = CreateMedium(D, m, u, c) /\ c \in LiveCards(D)
         \/ E = DeleteMedium(D, m)
  PROVE  Sound(E) /\ Standing(D) \subseteq Standing(E) /\ E.decks = D.decks /\ E.values = D.values
<1>1. PICK row :
        /\ \/ /\ E = CreateMedium(D, m, u, c) /\ row = [life |-> "live", owner |-> u, card |-> c]
              /\ c \in LiveCards(D)
           \/ E = DeleteMedium(D, m) /\ row = GoneMedium
  OBVIOUS
<1>2. /\ E \in Database
      /\ \A n \in Media : E.media[n] = IF n = m THEN row ELSE D.media[n]
      /\ E.decks = D.decks /\ E.cards = D.cards /\ E.quizzes = D.quizzes
      /\ E.questions = D.questions /\ E.shares = D.shares /\ E.values = D.values
  BY <1>1, MediaAre DEF Sound
<1>3. row.life = "live" => row.card \in LiveCards(D)
  BY <1>1 DEF GoneMedium
<1>4. /\ LiveDecks(E) = LiveDecks(D) /\ LiveCards(E) = LiveCards(D)
      /\ LiveQuizzes(E) = LiveQuizzes(D) /\ LiveQuestions(E) = LiveQuestions(D)
  BY <1>2 DEF LiveDecks, LiveCards, LiveQuizzes, LiveQuestions
<1>5. \A n \in LiveMedia(E) : E.media[n].card \in LiveCards(E) \cup {None}
  <2> SUFFICES ASSUME NEW n \in LiveMedia(E) PROVE E.media[n].card \in LiveCards(E) \cup {None}
    OBVIOUS
  <2>1. n \in Media /\ E.media[n].life = "live"
    BY Lives
  <2>2. CASE n = m
    BY <1>2, <1>3, <1>4, <2>1, <2>2
  <2>3. CASE n # m
    <3>1. E.media[n] = D.media[n] /\ n \in LiveMedia(D)
      BY <1>2, <2>1, <2>3, Lives
    <3> QED BY <1>4, <3>1 DEF Sound, Refers
  <2> QED BY <2>2, <2>3
<1>6. Refers(E)
  BY <1>2, <1>4, <1>5 DEF Sound, Refers
<1> QED BY <1>2, <1>4, <1>6 DEF Sound, NamesDistinct, Standing

Pairs == Questions \X (Cards \cup {None})

(***************************************************************************)
(* What a request is about at each of its steps.                           *)
(***************************************************************************)
Shaped(q) ==
  /\ q \in Request
  /\ q.pc = "write" => q.row \in Rows
  /\ q.pc = "delete" => q.row \in Decks \cup Cards \cup Quizzes \cup Questions
  /\ q.pc \in {"suspend", "resetFSRS", "upload", "insertMedia", "cleanup"} => q.row \in Cards
  /\ q.pc \in {"cloneDeck", "cloneCards", "dropShare", "insertShare", "unshare"} => q.row \in Decks
  /\ q.pc \in {"cloneDeck", "cloneCards"} => q.op = "clone"
  /\ q.pc \in {"insertDeck", "create"} => q.row \in Decks \cup {None}
  /\ q.pc = "insertDeck" => q.row = None
  /\ q.pc = "create" /\ q.op = "create" => q.row \in Decks
  /\ q.pc = "count" => q.row \in Quizzes /\ q.op # "import"
  /\ q.pc = "item" =>
       \/ q.row \in Quizzes /\ q.op # "import" /\ q.new = None /\ q.made \in Seq(Pairs)
       \/ q.row \in Decks /\ q.op # "import" /\ q.new = None /\ q.made \in Seq(Cards)
       \/ q.row = None /\ q.op = "import" /\ q.new \in Decks /\ q.made \in Seq(Cards)
  /\ q.pc = "cloneCards" => q.new \in Decks
  /\ q.pc \in {"insertMedia", "cleanup"} => q.new \in Media
  /\ q.pc \in {"dropObject", "dropRow"} => q.row \in Media
  /\ q.pc \notin {"item", "cloneCards", "insertMedia", "cleanup"} => q.new = None
  /\ q.pc # "item" => q.made = <<>>

\* The steps that a request may begin with.
Entries == {"done", "write", "delete", "suspend", "resetFSRS", "insertDeck", "cloneDeck",
            "dropShare", "unshare", "create", "item", "count", "upload", "dropObject"}

\* A request as its handler admits it: it has read, and inserted nothing.
Admitted(r, q) ==
  /\ Shaped(q) /\ q.pc \in Entries /\ q.made = <<>> /\ q.new = None
  /\ q.pc = "item" => q.row \in Decks
  /\ q.pc = "dropObject" => q.row \in LiveMedia(db)
  /\ q.pc = "write" =>
       \A c \in Columns : q.read[c] = IF c \in q.cols THEN r ELSE db.values[q.row][c]
Answered(r) == \E q : Admitted(r, q) /\ Start(r, q)

\* A request before it arrives, and after its handler has returned.
LEMMA NewIs ==
  /\ NewRequest \in Request /\ NewRequest.pc = "new" /\ NewRequest.row = None
  /\ NewRequest.new = None /\ NewRequest.made = <<>> /\ NewRequest.op = "none"
  BY DEF NewRequest, Request, Ops, Blank, Values

LEMMA DoneIs ==
  /\ Done \in Request /\ Done.pc = "done" /\ Done.row = None
  /\ Done.new = None /\ Done.made = <<>>
  BY NewIs DEF Done, Request

LEMMA DoneShaped ==
  Shaped(Done) /\ \A r : Admitted(r, Done)
<1>1. Shaped(Done)
  BY DoneIs DEF Shaped
<1> QED BY <1>1, DoneIs DEF Admitted, Entries

\* The tables share no name, so that a row exists where it belongs.
LEMMA ExistsIn ==
  ASSUME NEW x, Exists(x)
  PROVE  /\ x \in Decks => x \in LiveDecks(db)
         /\ x \in Cards => x \in LiveCards(db)
         /\ x \in Quizzes => x \in LiveQuizzes(db)
         /\ x \in Questions => x \in LiveQuestions(db)
         /\ x \in Media => x \in LiveMedia(db)
<1>1. \/ x \in Users
      \/ x \in Decks /\ x \in LiveDecks(db)
      \/ x \in Cards /\ x \in LiveCards(db)
      \/ x \in Quizzes /\ x \in LiveQuizzes(db)
      \/ x \in Questions /\ x \in LiveQuestions(db)
      \/ x \in Media /\ x \in LiveMedia(db)
  BY Lives DEF Exists
<1>2. x \in Users => x \notin Decks \cup Cards \cup Quizzes \cup Questions \cup Media
  BY UuidsOK
<1>3. x \in Decks => x \notin Users \cup Cards \cup Quizzes \cup Questions \cup Media
  BY UuidsOK
<1>4. x \in Cards => x \notin Users \cup Decks \cup Quizzes \cup Questions \cup Media
  BY UuidsOK
<1>5. x \in Quizzes => x \notin Users \cup Decks \cup Cards \cup Questions \cup Media
  BY UuidsOK
<1>6. x \in Questions => x \notin Users \cup Decks \cup Cards \cup Quizzes \cup Media
  BY UuidsOK
<1>7. x \in Media => x \notin Users \cup Decks \cup Cards \cup Quizzes \cup Questions
  BY UuidsOK
<1> QED BY <1>1, <1>2, <1>3, <1>4, <1>5, <1>6, <1>7

\* A request with nothing in hand, by the step it begins with.
LEMMA Admits ==
  ASSUME NEW q \in Request, NEW r, q.new = None, q.made = <<>>,
         \/ q.pc = "delete" /\ q.row \in Decks \cup Cards \cup Quizzes \cup Questions
         \/ q.pc \in {"suspend", "resetFSRS", "upload"} /\ q.row \in Cards
         \/ q.pc = "cloneDeck" /\ q.row \in Decks /\ q.op = "clone"
         \/ q.pc \in {"dropShare", "unshare"} /\ q.row \in Decks
         \/ q.pc = "insertDeck" /\ q.row = None
         \/ q.pc = "create" /\ q.row \in Decks
         \/ q.pc = "create" /\ q.row \in Decks \cup {None} /\ q.op = "add"
         \/ q.pc = "count" /\ q.row \in Quizzes /\ q.op # "import"
         \/ q.pc = "item" /\ q.row \in Decks /\ q.op # "import"
         \/ q.pc = "dropObject" /\ q.row \in LiveMedia(db)
  PROVE  Admitted(r, q)
<1>1. q.made \in Seq(Cards)
  OBVIOUS
<1>2. q.row \in LiveMedia(db) => q.row \in Media
  BY Lives
<1>3. Shaped(q)
  BY <1>1, <1>2 DEF Shaped
<1> QED BY <1>3 DEF Admitted, Entries

\* The handlers' common beginning admits what they ask it to.
LEMMA OwningAdmits ==
  ASSUME NEW r, NEW u, NEW x, NEW new, Owning(r, u, x, new), Exists(x) => Admitted(r, new)
  PROVE  Answered(r)
  BY DoneShaped DEF Owning, Answered

\* Handlers that name one row.
LEMMA RowAdmits ==
  ASSUME NEW r, NEW u, NEW pc \in Steps, NEW op \in Ops, NEW x \in Rows \cup Media,
         Owning(r, u, x, [NewRequest EXCEPT !.pc = pc, !.op = op, !.row = x]),
         \/ pc = "delete" /\ x \in Decks \cup Cards \cup Quizzes \cup Questions
         \/ pc = "resetFSRS" /\ x \in Cards
         \/ pc \in {"dropShare", "unshare"} /\ x \in Decks
         \/ pc = "create" /\ x \in Decks
         \/ pc = "count" /\ x \in Quizzes /\ op # "import"
         \/ pc = "item" /\ x \in Decks /\ op # "import"
         \/ pc = "dropObject" /\ x \in Media
  PROVE  Answered(r)
<1>q. PICK q : q = [NewRequest EXCEPT !.pc = pc, !.op = op, !.row = x]
  OBVIOUS
<1>1. /\ q \in Request /\ q.pc = pc /\ q.op = op /\ q.row = x /\ q.new = None
      /\ q.made = <<>>
  BY <1>q, NewIs DEF Request
<1>2. Exists(x) => (x \in Media => x \in LiveMedia(db))
  BY ExistsIn
<1>3. Exists(x) => Admitted(r, q)
  BY <1>1, <1>2, Admits
<1>4. Owning(r, u, x, q)
  BY <1>q
<1> QED BY <1>3, <1>4, OwningAdmits

\* The handlers of edits, which read the row they will write.
LEMMA EditAdmits ==
  ASSUME db \in Database, NEW r \in Requests, NEW u, NEW x \in Rows, Edit(r, u, x)
  PROVE  Answered(r)
<1>1. PICK cols \in SUBSET Columns :
        Owning(r, u, x, [NewRequest EXCEPT
          !.pc = "write", !.op = "update", !.row = x, !.cols = cols,
          !.read = [c \in Columns |-> IF c \in cols THEN r ELSE db.values[x][c]]])
  BY DEF Edit
<1> DEFINE read == [c \in Columns |-> IF c \in cols THEN r ELSE db.values[x][c]]
<1>2. read \in Values
  BY DEF Database, Values
<1>3. \A c \in Columns : read[c] = IF c \in cols THEN r ELSE db.values[x][c]
  OBVIOUS
<1> HIDE DEF read
<1>q. PICK q : q = [NewRequest EXCEPT !.pc = "write", !.op = "update", !.row = x, !.cols = cols,
                                      !.read = read]
  OBVIOUS
<1>4. /\ q \in Request /\ q.pc = "write" /\ q.op = "update" /\ q.row = x /\ q.new = None
      /\ q.made = <<>> /\ q.cols = cols /\ q.read = read
  BY <1>q, <1>2, NewIs, ZenonT(60) DEF Request, Steps, Ops, Rows
<1>5. Owning(r, u, x, q)
  BY <1>1, <1>q DEF read
<1>6. Shaped(q)
  BY <1>4 DEF Shaped
<1>7. Admitted(r, q)
  BY <1>3, <1>4, <1>6 DEF Admitted, Entries
<1> QED BY <1>5, <1>7, OwningAdmits

\* The other handlers, one by one.
LEMMA RestAdmits ==
  ASSUME db \in Database, NEW r \in Requests, NEW u \in Users
  PROVE  /\ \A c \in Cards : Suspend(r, u, c) => Answered(r)
         /\ \A op \in Ops : NewDeck(r, u, op) => Answered(r)
         /\ \A code : Clone(r, u, code) => Answered(r)
         /\ \A d \in Decks \cup {None} : NewQuiz(r, u, d) => Answered(r)
         /\ \A z \in Quizzes : AddQuestion(r, u, z) => Answered(r)
         /\ \A z \in Quizzes, d \in Decks :
              Generate(r, u, z, d) => Answered(r)
         /\ \A c \in Cards : Upload(r, u, c) => Answered(r)
<1>1. Start(r, Done) => Answered(r)
  BY DoneShaped DEF Answered
<1>2. ASSUME NEW c \in Cards, Suspend(r, u, c) PROVE Answered(r)
  <2>1. PICK on \in BOOLEAN :
          Owning(r, u, c, [NewRequest EXCEPT !.pc = "suspend", !.op = "suspend", !.row = c,
                                             !.on = on])
    BY <1>2 DEF Suspend
  <2>q. PICK q : q = [NewRequest EXCEPT !.pc = "suspend", !.op = "suspend", !.row = c, !.on = on]
    OBVIOUS
  <2>2. /\ q \in Request /\ q.pc = "suspend" /\ q.op = "suspend" /\ q.row = c /\ q.new = None
        /\ q.made = <<>>
    BY <2>q, NewIs DEF Request, Steps, Ops, Rows
  <2>3. Admitted(r, q)
    BY <2>2, Admits
  <2>4. Owning(r, u, c, q)
    BY <2>1, <2>q
  <2> QED BY <2>3, <2>4, OwningAdmits
<1>3. ASSUME NEW op \in Ops, NewDeck(r, u, op) PROVE Answered(r)
  <2>1. PICK name \in Names :
          Start(r, [NewRequest EXCEPT !.pc = "insertDeck", !.op = op, !.user = u, !.name = name])
    BY <1>3 DEF NewDeck
  <2>q. PICK q : q = [NewRequest EXCEPT !.pc = "insertDeck", !.op = op, !.user = u, !.name = name]
    OBVIOUS
  <2>2. /\ q \in Request /\ q.pc = "insertDeck" /\ q.op = op /\ q.row = None /\ q.new = None
        /\ q.made = <<>>
    BY <2>q, NewIs, ZenonT(60) DEF Request, Steps, Ops, Rows
  <2>3. Admitted(r, q)
    BY <2>2, Admits
  <2> QED BY <2>1, <2>q, <2>3 DEF Answered
<1>4. ASSUME NEW code, Clone(r, u, code) PROVE Answered(r)
  <2>1. CASE Start(r, Done)
    BY <1>1, <2>1
  <2>2. ASSUME NEW d \in LiveDecks(db),
               Start(r, [NewRequest EXCEPT !.pc = "cloneDeck", !.op = "clone", !.user = u,
                                           !.row = d, !.name = db.decks[d].name])
        PROVE  Answered(r)
    <3>q. PICK q : q = [NewRequest EXCEPT !.pc = "cloneDeck", !.op = "clone", !.user = u,
                        !.row = d, !.name = db.decks[d].name]
      OBVIOUS
    <3>1. d \in Decks /\ db.decks[d].name \in Names \cup {None}
      BY Lives DEF Database, Deck
    <3>2. /\ q \in Request /\ q.pc = "cloneDeck" /\ q.op = "clone" /\ q.row = d /\ q.new = None
          /\ q.made = <<>>
      BY <3>q, <3>1, NewIs DEF Request, Steps, Ops, Rows
    <3>3. Admitted(r, q)
      BY <3>1, <3>2, Admits
    <3> QED BY <2>2, <3>q, <3>3 DEF Answered
  <2> QED BY <1>4, <2>1, <2>2 DEF Clone
<1>5. ASSUME NEW d \in Decks \cup {None}, NewQuiz(r, u, d) PROVE Answered(r)
  <2>1. CASE d = None
    <3>q. PICK q : q = [NewRequest EXCEPT !.pc = "create", !.op = "add", !.user = u]
      OBVIOUS
    <3>1. /\ q \in Request /\ q.pc = "create" /\ q.op = "add" /\ q.row = None /\ q.new = None
          /\ q.made = <<>>
      BY <3>q, NewIs DEF Request, Steps, Ops, Rows
    <3>2. Admitted(r, q)
      BY <3>1, Admits
    <3> QED BY <1>5, <2>1, <3>q, <3>2 DEF NewQuiz, Answered
  <2>2. CASE d # None
    <3>q. PICK q : q = [NewRequest EXCEPT !.pc = "create", !.op = "add", !.user = u, !.row = d]
      OBVIOUS
    <3>1. /\ q \in Request /\ q.pc = "create" /\ q.op = "add" /\ q.row = d /\ q.new = None
          /\ q.made = <<>>
      BY <3>q, NewIs DEF Request, Steps, Ops, Rows
    <3>2. Admitted(r, q)
      BY <2>2, <3>1, Admits
    <3>3. Owning(r, u, d, q)
      BY <1>5, <2>2, <3>q DEF NewQuiz
    <3> QED BY <3>2, <3>3, OwningAdmits
  <2> QED BY <2>1, <2>2
<1>6. ASSUME NEW z \in Quizzes, NEW links \in SUBSET Cards, NEW op \in {"add", "generate"},
             Owning(r, u, z, [NewRequest EXCEPT !.pc = "count", !.op = op, !.row = z,
                                                !.links = links])
      PROVE  Answered(r)
  <2>q. PICK q : q = [NewRequest EXCEPT !.pc = "count", !.op = op, !.row = z, !.links = links]
    OBVIOUS
  <2>1. /\ q \in Request /\ q.pc = "count" /\ q.op = op /\ q.row = z /\ q.new = None
        /\ q.made = <<>>
    BY <2>q, NewIs DEF Request, Steps, Ops, Rows
  <2>2. Admitted(r, q)
    BY <2>1, Admits
  <2>3. Owning(r, u, z, q)
    BY <1>6, <2>q
  <2> QED BY <2>2, <2>3, OwningAdmits
<1>7. ASSUME NEW z \in Quizzes, AddQuestion(r, u, z) PROVE Answered(r)
  <2>1. PICK card \in LiveCards(db) \cup {None} :
          Owning(r, u, z, [NewRequest EXCEPT !.pc = "count", !.op = "add", !.row = z,
                                             !.links = {card} \ {None}])
    BY <1>7 DEF AddQuestion
  <2>2. {card} \ {None} \in SUBSET Cards
    BY Lives
  <2> QED BY <1>6, <2>1, <2>2
<1>8. ASSUME NEW z \in Quizzes, NEW d \in Decks, Generate(r, u, z, d) PROVE Answered(r)
  <2>1. PICK links \in SUBSET CardsOf(db, d) :
          \/ Owning(r, u, z, [NewRequest EXCEPT !.pc = "count", !.op = "generate", !.row = z,
                                                !.links = links])
          \/ Start(r, Done)
    BY <1>8 DEF Generate
  <2>2. links \in SUBSET Cards
    BY Lives DEF CardsOf
  <2> QED BY <1>1, <1>6, <2>1, <2>2
<1>9. ASSUME NEW c \in Cards, Upload(r, u, c) PROVE Answered(r)
  <2>1. CASE Start(r, Done)
    BY <1>1, <2>1
  <2>2. CASE Owning(r, u, c, [NewRequest EXCEPT !.pc = "upload", !.op = "upload", !.row = c,
                                                !.user = u])
    <3>q. PICK q : q = [NewRequest EXCEPT !.pc = "upload", !.op = "upload", !.row = c, !.user = u]
      OBVIOUS
    <3>1. /\ q \in Request /\ q.pc = "upload" /\ q.op = "upload" /\ q.row = c /\ q.new = None
          /\ q.made = <<>>
      BY <3>q, NewIs DEF Request, Steps, Ops, Rows
    <3>2. Admitted(r, q)
      BY <3>1, Admits
    <3>3. Owning(r, u, c, q)
      BY <2>2, <3>q
    <3> QED BY <3>2, <3>3, OwningAdmits
  <2> QED BY <1>9, <2>1, <2>2 DEF Upload
<1> QED BY <1>2, <1>3, <1>4, <1>5, <1>7, <1>8, <1>9

\* The handler of a DELETE is admitted whatever kind of row it names.
LEMMA DeleteAdmits ==
  ASSUME NEW r, NEW u, NEW x \in Decks \cup Cards \cup Quizzes \cup Questions, Delete(r, u, x)
  PROVE  Answered(r)
<1>1. x \in Rows \cup Media /\ "delete" \in Steps /\ "delete" \in Ops
  BY DEF Rows, Steps, Ops
<1>2. Owning(r, u, x, [NewRequest EXCEPT !.pc = "delete", !.op = "delete", !.row = x])
  BY DEF Delete
<1> QED BY <1>1, <1>2, RowAdmits

\* Whatever arrives, the handler admits it or answers at once.
LEMMA Admission ==
  ASSUME db \in Database, NEW r \in Requests, NEW u \in Users, Arrive(r, u)
  PROVE  \E q : Admitted(r, q) /\ Start(r, q)
<1> SUFFICES Answered(r)
  BY DEF Answered
<1>1. /\ Users \subseteq Rows /\ Decks \subseteq Rows /\ Cards \subseteq Rows
      /\ Quizzes \subseteq Rows /\ Questions \subseteq Rows
  BY DEF Rows
<1>2. CASE HandleCreateDeck(r, u)
  BY <1>2, RestAdmits DEF HandleCreateDeck, Ops
<1>3. CASE HandleImport(r, u)
  BY <1>3, RestAdmits DEF HandleImport, Ops
<1>4. CASE HandleUpdateDeck(r, u)
  BY <1>1, <1>4, EditAdmits DEF HandleUpdateDeck
<1>5. CASE HandleDeleteDeck(r, u)
  BY <1>5, DeleteAdmits DEF HandleDeleteDeck
<1>6. CASE HandleShare(r, u)
  <2>1. PICK d \in Decks :
          Owning(r, u, d, [NewRequest EXCEPT !.pc = "dropShare", !.op = "share", !.row = d])
    BY <1>6 DEF HandleShare, ShareDeck
  <2>2. d \in Rows \cup Media /\ "dropShare" \in Steps /\ "share" \in Ops
    BY <1>1 DEF Steps, Ops
  <2> QED BY <2>1, <2>2, RowAdmits
<1>7. CASE HandleUnshare(r, u)
  <2>1. PICK d \in Decks :
          Owning(r, u, d, [NewRequest EXCEPT !.pc = "unshare", !.op = "share", !.row = d])
    BY <1>7 DEF HandleUnshare, Unshare
  <2>2. d \in Rows \cup Media /\ "unshare" \in Steps /\ "share" \in Ops
    BY <1>1 DEF Steps, Ops
  <2> QED BY <2>1, <2>2, RowAdmits
<1>8. CASE HandleClone(r, u)
  BY <1>8, RestAdmits DEF HandleClone, Ops
<1>9. CASE HandleCreateCard(r, u)
  <2>1. PICK d \in Decks :
          Owning(r, u, d, [NewRequest EXCEPT !.pc = "create", !.op = "create", !.row = d])
    BY <1>9 DEF HandleCreateCard, NewCard
  <2>2. d \in Rows \cup Media /\ "create" \in Steps /\ "create" \in Ops
    BY <1>1 DEF Steps, Ops
  <2> QED BY <2>1, <2>2, RowAdmits
<1>10. CASE HandleBatchCreate(r, u)
  <2>1. PICK d \in Decks :
          Owning(r, u, d, [NewRequest EXCEPT !.pc = "item", !.op = "batch", !.row = d])
    BY <1>10 DEF HandleBatchCreate, NewCards
  <2>2. d \in Rows \cup Media /\ "item" \in Steps /\ "batch" \in Ops
    BY <1>1 DEF Steps, Ops
  <2> QED BY <2>1, <2>2, RowAdmits
<1>11. CASE HandleUpdateCard(r, u)
  BY <1>1, <1>11, EditAdmits DEF HandleUpdateCard
<1>12. CASE HandleDeleteCard(r, u)
  BY <1>12, DeleteAdmits DEF HandleDeleteCard
<1>13. CASE HandleSuspend(r, u)
  BY <1>13, RestAdmits DEF HandleSuspend, Ops
<1>14. CASE HandleResetFSRS(r, u)
  <2>1. PICK c \in Cards :
          Owning(r, u, c, [NewRequest EXCEPT !.pc = "resetFSRS", !.op = "reset", !.row = c])
    BY <1>14 DEF HandleResetFSRS, ResetCard
  <2>2. c \in Rows \cup Media /\ "resetFSRS" \in Steps /\ "reset" \in Ops
    BY <1>1 DEF Steps, Ops
  <2> QED BY <2>1, <2>2, RowAdmits
<1>15. CASE HandleCreateQuiz(r, u)
  BY <1>15, RestAdmits DEF HandleCreateQuiz, Ops
<1>16. CASE HandleUpdateQuiz(r, u)
  BY <1>1, <1>16, EditAdmits DEF HandleUpdateQuiz
<1>17. CASE HandleDeleteQuiz(r, u)
  BY <1>17, DeleteAdmits DEF HandleDeleteQuiz
<1>18. CASE HandleAddQuestion(r, u)
  BY <1>18, RestAdmits DEF HandleAddQuestion, Ops
<1>19. CASE HandleBatchAdd(r, u)
  <2>1. PICK z \in Quizzes :
          Owning(r, u, z, [NewRequest EXCEPT !.pc = "count", !.op = "batch", !.row = z])
    BY <1>19 DEF HandleBatchAdd, BatchAddQuestions
  <2>2. z \in Rows \cup Media /\ "count" \in Steps /\ "batch" \in Ops
    BY <1>1 DEF Steps, Ops
  <2> QED BY <2>1, <2>2, RowAdmits
<1>20. CASE HandleGenerate(r, u)
  BY <1>20, RestAdmits DEF HandleGenerate, Ops
<1>21. CASE HandleUpdateQuestion(r, u)
  BY <1>1, <1>21, EditAdmits DEF HandleUpdateQuestion
<1>22. CASE HandleDeleteQuestion(r, u)
  BY <1>22, DeleteAdmits DEF HandleDeleteQuestion
<1>23. CASE HandleUpload(r, u)
  BY <1>23, RestAdmits DEF HandleUpload, Ops
<1>24. CASE HandleDeleteMedia(r, u)
  <2>1. PICK m \in Media :
          Owning(r, u, m, [NewRequest EXCEPT !.pc = "dropObject", !.op = "unlink", !.row = m])
    BY <1>24 DEF HandleDeleteMedia, DeleteMedia
  <2>2. m \in Rows \cup Media /\ "dropObject" \in Steps /\ "unlink" \in Ops
    BY <1>1 DEF Steps, Ops
  <2> QED BY <2>1, <2>2, RowAdmits
<1>25. CASE HandleUpdateProfile(r, u)
  BY <1>1, <1>25, EditAdmits DEF HandleUpdateProfile
<1> QED
  BY <1>2, <1>3, <1>4, <1>5, <1>6, <1>7, <1>8, <1>9, <1>10, <1>11, <1>12, <1>13, <1>14, <1>15,
     <1>16, <1>17, <1>18, <1>19, <1>20, <1>21, <1>22, <1>23, <1>24, <1>25 DEF Arrive

(***************************************************************************)
(* The locks.  A transaction that has inserted keeps the rows it refers    *)
(* to, and keeps others from the name of a deck it is inserting.           *)
(***************************************************************************)
Holds(q, x) ==
  /\ q.pc = "item" /\ q.made # <<>>
  /\ \/ x = q.row /\ q.op # "import"
     \/ \E i \in DOMAIN q.made : q.made[i] \notin Cards /\ q.made[i][2] = x
LocksKept(D, q) == \A x \in Rows : Holds(q, x) => x \in Standing(D)

Naming(q) == q.pc \in {"item", "cloneCards"} /\ q.new \in Decks
NameHeld(D, q) == Naming(q) => Named(D, q.user, q.name) = {}
NamesApart(q, p) == Naming(q) /\ Naming(p) => q.user # p.user \/ q.name # p.name

Typed == /\ objects \subseteq Media /\ adrift \subseteq Media
         /\ pruned \in BOOLEAN /\ faults \in 0..MaxFaults /\ overlapped \in BOOLEAN
Kept(D, q) == Shaped(q) /\ LocksKept(D, q) /\ NameHeld(D, q)

Inv1 == /\ Typed /\ req \in [Requests -> Request] /\ Sound(db)
        /\ \A r \in Requests : Kept(db, req[r])
        /\ \A r, s \in Requests : r # s => NamesApart(req[r], req[s])

\* What is read and not yet locked can be lost; who holds nothing loses nothing.
LEMMA IdleKept ==
  ASSUME NEW D, NEW q, Shaped(q), q.pc \notin {"item", "cloneCards"}
  PROVE  Kept(D, q) /\ \A p : NamesApart(q, p) /\ NamesApart(p, q)
  BY DEF Kept, LocksKept, NameHeld, NamesApart, Holds, Naming

\* Who moves must keep Inv1 of itself and for the others.
LEMMA StepRule ==
  ASSUME Inv1, NEW r \in Requests, NEW q, req' = [req EXCEPT ![r] = q], Typed',
         Sound(db'), Kept(db', q),
         \A s \in Requests : s # r => Kept(db', req[s]) /\ NamesApart(req[s], q) /\ NamesApart(q, req[s])
  PROVE  Inv1'
<1>1. req \in [Requests -> Request] /\ q \in Request
  BY DEF Inv1, Kept, Shaped
<1>2. req' \in [Requests -> Request]
  BY <1>1
<1>3. \A s \in Requests : req'[s] = IF s = r THEN q ELSE req[s]
  BY <1>1
<1>4. \A s \in Requests : Kept(db', req'[s])
  BY <1>3
<1>5. ASSUME NEW s \in Requests, NEW t \in Requests, s # t
      PROVE  NamesApart(req'[s], req'[t])
  <2>1. CASE s = r
    BY <1>3, <1>5, <2>1
  <2>2. CASE t = r
    BY <1>3, <1>5, <2>2
  <2>3. CASE s # r /\ t # r
    BY <1>3, <1>5, <2>3 DEF Inv1
  <2> QED BY <2>1, <2>2, <2>3
<1> QED BY <1>2, <1>4, <1>5 DEF Inv1

\* The statement of a request that is finished with it.
LEMMA FinishRule ==
  ASSUME Inv1, NEW r \in Requests, Finish(r), Typed', Sound(db'),
         \A s \in Requests : s # r => LocksKept(db', req[s]) /\ NameHeld(db', req[s])
  PROVE  Inv1'
<1>1. req' = [req EXCEPT ![r] = Done]
  BY DEF Finish, Go
<1>2. Kept(db', Done) /\ \A p : NamesApart(Done, p) /\ NamesApart(p, Done)
  BY DoneIs, DoneShaped, IdleKept
<1>3. \A s \in Requests : s # r => Kept(db', req[s])
  BY DEF Inv1, Kept
<1> QED BY <1>1, <1>2, <1>3, StepRule

\* Locks are kept while what stands still stands.
LEMMA LocksStay ==
  ASSUME NEW D, NEW E, Standing(D) \subseteq Standing(E)
  PROVE  \A q : LocksKept(D, q) => LocksKept(E, q)
  BY DEF LocksKept

\* A name that is being inserted is kept while no deck takes it.
LEMMA NamesStay ==
  ASSUME NEW D, NEW E, LiveDecks(E) \subseteq LiveDecks(D),
         \A d \in LiveDecks(E) : /\ E.decks[d].owner = D.decks[d].owner
                                 /\ E.decks[d].name = D.decks[d].name
  PROVE  \A q : NameHeld(D, q) => NameHeld(E, q)
  BY DEF NameHeld, Named

\* A statement that leaves the decks and takes nothing that stood.
LEMMA QuietRule ==
  ASSUME Inv1, NEW r \in Requests, Finish(r), Typed', Sound(db'),
         db'.decks = db.decks, Standing(db) \subseteq Standing(db')
  PROVE  Inv1'
<1>1. LiveDecks(db') = LiveDecks(db)
  BY DEF LiveDecks
<1>2. \A s \in Requests : LocksKept(db, req[s]) /\ NameHeld(db, req[s])
  BY DEF Inv1, Kept
<1>3. \A s \in Requests : LocksKept(db', req[s])
  BY <1>2, LocksStay
<1>4. \A s \in Requests : NameHeld(db', req[s])
  BY <1>1, <1>2, NamesStay
<1> QED BY <1>3, <1>4, FinishRule

\* A step that the tables do not see, of a request that locks nothing new.
LEMMA IdleRule ==
  ASSUME Inv1, NEW r \in Requests, NEW q, req' = [req EXCEPT ![r] = q], Typed',
         UNCHANGED db, Shaped(q), q.pc \notin {"item", "cloneCards"}
  PROVE  Inv1'
<1>1. Kept(db, q) /\ \A p : NamesApart(q, p) /\ NamesApart(p, q)
  BY IdleKept
<1>2. /\ Sound(db) /\ db' = db
      /\ \A s \in Requests : Kept(db, req[s])
  BY DEF Inv1
<1>3. /\ Sound(db') /\ Kept(db', q)
      /\ \A s \in Requests : Kept(db', req[s])
  BY <1>1, <1>2
<1> QED BY <1>1, <1>3, StepRule

LEMMA QuietTyped ==
  ASSUME Typed, quiet, UNCHANGED <<objects, overlapped>>
  PROVE  Typed'
  BY DEF Typed, quiet

\* What every step of a request starts from.
LEMMA GoTyped ==
  ASSUME Inv1, NEW r \in Requests, NEW q, Go(r, q)
  PROVE  /\ req' = [req EXCEPT ![r] = q] /\ overlapped' = overlapped
         /\ \A s \in Requests : Shaped(req[s]) /\ req[s] \in Request
         /\ db \in Database /\ Sound(db) /\ Typed
  BY DEF Go, Inv1, Kept, Sound, Shaped

LEMMA FinishIs ==
  ASSUME Inv1, NEW r \in Requests, Finish(r)
  PROVE  /\ req' = [req EXCEPT ![r] = Done] /\ overlapped' = overlapped
         /\ Shaped(req[r]) /\ req[r] \in Request
         /\ db \in Database /\ Sound(db) /\ Typed
  BY GoTyped DEF Finish

\* What Inv1 says of the database and of each request.
LEMMA InvDb ==
  ASSUME Inv1
  PROVE  /\ db \in Database /\ Sound(db) /\ Typed /\ req \in [Requests -> Request]
         /\ \A r \in Requests : Shaped(req[r]) /\ req[r] \in Request
                                /\ LocksKept(db, req[r]) /\ NameHeld(db, req[r])
  BY DEF Inv1, Kept, Sound, Shaped
\* A request arrives.
LEMMA StartKeeps ==
  ASSUME Inv1, NEW r \in Requests, NEW q, Admitted(r, q), Start(r, q)
  PROVE  Inv1'
<1>1. Typed'
  BY InvDb DEF Typed, Start, quiet
<1>2. req' = [req EXCEPT ![r] = q] /\ db' = db /\ Shaped(q) /\ q.made = <<>>
  BY DEF Start, Admitted
<1>3. CASE q.pc \notin {"item", "cloneCards"}
  BY <1>1, <1>2, <1>3, IdleRule
<1>4. CASE q.pc = "item"
  <2>1. q.row \in Decks /\ q.new = None
    BY <1>4 DEF Admitted
  <2>2. None \notin Decks
    BY BoundsOK DEF Rows
  <2>3. Kept(db', q) /\ \A p : NamesApart(q, p) /\ NamesApart(p, q)
    BY <1>2, <2>1, <2>2 DEF Kept, LocksKept, NameHeld, NamesApart, Naming, Holds
  <2>4. Sound(db') /\ \A s \in Requests : Kept(db', req[s])
    BY <1>2 DEF Inv1
  <2> QED BY <1>1, <1>2, <2>3, <2>4, StepRule
<1>5. q.pc # "cloneCards"
  BY DEF Admitted, Entries
<1> QED BY <1>3, <1>4, <1>5

\* A whole-row update changes values only, and those of one row.
LEMMA WrittenIs ==
  ASSUME db \in Database, NEW x \in Rows, NEW new \in Values, NEW E, E = Written(x, new)
  PROVE  /\ E \in Database
         /\ \A y \in Rows : y # x => E.values[y] = db.values[y]
         /\ \/ E.values[x] = new
            \/ E.values[x] = Coalesced(db.values[x], new)
         /\ E.decks = db.decks /\ E.cards = db.cards /\ E.quizzes = db.quizzes
         /\ E.questions = db.questions /\ E.media = db.media /\ E.shares = db.shares
<1>1. \/ x \in Decks /\ E = UpdateDeck(db, x, new)
      \/ x \in Users /\ E = UpdateUser(db, x, new)
      \/ x \in Cards /\ E = UpdateCard(db, x, new)
      \/ x \in Quizzes /\ E = UpdateQuiz(db, x, new)
      \/ x \in Questions /\ E = UpdateQuestion(db, x, new)
  <2>1. \/ x \in Decks
        \/ x \in Users /\ x \notin Decks
        \/ x \in Cards /\ x \notin Decks /\ x \notin Users
        \/ x \in Quizzes /\ x \notin Decks /\ x \notin Users /\ x \notin Cards
        \/ /\ x \in Questions /\ x \notin Decks /\ x \notin Users /\ x \notin Cards
           /\ x \notin Quizzes
    BY DEF Rows
  <2>2. x \in Decks => x \notin Users /\ x \notin Cards /\ x \notin Quizzes /\ x \notin Questions
    BY UuidsOK
  <2>3. x \in Users => x \notin Cards /\ x \notin Quizzes /\ x \notin Questions
    BY UuidsOK
  <2>4. x \in Cards => x \notin Quizzes /\ x \notin Questions
    BY UuidsOK
  <2>5. x \in Quizzes => x \notin Questions
    BY UuidsOK
  <2> QED BY <2>1, <2>2, <2>3, <2>4, <2>5 DEF Written
<1>2. \/ E = [db EXCEPT !.values[x] = new]
      \/ E = [db EXCEPT !.values[x] = Coalesced(db.values[x], new)]
  BY <1>1 DEF UpdateDeck, UpdateUser, UpdateCard, UpdateQuiz, UpdateQuestion
<1> QED BY <1>2, UpdatesAre

\* An UPDATE keeps Inv1.
LEMMA WriteKeeps ==
  ASSUME Inv1, NEW r \in Requests, Write(r)
  PROVE  Inv1'
<1>1. Finish(r) /\ UNCHANGED objects /\ quiet /\ At(r, "write")
  BY DEF Write
<1>2. /\ Typed' /\ db \in Database /\ Sound(db) /\ req[r].row \in Rows /\ req[r].read \in Values
  <2>1. Typed /\ Shaped(req[r]) /\ req[r] \in Request /\ db \in Database /\ Sound(db)
    BY InvDb
  <2>2. UNCHANGED overlapped
    BY <1>1, FinishIs
  <2> QED BY <1>1, <2>1, <2>2, QuietTyped DEF At, Shaped, Request
<1>3. CASE db' = db
  BY <1>1, <1>2, <1>3, QuietRule
<1>4. CASE db' = Written(req[r].row, req[r].read)
  <2>1. /\ db' \in Database
        /\ db'.decks = db.decks /\ db'.cards = db.cards /\ db'.quizzes = db.quizzes
        /\ db'.questions = db.questions /\ db'.media = db.media /\ db'.shares = db.shares
    BY <1>2, <1>4, WrittenIs
  <2>2. Sound(db') /\ Standing(db') = Standing(db)
    BY <1>2, <2>1, ContentSound
  <2> QED BY <1>1, <1>2, <2>1, <2>2, QuietRule
<1> QED BY <1>3, <1>4 DEF Write

\* So does the suspension of a card,
LEMMA SuspendRowKeeps ==
  ASSUME Inv1, NEW r \in Requests, SuspendRow(r)
  PROVE  Inv1'
<1>1. Finish(r) /\ UNCHANGED objects /\ quiet /\ At(r, "suspend")
  BY DEF SuspendRow
<1>2. /\ Typed' /\ db \in Database /\ Sound(db) /\ req[r].row \in Cards /\ req[r].on \in BOOLEAN
  <2>1. Typed /\ Shaped(req[r]) /\ req[r] \in Request /\ db \in Database /\ Sound(db)
    BY InvDb
  <2>2. UNCHANGED overlapped
    BY <1>1, FinishIs
  <2>3. req[r].on \in BOOLEAN
    BY <2>1 DEF Request
  <2> QED BY <1>1, <2>1, <2>2, <2>3, QuietTyped DEF At, Shaped
<1>3. db' = SetSuspended(db, req[r].row, req[r].on)
  BY DEF SuspendRow
<1>4. /\ db' \in Database
      /\ \A e \in Cards : db'.cards[e].life = db.cards[e].life /\ db'.cards[e].deck = db.cards[e].deck
      /\ db'.decks = db.decks /\ db'.quizzes = db.quizzes
      /\ db'.questions = db.questions /\ db'.media = db.media /\ db'.shares = db.shares
  BY <1>2, <1>3, SuspendedIs
<1>5. Sound(db') /\ Standing(db') = Standing(db)
  BY <1>2, <1>4, ContentSound
<1> QED BY <1>1, <1>2, <1>4, <1>5, QuietRule

\* and the reset of its progress,
LEMMA ResetRowKeeps ==
  ASSUME Inv1, NEW r \in Requests, ResetRow(r)
  PROVE  Inv1'
<1>1. Finish(r) /\ UNCHANGED objects /\ quiet /\ At(r, "resetFSRS")
  BY DEF ResetRow
<1>2. /\ Typed' /\ db \in Database /\ Sound(db) /\ req[r].row \in Cards
  <2>1. Typed /\ Shaped(req[r]) /\ db \in Database /\ Sound(db)
    BY InvDb
  <2>2. UNCHANGED overlapped
    BY <1>1, FinishIs
  <2> QED BY <1>1, <2>1, <2>2, QuietTyped DEF At, Shaped
<1>3. db' = ResetFSRS(db, req[r].row)
  BY DEF ResetRow
<1>4. /\ db' \in Database
      /\ \A e \in Cards : db'.cards[e].life = db.cards[e].life /\ db'.cards[e].deck = db.cards[e].deck
      /\ db'.decks = db.decks /\ db'.quizzes = db.quizzes
      /\ db'.questions = db.questions /\ db'.media = db.media /\ db'.shares = db.shares
  BY <1>2, <1>3, ResetIs
<1>5. Sound(db') /\ Standing(db') = Standing(db)
  BY <1>2, <1>4, ContentSound
<1> QED BY <1>1, <1>2, <1>4, <1>5, QuietRule

\* and a DELETE, which waits for the transactions that refer to the row.
LEMMA DeleteRowKeeps ==
  ASSUME Inv1, NEW r \in Requests, DeleteRow(r)
  PROVE  Inv1'
<1> DEFINE x == req[r].row
<1>1. /\ Finish(r) /\ UNCHANGED <<objects, adrift, faults>> /\ At(r, "delete")
      /\ ~KeptBelow(x) /\ pruned' = (pruned \/ x \in Questions)
  BY DEF DeleteRow
<1>2. /\ Typed' /\ db \in Database /\ Sound(db)
      /\ x \in Decks \cup Cards \cup Quizzes \cup Questions
      /\ \A s \in Requests : LocksKept(db, req[s]) /\ NameHeld(db, req[s])
  <2>1. Typed /\ Shaped(req[r]) /\ db \in Database /\ Sound(db)
    BY InvDb
  <2>2. UNCHANGED overlapped
    BY <1>1, FinishIs
  <2>3. Typed'
    BY <1>1, <2>1, <2>2 DEF Typed
  <2> QED BY <1>1, <2>1, <2>3, InvDb DEF At, Shaped
\* Nobody holds the row, nor a card of it.
<1>3. \A s \in Requests, y \in Rows :
        Holds(req[s], y) => y # x /\ (y \in LiveCards(db) => db.cards[y].deck # x)
  BY <1>1 DEF KeptBelow, Keeps, Holds, At
<1> HIDE DEF x
<1>4. CASE db' = db
  BY <1>1, <1>2, <1>4, QuietRule
<1>5. ASSUME x \in Decks, db' = DeleteDeck(db, x) PROVE Inv1'
  <2>1. /\ Sound(db') /\ Standing(db) \ ({x} \cup CardsOf(db, x)) \subseteq Standing(db')
        /\ LiveDecks(db') = LiveDecks(db) \ {x}
        /\ \A e \in Decks : e # x => db'.decks[e] = db.decks[e]
    BY <1>2, <1>5, DeckGoneSound
  <2>2. \A s \in Requests : LocksKept(db', req[s])
    BY <1>2, <1>3, <2>1 DEF LocksKept, CardsOf
  <2>3. LiveDecks(db') \subseteq LiveDecks(db)
    BY <2>1
  <2>4. \A d \in LiveDecks(db') : db'.decks[d] = db.decks[d]
    BY <2>1, Lives
  <2>5. \A s \in Requests : NameHeld(db', req[s])
    BY <1>2, <2>3, <2>4, NamesStay
  <2> QED BY <1>1, <1>2, <2>1, <2>2, <2>5, FinishRule
\* A row of another table: the decks stay.
<1>6. ASSUME Sound(db'), db'.decks = db.decks, Standing(db) \ {x} \subseteq Standing(db')
      PROVE  Inv1'
  <2>1. \A s \in Requests : LocksKept(db', req[s])
    BY <1>2, <1>3, <1>6 DEF LocksKept
  <2>2. LiveDecks(db') = LiveDecks(db)
    BY <1>6 DEF LiveDecks
  <2>3. \A s \in Requests : NameHeld(db', req[s])
    BY <1>2, <1>6, <2>2, NamesStay
  <2> QED BY <1>1, <1>2, <1>6, <2>1, <2>3, FinishRule
<1>7. ASSUME x \in Cards, db' = DeleteCard(db, x) PROVE Inv1'
  BY <1>2, <1>6, <1>7, CardGoneSound
<1>8. ASSUME x \in Quizzes, db' = DeleteQuiz(db, x) PROVE Inv1'
  BY <1>2, <1>6, <1>8, QuizGoneSound
<1>9. ASSUME x \in Questions, db' = DeleteQuestion(db, x) PROVE Inv1'
  <2>1. Standing(db) \subseteq Standing(db') /\ Sound(db') /\ db'.decks = db.decks
    BY <1>2, <1>9, QuestionGoneSound
  <2> QED BY <1>6, <2>1
<1>10. \/ db' = db
       \/ x \in Decks /\ db' = DeleteDeck(db, x)
       \/ x \in Cards /\ db' = DeleteCard(db, x)
       \/ x \in Quizzes /\ db' = DeleteQuiz(db, x)
       \/ x \in Questions /\ db' = DeleteQuestion(db, x)
  <2>1. db' = IF ~Exists(x) THEN db
           ELSE CASE x \in Decks -> DeleteDeck(db, x)
                  [] x \in Cards -> DeleteCard(db, x)
                  [] x \in Quizzes -> DeleteQuiz(db, x)
                  [] x \in Questions -> DeleteQuestion(db, x)
    BY DEF DeleteRow, x
  <2>2. \/ x \in Decks
        \/ x \in Cards /\ x \notin Decks
        \/ x \in Quizzes /\ x \notin Decks /\ x \notin Cards
        \/ x \in Questions /\ x \notin Decks /\ x \notin Cards /\ x \notin Quizzes
    BY <1>2
  <2>3. x \in Decks => x \notin Cards /\ x \notin Quizzes /\ x \notin Questions
    BY UuidsOK
  <2>4. x \in Cards => x \notin Quizzes /\ x \notin Questions
    BY UuidsOK
  <2>5. x \in Quizzes => x \notin Questions
    BY UuidsOK
  <2> QED BY <2>1, <2>2, <2>3, <2>4, <2>5
<1> QED BY <1>4, <1>5, <1>7, <1>8, <1>9, <1>10

\* A choice from a set that is not empty.
LEMMA OneIs ==
  ASSUME NEW S, S # {}
  PROVE  One(S) \in S
  BY DEF One

\* A fresh row is one that was never used.
LEMMA FreshIs ==
  ASSUME NEW S, Unused(S) # {}
  PROVE  Fresh(S) \in S /\ Fresh(S) \in FreeRows /\ Fresh(S) \notin Reserved
<1>1. Fresh(S) \in Unused(S)
  BY OneIs DEF Fresh
<1> QED BY <1>1 DEF Unused

\* The copies of a clone are fresh, and one for each card.
LEMMA CopiesAre ==
  ASSUME NEW d, NEW copies \in Copies(d)
  PROVE  /\ copies \in [CardsOf(db, d) -> Unused(Cards)]
         /\ \A c, e \in CardsOf(db, d) : copies[c] = copies[e] => c = e
<1> DEFINE all == {f \in [CardsOf(db, d) -> Unused(Cards)] :
                     \A c, e \in DOMAIN f : f[c] = f[e] => c = e}
<1>1. all # {} /\ copies = One(all)
  BY DEF Copies, Copyable
<1>2. copies \in all
  BY <1>1, OneIs
<1> QED BY <1>2

\* Beside a deck of another name, or of another's, a name stays held.
LEMMA NameStillHeld ==
  ASSUME NEW D, NEW E, NEW d, NEW u, NEW n,
         LiveDecks(E) = LiveDecks(D) \cup {d},
         E.decks[d].owner = u, E.decks[d].name = n,
         \A e \in Decks : e # d => E.decks[e] = D.decks[e],
         NEW q, NameHeld(D, q), Naming(q) => q.user # u \/ q.name # n
  PROVE  NameHeld(E, q)
<1> SUFFICES ASSUME Naming(q), NEW e \in LiveDecks(E),
                    E.decks[e].owner = q.user, E.decks[e].name = q.name
             PROVE  FALSE
  BY DEF NameHeld, Named
<1>1. CASE e = d
  BY <1>1
<1>2. CASE e # d
  <2>1. e \in LiveDecks(D) /\ E.decks[e] = D.decks[e]
    BY <1>2, Lives
  <2> QED BY <2>1 DEF NameHeld, Named
<1> QED BY <1>1, <1>2

\* NameFree is that no transaction is inserting the name.
LEMMA NameFreeApart ==
  ASSUME NEW u, NEW n, NameFree(u, n)
  PROVE  \A s \in Requests : Naming(req[s]) => req[s].user # u \/ req[s].name # n
  BY DEF NameFree, Inserting, Naming

\* A deck is inserted, or its transaction begins.
LEMMA InsertDeckKeeps ==
  ASSUME Inv1, NEW r \in Requests, InsertDeck(r)
  PROVE  Inv1'
<1> DEFINE u == req[r].user
           n == req[r].name
<1>1. /\ UNCHANGED objects /\ quiet /\ At(r, "insertDeck") /\ NameFree(u, n)
      /\ UNCHANGED overlapped
  BY DEF InsertDeck, Go, Finish
<1>2. /\ Typed' /\ db \in Database /\ Sound(db) /\ req[r] \in Request
      /\ u \in Users \cup {None} /\ n \in Names \cup {None}
      /\ Shaped(req[r]) /\ req[r].pc = "insertDeck"
      /\ \A s \in Requests : Kept(db, req[s])
  <2>1. Typed /\ Shaped(req[r]) /\ db \in Database /\ Sound(db) /\ req[r] \in Request
    BY InvDb
  <2>2. u \in Users \cup {None} /\ n \in Names \cup {None}
    BY <2>1 DEF Request
  <2> QED BY <1>1, <2>1, <2>2, QuietTyped DEF At, Inv1
<1>3. req[r].row = None /\ req[r].made = <<>>
  BY <1>2 DEF Shaped
<1>4. ~NameTaken(u, n) => Named(db, u, n) = {}
  BY DEF NameTaken, DecksNamed, Named
<1>5. CASE Finish(r) /\ db' = db
  BY <1>1, <1>2, <1>5, QuietRule
<1>6. CASE /\ ~NameTaken(u, n) /\ Unused(Decks) # {}
           /\ db' = CreateDeck(db, Fresh(Decks), u, n, r) /\ Finish(r)
  <2>1. Fresh(Decks) \in Decks
    BY <1>6, FreshIs
  <2> DEFINE d == Fresh(Decks)
  <2> HIDE DEF d, u, n
  <2>2. d \in Decks /\ db' = CreateDeck(db, d, u, n, r) /\ Named(db, u, n) = {}
    BY <1>4, <1>6, <2>1 DEF d
  <2>3. /\ Sound(db') /\ Standing(db) \subseteq Standing(db')
        /\ LiveDecks(db') = LiveDecks(db) \cup {d}
        /\ db'.decks[d].owner = u /\ db'.decks[d].name = n
        /\ \A e \in Decks : e # d => db'.decks[e] = db.decks[e]
    BY <1>2, <2>2, DeckSound
  <2>4. \A s \in Requests : LocksKept(db', req[s])
    BY <1>2, <2>3, LocksStay DEF Kept
  <2>5. ASSUME NEW s \in Requests PROVE NameHeld(db', req[s])
    <3>1. NameHeld(db, req[s]) /\ (Naming(req[s]) => req[s].user # u \/ req[s].name # n)
      BY <1>1, <1>2, NameFreeApart DEF Kept
    <3> QED BY <2>3, <3>1, NameStillHeld
  <2> QED BY <1>2, <1>6, <2>3, <2>4, <2>5, FinishRule
<1>7. CASE /\ ~NameTaken(u, n) /\ req[r].op = "import" /\ Unused(Decks) # {}
           /\ Go(r, [req[r] EXCEPT !.pc = "item", !.new = Fresh(Decks)])
           /\ UNCHANGED db
  <2>1. Fresh(Decks) \in Decks
    BY <1>7, FreshIs
  <2>q. PICK q : q = [req[r] EXCEPT !.pc = "item", !.new = Fresh(Decks)]
    OBVIOUS
  <2>2. /\ q \in Request /\ q.pc = "item" /\ q.new \in Decks /\ q.op = "import"
        /\ q.row = None /\ q.made = <<>> /\ q.user = u /\ q.name = n
    BY <1>2, <1>3, <1>7, <2>1, <2>q, ZenonT(60) DEF Request, Steps
  <2>3. Shaped(q)
    <3>1. q.made \in Seq(Cards)
      BY <2>2
    <3> QED BY <2>2, <3>1 DEF Shaped
  <2>4. LocksKept(db, q) /\ NameHeld(db, q)
    BY <1>4, <1>7, <2>2 DEF LocksKept, Holds, NameHeld
  <2>5. \A s \in Requests : NamesApart(req[s], q) /\ NamesApart(q, req[s])
    BY <1>1, <2>2, NameFreeApart DEF NamesApart
  <2>6. req' = [req EXCEPT ![r] = q]
    BY <1>7, <2>q DEF Go
  <2>7. Kept(db', q) /\ Sound(db') /\ \A s \in Requests : Kept(db', req[s])
    BY <1>2, <1>7, <2>3, <2>4 DEF Kept
  <2> QED BY <1>2, <2>5, <2>6, <2>7, StepRule
<1> QED BY <1>5, <1>6, <1>7 DEF InsertDeck

\* The first statement of a clone.
LEMMA CloneDeckKeeps ==
  ASSUME Inv1, NEW r \in Requests, CloneDeck(r)
  PROVE  Inv1'
<1> DEFINE u == req[r].user
           n == req[r].name
<1>1. /\ UNCHANGED <<db, objects>> /\ quiet /\ At(r, "cloneDeck") /\ NameFree(u, n)
      /\ UNCHANGED overlapped
  BY DEF CloneDeck, Go, Finish
<1>2. /\ Typed' /\ db \in Database /\ Sound(db) /\ req[r] \in Request
      /\ Shaped(req[r]) /\ req[r].pc = "cloneDeck"
      /\ \A s \in Requests : Kept(db, req[s])
  <2>1. Typed /\ Shaped(req[r]) /\ db \in Database /\ Sound(db) /\ req[r] \in Request
    BY InvDb
  <2> QED BY <1>1, <2>1, QuietTyped DEF At, Inv1
<1>3. req[r].row \in Decks /\ req[r].made = <<>> /\ req[r].op = "clone"
  BY <1>2 DEF Shaped
<1>4. CASE Finish(r)
  BY <1>1, <1>2, <1>4, QuietRule
<1>5. CASE /\ ~NameTaken(u, n) /\ Unused(Decks) # {}
           /\ Go(r, [req[r] EXCEPT !.pc = "cloneCards", !.new = Fresh(Decks)])
  <2>1. Fresh(Decks) \in Decks
    BY <1>5, FreshIs
  <2>q. PICK q : q = [req[r] EXCEPT !.pc = "cloneCards", !.new = Fresh(Decks)]
    OBVIOUS
  <2>2. /\ q \in Request /\ q.pc = "cloneCards" /\ q.new \in Decks
        /\ q.row \in Decks /\ q.made = <<>> /\ q.op = "clone" /\ q.user = u /\ q.name = n
    BY <1>2, <1>3, <1>5, <2>1, <2>q DEF Request, Steps
  <2>3. Shaped(q)
    BY <2>2 DEF Shaped
  <2>4. LocksKept(db, q) /\ NameHeld(db, q)
    <3>1. Named(db, u, n) = {}
      BY <1>5 DEF NameTaken, DecksNamed, Named
    <3> QED BY <2>2, <3>1 DEF LocksKept, Holds, NameHeld
  <2>5. \A s \in Requests : NamesApart(req[s], q) /\ NamesApart(q, req[s])
    BY <1>1, <2>2, NameFreeApart DEF NamesApart
  <2>6. req' = [req EXCEPT ![r] = q]
    BY <1>5, <2>q DEF Go
  <2>7. Kept(db', q) /\ Sound(db') /\ \A s \in Requests : Kept(db', req[s])
    BY <1>1, <1>2, <2>3, <2>4 DEF Kept
  <2> QED BY <1>2, <2>5, <2>6, <2>7, StepRule
<1> QED BY <1>4, <1>5 DEF CloneDeck

\* A transaction's new deck and its cards, at COMMIT.
LEMMA PublishKeeps ==
  ASSUME Inv1, NEW r \in Requests, Finish(r), Typed', Naming(req[r]),
         NEW D, D = CreateDeck(db, req[r].new, req[r].user, req[r].name, r),
         db' \in Database, db'.decks = D.decks, db'.quizzes = D.quizzes,
         db'.questions = D.questions, db'.media = D.media, db'.shares = D.shares,
         \A c \in Cards : \/ db'.cards[c] = D.cards[c]
                         \/ db'.cards[c] = CardRow("live", req[r].new, r)
  PROVE  Inv1'
<1> DEFINE d == req[r].new
           u == req[r].user
           n == req[r].name
<1>1. /\ db \in Database /\ Sound(db) /\ req[r] \in Request
      /\ \A s \in Requests : LocksKept(db, req[s]) /\ NameHeld(db, req[s])
  BY InvDb
<1>2. d \in Decks /\ u \in Users \cup {None} /\ n \in Names \cup {None} /\ Named(db, u, n) = {}
  <2>1. u \in Users \cup {None} /\ n \in Names \cup {None}
    BY <1>1 DEF Request
  <2> QED BY <1>1, <2>1 DEF Naming, NameHeld
<1>3. \A s \in Requests : s # r => (Naming(req[s]) => req[s].user # u \/ req[s].name # n)
  BY DEF Inv1, NamesApart
<1>4. D = CreateDeck(db, d, u, n, r)
  OBVIOUS
<1>5. \A c \in Cards : db'.cards[c] = D.cards[c] \/ db'.cards[c] = CardRow("live", d, r)
  OBVIOUS
<1> HIDE DEF d, u, n
<1>6. /\ Sound(D) /\ Standing(db) \subseteq Standing(D)
      /\ LiveDecks(D) = LiveDecks(db) \cup {d}
      /\ D.decks[d].owner = u /\ D.decks[d].name = n
      /\ \A e \in Decks : e # d => D.decks[e] = db.decks[e]
  BY <1>1, <1>2, <1>4, DeckSound
<1>7. Sound(db') /\ Standing(D) \subseteq Standing(db')
  <2>1. d \in LiveDecks(D)
    BY <1>6
  <2> QED BY <1>5, <1>6, <2>1, CardsSound
<1>8. LiveDecks(db') = LiveDecks(D)
  BY DEF LiveDecks
<1>9. \A s \in Requests : LocksKept(db', req[s])
  BY <1>1, <1>6, <1>7, LocksStay
<1>10. ASSUME NEW s \in Requests, s # r PROVE NameHeld(db', req[s])
  <2>1. /\ LiveDecks(db') = LiveDecks(db) \cup {d}
        /\ db'.decks[d].owner = u /\ db'.decks[d].name = n
        /\ \A e \in Decks : e # d => db'.decks[e] = db.decks[e]
    BY <1>6, <1>8
  <2> QED BY <1>1, <1>3, <1>10, <2>1, NameStillHeld
<1> QED BY <1>7, <1>9, <1>10, FinishRule

\* The second statement of a clone, with its commit.
LEMMA CloneCardsKeeps ==
  ASSUME Inv1, NEW r \in Requests, CloneCards(r)
  PROVE  Inv1'
<1> DEFINE D == CreateDeck(db, req[r].new, req[r].user, req[r].name, r)
<1>1. /\ Finish(r) /\ UNCHANGED objects /\ quiet /\ At(r, "cloneCards") /\ UNCHANGED overlapped
  BY DEF CloneCards, Finish, Go
<1>2. PICK copies \in Copies(req[r].row) : db' = CopyCards(D, copies, req[r].new, r)
  BY DEF CloneCards
<1>3. /\ Typed' /\ db \in Database /\ req[r] \in Request
      /\ Shaped(req[r]) /\ req[r].pc = "cloneCards" /\ req[r].new \in Decks
  <2>1. Typed /\ Shaped(req[r]) /\ db \in Database /\ req[r] \in Request
    BY InvDb
  <2> QED BY <1>1, <2>1, QuietTyped DEF At, Shaped
<1>4. Naming(req[r]) /\ req[r].user \in Users \cup {None} /\ req[r].name \in Names \cup {None}
  BY <1>3 DEF Naming, Request
<1>5. D \in Database
  BY <1>3, <1>4, CreateDeckIs
<1> HIDE DEF D
<1>6. PICK src \in SUBSET Cards : copies \in [src -> Cards]
  <2>1. copies \in [CardsOf(db, req[r].row) -> Unused(Cards)]
    BY CopiesAre
  <2>2. Unused(Cards) \subseteq Cards
    BY DEF Unused
  <2>3. CardsOf(db, req[r].row) \subseteq Cards
    BY DEF CardsOf, LiveCards
  <2> QED BY <2>1, <2>2, <2>3
<1>7. PICK N : N = Image(copies, src)
  OBVIOUS
<1>8. /\ db' \in Database
      /\ \A c \in Cards : db'.cards[c] = IF c \in N THEN CardRow("live", req[r].new, r)
                                                    ELSE D.cards[c]
      /\ db'.decks = D.decks /\ db'.quizzes = D.quizzes /\ db'.questions = D.questions
      /\ db'.media = D.media /\ db'.shares = D.shares
  <2>1. PICK d : d = req[r].new
    OBVIOUS
  <2>2. d \in Decks /\ db' = CopyCards(D, copies, d, r)
    BY <1>2, <1>3, <2>1
  <2>3. /\ db' \in Database
        /\ \A c \in Cards : db'.cards[c] = IF c \in N THEN CardRow("live", d, r)
                                                    ELSE D.cards[c]
        /\ db'.decks = D.decks /\ db'.quizzes = D.quizzes /\ db'.questions = D.questions
        /\ db'.media = D.media /\ db'.shares = D.shares
    BY <1>5, <1>6, <1>7, <2>2, CopyCardsIs
  <2> QED BY <2>1, <2>3
<1>9. D = CreateDeck(db, req[r].new, req[r].user, req[r].name, r)
  BY DEF D
<1>10. \A c \in Cards : db'.cards[c] = D.cards[c] \/ db'.cards[c] = CardRow("live", req[r].new, r)
  BY <1>8
<1> QED BY <1>1, <1>3, <1>4, <1>8, <1>9, <1>10, PublishKeeps

\* The statement that takes a deck's shares back before a new one.
LEMMA DropShareKeeps ==
  ASSUME Inv1, NEW r \in Requests, DropShare(r)
  PROVE  Inv1'
<1>1. /\ UNCHANGED <<objects, adrift, pruned>> /\ At(r, "dropShare")
      /\ Go(r, [req[r] EXCEPT !.pc = "insertShare"])
      /\ \/ db' = DeleteShare(db, req[r].row) /\ UNCHANGED faults
         \/ faults < MaxFaults /\ faults' = faults + 1 /\ UNCHANGED db
  BY DEF DropShare
<1>2. /\ Typed /\ db \in Database /\ Sound(db) /\ req[r] \in Request
      /\ Shaped(req[r]) /\ req[r].pc = "dropShare" /\ req[r].row \in Decks
      /\ \A s \in Requests : LocksKept(db, req[s]) /\ NameHeld(db, req[s]) /\ Shaped(req[s])
  BY <1>1, InvDb DEF At, Shaped
<1>3. Typed'
  <2>1. faults \in 0..MaxFaults /\ faults' \in 0..MaxFaults
    BY <1>1, <1>2, BoundsOK DEF Typed
  <2> QED BY <1>1, <1>2, <2>1 DEF Typed, Go
<1>q. PICK q : q = [req[r] EXCEPT !.pc = "insertShare"]
  OBVIOUS
<1>4. /\ q \in Request /\ q.pc = "insertShare" /\ q.row \in Decks /\ q.new = None /\ q.made = <<>>
  <2>1. req[r].new = None /\ req[r].made = <<>>
    BY <1>2 DEF Shaped
  <2> QED BY <1>q, <1>2, <2>1 DEF Request, Steps
<1>5. Shaped(q)
  BY <1>4 DEF Shaped
<1>6. req' = [req EXCEPT ![r] = q]
  BY <1>1, <1>q DEF Go
<1>7. CASE UNCHANGED db
  BY <1>3, <1>4, <1>5, <1>6, <1>7, IdleRule
<1>8. CASE db' = DeleteShare(db, req[r].row)
  <2>1. PICK d \in Decks : d = req[r].row
    BY <1>2
  <2>2. /\ db' \in Database /\ db'.shares = {s \in db.shares : s.deck # d}
        /\ db'.decks = db.decks /\ db'.cards = db.cards /\ db'.quizzes = db.quizzes
        /\ db'.questions = db.questions /\ db'.media = db.media
    BY <1>2, <1>8, <2>1, SharesAre
  <2>3. \A s \in db'.shares : s \in db.shares
    BY <2>2
  <2>4. Sound(db') /\ Standing(db') = Standing(db)
    BY <1>2, <2>2, <2>3, SharesSound
  <2>5. \A s \in Requests : LocksKept(db', req[s])
    BY <1>2, <2>4, LocksStay
  <2>6. LiveDecks(db') = LiveDecks(db)
    BY <2>2 DEF LiveDecks
  <2>7. \A s \in Requests : NameHeld(db', req[s])
    BY <1>2, <2>2, <2>6, NamesStay
  <2>8. /\ Kept(db', q) /\ \A s \in Requests : Kept(db', req[s]) /\ NamesApart(req[s], q)
                                               /\ NamesApart(q, req[s])
    BY <1>2, <1>4, <1>5, <2>5, <2>7, IdleKept DEF Kept
  <2> QED BY <1>3, <1>6, <2>4, <2>8, StepRule
<1> QED BY <1>1, <1>7, <1>8

\* A share is inserted or taken back.
LEMMA SharesKeep ==
  ASSUME Inv1, NEW r \in Requests, InsertShare(r) \/ UnshareRow(r)
  PROVE  Inv1'
<1>1. /\ Finish(r) /\ UNCHANGED objects /\ quiet
      /\ \/ db' = db
         \/ /\ Exists(req[r].row) /\ db' = CreateShare(db, r, req[r].row)
         \/ db' = DeleteShare(db, req[r].row)
      /\ req[r].pc \in {"insertShare", "unshare"}
  BY DEF InsertShare, UnshareRow, At
<1>2. /\ Typed' /\ db \in Database /\ Sound(db) /\ req[r].row \in Decks
  <2>1. Typed /\ Shaped(req[r]) /\ db \in Database /\ Sound(db)
    BY InvDb
  <2>2. UNCHANGED overlapped
    BY <1>1, FinishIs
  <2> QED BY <1>1, <2>1, <2>2, QuietTyped DEF Shaped
<1>3. CASE db' = db
  BY <1>1, <1>2, <1>3, QuietRule
<1>4. PICK d \in Decks : d = req[r].row
  BY <1>2
<1>5. CASE d \in LiveDecks(db) /\ db' = CreateShare(db, r, d)
  <2>1. /\ db' \in Database /\ db'.shares = db.shares \cup {[code |-> r, deck |-> d]}
        /\ db'.decks = db.decks /\ db'.cards = db.cards /\ db'.quizzes = db.quizzes
        /\ db'.questions = db.questions /\ db'.media = db.media
    BY <1>2, <1>5, SharesAre
  <2>2. \A s \in db'.shares : s \in db.shares \/ s.deck \in LiveDecks(db)
    BY <1>5, <2>1
  <2>3. Sound(db') /\ Standing(db') = Standing(db)
    BY <1>2, <2>1, <2>2, SharesSound
  <2> QED BY <1>1, <1>2, <2>1, <2>3, QuietRule
<1>6. CASE db' = DeleteShare(db, d)
  <2>1. /\ db' \in Database /\ db'.shares = {s \in db.shares : s.deck # d}
        /\ db'.decks = db.decks /\ db'.cards = db.cards /\ db'.quizzes = db.quizzes
        /\ db'.questions = db.questions /\ db'.media = db.media
    BY <1>2, <1>6, SharesAre
  <2>2. \A s \in db'.shares : s \in db.shares \/ s.deck \in LiveDecks(db)
    BY <2>1
  <2>3. Sound(db') /\ Standing(db') = Standing(db)
    BY <1>2, <2>1, <2>2, SharesSound
  <2> QED BY <1>1, <1>2, <2>1, <2>3, QuietRule
<1>7. Exists(req[r].row) => d \in LiveDecks(db)
  BY <1>4, ExistsIn
<1> QED BY <1>1, <1>3, <1>4, <1>5, <1>6, <1>7

\* One card or one quiz is inserted.
LEMMA CreateKeeps ==
  ASSUME Inv1, NEW r \in Requests, Create(r)
  PROVE  Inv1'
<1>1. /\ Finish(r) /\ UNCHANGED objects /\ quiet /\ At(r, "create")
      /\ \/ db' = db
         \/ /\ req[r].op = "create" /\ Unused(Cards) # {} /\ Exists(req[r].row)
            /\ db' = CreateCard(db, Fresh(Cards), req[r].row, r)
         \/ /\ req[r].row = None \/ Exists(req[r].row)
            /\ db' = CreateQuiz(db, Fresh(Quizzes), req[r].user, req[r].row)
            /\ Unused(Quizzes) # {}
  BY DEF Create
<1>2. /\ Typed' /\ db \in Database /\ Sound(db) /\ req[r].row \in Decks \cup {None}
      /\ req[r].op = "create" => req[r].row \in Decks
      /\ req[r].user \in Users \cup {None}
  <2>1. Typed /\ Shaped(req[r]) /\ db \in Database /\ Sound(db) /\ req[r] \in Request
    BY InvDb
  <2>2. UNCHANGED overlapped
    BY <1>1, FinishIs
  <2>3. req[r].user \in Users \cup {None}
    BY <2>1 DEF Request
  <2> QED BY <1>1, <2>1, <2>2, <2>3, QuietTyped DEF Shaped, At
<1>3. CASE db' = db
  BY <1>1, <1>2, <1>3, QuietRule
<1>4. PICK d, u : d = req[r].row /\ u = req[r].user
  OBVIOUS
<1>5. ASSUME NEW c \in Cards, req[r].op = "create", Exists(req[r].row), db' = CreateCard(db, c, d, r)
      PROVE  Inv1'
  <2>1. d \in LiveDecks(db) /\ d \in Decks
    BY <1>2, <1>4, <1>5, ExistsIn
  <2>2. /\ db' \in Database
        /\ \A e \in Cards : db'.cards[e] = db.cards[e] \/ db'.cards[e] = CardRow("live", d, r)
        /\ db'.decks = db.decks /\ db'.quizzes = db.quizzes /\ db'.questions = db.questions
        /\ db'.media = db.media /\ db'.shares = db.shares
    BY <1>2, <1>5, <2>1, CreateCardIs
  <2>3. Sound(db') /\ Standing(db) \subseteq Standing(db')
    BY <1>2, <2>1, <2>2, CardsSound
  <2> QED BY <1>1, <1>2, <2>2, <2>3, QuietRule
<1>6. ASSUME NEW z \in Quizzes, req[r].row = None \/ Exists(req[r].row), db' = CreateQuiz(db, z, u, d)
      PROVE  Inv1'
  <2>1. d \in LiveDecks(db) \cup {None} /\ u \in Users \cup {None}
    BY <1>2, <1>4, <1>6, ExistsIn
  <2>2. Sound(db') /\ Standing(db) \subseteq Standing(db') /\ db'.decks = db.decks
    BY <1>2, <1>6, <2>1, QuizSound
  <2> QED BY <1>1, <1>2, <2>2, QuietRule
<1>7. /\ Unused(Cards) # {} => Fresh(Cards) \in Cards
      /\ Unused(Quizzes) # {} => Fresh(Quizzes) \in Quizzes
  BY FreshIs
<1> QED BY <1>1, <1>3, <1>4, <1>5, <1>6, <1>7

LEMMA CountIsNat ==
  ASSUME NEW D, NEW z
  PROVE  CountQuestions(D, z) \in Nat
<1>1. QuestionsOf(D, z) \subseteq Questions
  BY DEF QuestionsOf, LiveQuestions
<1>2. IsFiniteSet(QuestionsOf(D, z))
  BY <1>1, UuidsOK, FS_Subset
<1> QED BY <1>2, FS_CardinalityType DEF CountQuestions

\* The questions are counted before more are added.
LEMMA CountKeeps ==
  ASSUME Inv1, NEW r \in Requests, Count(r)
  PROVE  Inv1'
<1>1. /\ UNCHANGED <<db, objects>> /\ quiet /\ At(r, "count")
      /\ Go(r, [req[r] EXCEPT !.pc = "item", !.count = CountQuestions(db, req[r].row)])
  BY DEF Count
<1>2. /\ Typed' /\ Sound(db) /\ req[r] \in Request
      /\ Shaped(req[r]) /\ req[r].pc = "count"
      /\ \A s \in Requests : Kept(db, req[s])
  <2>1. Typed /\ Shaped(req[r]) /\ Sound(db) /\ req[r] \in Request
    BY InvDb
  <2>2. UNCHANGED overlapped
    BY <1>1 DEF Go
  <2> QED BY <1>1, <2>1, <2>2, QuietTyped DEF At, Inv1
<1>3. /\ req[r].row \in Quizzes /\ req[r].made = <<>> /\ req[r].new = None /\ req[r].op # "import"
  BY <1>2 DEF Shaped
<1>4. CountQuestions(db, req[r].row) \in Nat
  BY CountIsNat
<1>q. PICK q : q = [req[r] EXCEPT !.pc = "item", !.count = CountQuestions(db, req[r].row)]
  OBVIOUS
<1>5. /\ q \in Request /\ q.pc = "item" /\ q.row \in Quizzes /\ q.made = <<>> /\ q.new = None
      /\ q.op # "import"
  BY <1>q, <1>2, <1>3, <1>4, ZenonT(60) DEF Request, Steps
<1>6. Shaped(q)
  <2>1. q.made \in Seq(Pairs)
    BY <1>5
  <2> QED BY <1>5, <2>1 DEF Shaped
<1>7. None \notin Decks
  BY BoundsOK DEF Rows
<1>8. Kept(db, q) /\ \A p : NamesApart(q, p) /\ NamesApart(p, q)
  BY <1>5, <1>6, <1>7 DEF Kept, LocksKept, NameHeld, NamesApart, Naming, Holds
<1>9. /\ req' = [req EXCEPT ![r] = q] /\ Sound(db') /\ Kept(db', q)
      /\ \A s \in Requests : Kept(db', req[s])
  BY <1>1, <1>2, <1>8, <1>q DEF Go
<1> QED BY <1>2, <1>8, <1>9, StepRule

NameOf(item) == IF item \in Cards THEN item ELSE item[1]

\* What a transaction inserts next: a card, or a question about a card or none.
LEMMA ItemIs ==
  ASSUME NEW r \in Requests, req[r] \in Request, NEW item \in Items(r)
  PROVE  /\ req[r].row \in Quizzes => item \in Pairs /\ item \notin Cards
         /\ req[r].row \notin Quizzes => item \in Cards
         /\ NameOf(item) \in FreeRows /\ NameOf(item) \notin Reserved
         /\ NameOf(item) \in Cards \cup Questions
<1>1. CASE req[r].row \in Quizzes
  <2>1. item \in (IF Unused(Questions) = {} THEN {} ELSE {Fresh(Questions)})
                   \X (IF req[r].links = {} THEN {None} ELSE Unlinked(r))
    BY <1>1 DEF Items
  <2>2. /\ Unused(Questions) # {} /\ item[1] = Fresh(Questions)
        /\ item[2] \in {None} \cup Unlinked(r) /\ item = <<item[1], item[2]>>
    BY <2>1
  <2>3. Unlinked(r) \subseteq Cards
    BY DEF Unlinked, Request
  <2>4. Fresh(Questions) \in Questions /\ Fresh(Questions) \in FreeRows
        /\ Fresh(Questions) \notin Reserved
    BY <2>2, FreshIs
  <2>5. item \in Pairs
    BY <2>2, <2>3, <2>4 DEF Pairs
  <2>6. item \notin Cards
    BY <2>5, UuidsOK DEF Pairs
  <2> QED BY <1>1, <2>2, <2>4, <2>5, <2>6 DEF NameOf
<1>2. CASE req[r].row \notin Quizzes
  <2>1. item \in IF Unused(Cards) = {} THEN {} ELSE {Fresh(Cards)}
    BY <1>2 DEF Items
  <2>2. Unused(Cards) # {} /\ item = Fresh(Cards)
    BY <2>1
  <2> QED BY <1>2, <2>2, FreshIs DEF NameOf
<1> QED BY <1>1, <1>2

\* A row of a batch refers to rows that stand, and locks them.
LEMMA InsertItemKeeps ==
  ASSUME Inv1, NEW r \in Requests, InsertItem(r)
  PROVE  Inv1'
<1>1. /\ UNCHANGED <<db, objects>> /\ quiet /\ At(r, "item") /\ UNCHANGED overlapped
  BY DEF InsertItem, Finish, Go
<1>2. /\ Typed' /\ Sound(db) /\ req[r] \in Request
      /\ Shaped(req[r]) /\ req[r].pc = "item"
      /\ \A s \in Requests : Kept(db, req[s])
      /\ \A s \in Requests : s # r => NamesApart(req[s], req[r]) /\ NamesApart(req[r], req[s])
  <2>1. Typed /\ Shaped(req[r]) /\ Sound(db) /\ req[r] \in Request
    BY InvDb
  <2> QED BY <1>1, <2>1, QuietTyped DEF At, Inv1
<1>3. CASE Finish(r)
  BY <1>1, <1>2, <1>3, QuietRule
<1>4. ASSUME NEW item \in Items(r), ~RefersToNothing(r, item),
             Go(r, [req[r] EXCEPT !.made = Append(@, item)])
      PROVE  Inv1'
  <2>1. /\ req[r].row \in Quizzes => item \in Pairs /\ item \notin Cards
        /\ req[r].row \notin Quizzes => item \in Cards
    BY <1>2, ItemIs
  <2>2. \/ /\ req[r].row \in Quizzes /\ req[r].op # "import" /\ req[r].new = None
           /\ req[r].made \in Seq(Pairs)
        \/ /\ req[r].row \in Decks /\ req[r].op # "import" /\ req[r].new = None
           /\ req[r].made \in Seq(Cards)
        \/ /\ req[r].row = None /\ req[r].op = "import" /\ req[r].new \in Decks
           /\ req[r].made \in Seq(Cards)
    BY <1>2 DEF Shaped
  <2>3. None \notin Quizzes /\ Decks \cap Quizzes = {}
    BY BoundsOK, UuidsOK DEF Rows
  <2>4. \/ item \in Pairs /\ req[r].made \in Seq(Pairs) /\ req[r].row \in Quizzes
        \/ item \in Cards /\ req[r].made \in Seq(Cards) /\ req[r].row \notin Quizzes
    BY <2>1, <2>2, <2>3
  <2>q. PICK q, made : made = Append(req[r].made, item) /\ q = [req[r] EXCEPT !.made = made]
    OBVIOUS
  <2>5. /\ made \in Seq(Made)
        /\ req[r].made \in Seq(Pairs) /\ item \in Pairs => made \in Seq(Pairs)
        /\ req[r].made \in Seq(Cards) /\ item \in Cards => made \in Seq(Cards)
        /\ \A i \in DOMAIN made : made[i] = item \/ \E j \in DOMAIN req[r].made : made[i] = req[r].made[j]
    <3>1. req[r].made \in Seq(Made)
      BY <1>2 DEF Request
    <3>2. item \in Made
      BY <2>4 DEF Made, Pairs
    <3>3. made \in Seq(Made)
      BY <2>q, <3>1, <3>2
    <3>4. req[r].made \in Seq(Pairs) /\ item \in Pairs => made \in Seq(Pairs)
      BY <2>q
    <3>5. req[r].made \in Seq(Cards) /\ item \in Cards => made \in Seq(Cards)
      BY <2>q
    <3>6. \A i \in DOMAIN made : made[i] = item \/ \E j \in DOMAIN req[r].made : made[i] = req[r].made[j]
      BY <2>q, <3>1
    <3> QED BY <3>3, <3>4, <3>5, <3>6
  <2>6. /\ q \in Request /\ q.pc = "item" /\ q.row = req[r].row /\ q.op = req[r].op
        /\ q.new = req[r].new /\ q.made = made /\ q.user = req[r].user /\ q.name = req[r].name
    BY <1>2, <2>q, <2>5 DEF Request
  <2>7. Shaped(q)
    <3>1. \/ /\ q.row \in Quizzes /\ q.op # "import" /\ q.new = None /\ q.made \in Seq(Pairs)
          \/ /\ q.row \in Decks /\ q.op # "import" /\ q.new = None /\ q.made \in Seq(Cards)
          \/ /\ q.row = None /\ q.op = "import" /\ q.new \in Decks /\ q.made \in Seq(Cards)
      BY <2>1, <2>2, <2>3, <2>5, <2>6
    <3> QED BY <2>6, <3>1 DEF Shaped
  <2>8. LocksKept(db, q)
    <3> SUFFICES ASSUME NEW x \in Rows, Holds(q, x) PROVE x \in Standing(db)
      BY DEF LocksKept
    <3>1. CASE x = q.row /\ q.op # "import"
      <4>1. Exists(x)
        BY <1>4, <2>6, <3>1 DEF RefersToNothing
      <4>2. x \in Quizzes \/ x \in Decks
        BY <2>2, <2>6, <3>1
      <4> QED BY <4>1, <4>2, ExistsIn DEF Standing
    <3>2. CASE item \notin Cards /\ item[2] = x
      <4>1. x \in Cards
        <5>1. x # None
          BY BoundsOK
        <5> QED BY <2>4, <3>2, <5>1 DEF Pairs
      <4>2. Exists(x)
        <5>1. x # None
          BY BoundsOK
        <5> QED BY <1>4, <3>2, <5>1 DEF RefersToNothing
      <4> QED BY <4>1, <4>2, ExistsIn DEF Standing
    <3>3. ASSUME NEW j \in DOMAIN req[r].made, req[r].made[j] \notin Cards, req[r].made[j][2] = x
          PROVE  x \in Standing(db)
      <4>1. Holds(req[r], x)
        BY <1>2, <3>3 DEF Holds
      <4> QED BY <1>2, <4>1 DEF Kept, LocksKept
    <3> QED BY <2>5, <2>6, <3>1, <3>2, <3>3 DEF Holds
  <2>9. NameHeld(db, q) /\ \A s \in Requests : s # r => NamesApart(req[s], q) /\ NamesApart(q, req[s])
    BY <1>2, <2>6 DEF Kept, NameHeld, Naming, NamesApart
  <2>10. /\ req' = [req EXCEPT ![r] = q] /\ Sound(db') /\ Kept(db', q)
         /\ \A s \in Requests : Kept(db', req[s])
    BY <1>1, <1>2, <1>4, <2>q, <2>7, <2>8, <2>9 DEF Go, Kept
  <2> QED BY <1>2, <2>9, <2>10, StepRule
<1> QED BY <1>3, <1>4 DEF InsertItem

\* A batch commits: what it refers to was locked, and still stands.
LEMMA CommitKeeps ==
  ASSUME Inv1, NEW r \in Requests, Commit(r)
  PROVE  Inv1'
<1>1. /\ Finish(r) /\ UNCHANGED objects /\ quiet /\ At(r, "item") /\ UNCHANGED overlapped
  BY DEF Commit, Finish, Go
<1>2. /\ Typed' /\ db \in Database /\ Sound(db) /\ req[r] \in Request
      /\ Shaped(req[r]) /\ req[r].pc = "item"
      /\ LocksKept(db, req[r])
  <2>1. Typed /\ Shaped(req[r]) /\ Sound(db) /\ db \in Database /\ req[r] \in Request
        /\ LocksKept(db, req[r])
    BY InvDb
  <2> QED BY <1>1, <2>1, QuietTyped DEF At
<1>3. PICK x, made, from : x = req[r].row /\ made = req[r].made /\ from = req[r].count
  OBVIOUS
<1>4. \/ x \in Quizzes /\ req[r].op # "import" /\ made \in Seq(Pairs)
      \/ x \in Decks /\ req[r].op # "import" /\ made \in Seq(Cards)
      \/ x = None /\ req[r].op = "import" /\ req[r].new \in Decks
  BY <1>2, <1>3 DEF Shaped
<1>5. from \in Nat
  BY <1>2, <1>3 DEF Request
<1>6. None \notin Quizzes \cup Decks /\ Decks \cap Quizzes = {}
  BY BoundsOK, UuidsOK DEF Rows
<1>7. CASE x \in Quizzes
  <2>1. db' = BulkCreateQuestions(db, made, x, from, r)
    BY <1>3, <1>7 DEF Commit
  <2>2. made \in Seq(Pairs) /\ req[r].op # "import"
    BY <1>4, <1>6, <1>7
  <2>3. made # <<>> => x \in LiveQuizzes(db)
    <3> SUFFICES ASSUME made # <<>> PROVE x \in LiveQuizzes(db)
      OBVIOUS
    <3>1. Holds(req[r], x) /\ x \in Rows
      BY <1>2, <1>3, <1>7, <2>2 DEF Holds, Rows
    <3>2. x \in Standing(db)
      BY <1>2, <3>1 DEF LocksKept
    <3> QED BY <1>7, <3>2, UuidsOK, Lives DEF Standing
  <2>4. \A i \in DOMAIN made : made[i][2] \in LiveCards(db) \cup {None}
    <3> SUFFICES ASSUME NEW i \in DOMAIN made, made[i][2] # None PROVE made[i][2] \in LiveCards(db)
      OBVIOUS
    <3>1. made[i] \in Pairs
      BY <2>2
    <3>2. made[i] \notin Cards /\ made[i][2] \in Cards
      BY <3>1, UuidsOK DEF Pairs
    <3>3. made[i][2] \in Rows /\ made # <<>>
      BY <2>2, <3>2 DEF Rows
    <3>4. Holds(req[r], made[i][2])
      BY <1>2, <1>3, <3>2, <3>3 DEF Holds
    <3>5. made[i][2] \in Standing(db)
      BY <1>2, <3>3, <3>4 DEF LocksKept
    <3>6. Cards \cap Decks = {} /\ Cards \cap Quizzes = {}
      BY UuidsOK
    <3> QED BY <3>2, <3>5, <3>6, Lives DEF Standing
  <2>5. made \in Seq(Questions \X (Cards \cup {None}))
    BY <2>2 DEF Pairs
  <2>6. Sound(db') /\ Standing(db) \subseteq Standing(db') /\ db'.decks = db.decks
    BY <1>2, <1>5, <1>7, <2>1, <2>3, <2>4, <2>5, QuestionsSound
  <2> QED BY <1>1, <1>2, <2>6, QuietRule
<1>8. CASE x \in Decks
  <2>1. db' = CreateCards(db, made, x, r)
    BY <1>3, <1>6, <1>8 DEF Commit
  <2>2. /\ db' \in Database
        /\ \A c \in Cards : db'.cards[c] = IF Carries(made, c) THEN CardRow("live", x, r)
                                                               ELSE db.cards[c]
        /\ db'.decks = db.decks /\ db'.quizzes = db.quizzes /\ db'.questions = db.questions
        /\ db'.media = db.media /\ db'.shares = db.shares
    BY <1>2, <1>8, <2>1, CreateCardsIs
  <2>3. CASE made = <<>>
    <3>1. \A c \in Cards : db'.cards[c] = db.cards[c]
      BY <2>2, <2>3 DEF Carries
    <3>2. Sound(db') /\ Standing(db') = Standing(db)
      BY <1>2, <2>2, <3>1, ContentSound
    <3> QED BY <1>1, <1>2, <2>2, <3>2, QuietRule
  <2>4. CASE made # <<>>
    <3>1. Holds(req[r], x) /\ x \in Rows
      BY <1>2, <1>3, <1>4, <1>6, <1>8, <2>4 DEF Holds, Rows
    <3>2. x \in Standing(db)
      BY <1>2, <3>1 DEF LocksKept
    <3>3. x \notin Cards /\ x \notin Quizzes
      BY <1>8, UuidsOK
    <3>4. x \in LiveDecks(db)
      BY <3>2, <3>3, Lives DEF Standing
    <3>5. Sound(db') /\ Standing(db) \subseteq Standing(db')
      BY <1>2, <2>2, <3>4, CardsSound
    <3> QED BY <1>1, <1>2, <2>2, <3>5, QuietRule
  <2> QED BY <2>3, <2>4
<1>9. CASE x = None
  <2>1. PICK D, d, u, n : /\ d = req[r].new /\ u = req[r].user /\ n = req[r].name
                          /\ D = CreateDeck(db, d, u, n, r)
    OBVIOUS
  <2>2. req[r].new \in Decks
    BY <1>4, <1>6, <1>9
  <2>3. /\ Naming(req[r]) /\ d \in Decks /\ u \in Users \cup {None} /\ n \in Names \cup {None}
    BY <1>2, <2>1, <2>2 DEF Naming, Request
  <2>4. db' = CreateCards(D, made, d, r)
    BY <1>3, <1>6, <1>9, <2>1 DEF Commit
  <2>5. D \in Database
    BY <1>2, <2>1, <2>3, CreateDeckIs
  <2>6. /\ db' \in Database
        /\ \A c \in Cards : db'.cards[c] = IF Carries(made, c) THEN CardRow("live", d, r)
                                                               ELSE D.cards[c]
        /\ db'.decks = D.decks /\ db'.quizzes = D.quizzes /\ db'.questions = D.questions
        /\ db'.media = D.media /\ db'.shares = D.shares
    BY <2>3, <2>4, <2>5, CreateCardsIs
  <2>7. /\ D = CreateDeck(db, req[r].new, req[r].user, req[r].name, r)
        /\ \A c \in Cards : db'.cards[c] = D.cards[c] \/ db'.cards[c] = CardRow("live", req[r].new, r)
    BY <2>1, <2>6
  <2> QED BY <1>1, <1>2, <2>3, <2>6, <2>7, PublishKeeps
<1> QED BY <1>4, <1>7, <1>8, <1>9

\* The object of an upload is stored.
LEMMA StoreUploadKeeps ==
  ASSUME Inv1, NEW r \in Requests, StoreUpload(r)
  PROVE  Inv1'
<1>1. /\ UNCHANGED db /\ quiet /\ At(r, "upload") /\ Unused(Media) # {}
      /\ objects' = objects \cup {Fresh(Media)}
      /\ Go(r, [req[r] EXCEPT !.pc = "insertMedia", !.new = Fresh(Media)])
  BY DEF StoreUpload
<1>2. Fresh(Media) \in Media
  BY <1>1, FreshIs
<1>3. /\ Typed /\ req[r] \in Request /\ Shaped(req[r]) /\ req[r].pc = "upload"
      /\ req[r].row \in Cards /\ req[r].made = <<>>
  BY <1>1, InvDb DEF At, Shaped
<1>4. Typed'
  BY <1>1, <1>2, <1>3 DEF Typed, Go, quiet
<1>q. PICK q : q = [req[r] EXCEPT !.pc = "insertMedia", !.new = Fresh(Media)]
  OBVIOUS
<1>5. /\ q \in Request /\ q.pc = "insertMedia" /\ q.row \in Cards /\ q.new \in Media /\ q.made = <<>>
  BY <1>q, <1>2, <1>3 DEF Request, Steps
<1>6. Shaped(q)
  BY <1>5 DEF Shaped
<1>7. req' = [req EXCEPT ![r] = q]
  BY <1>1, <1>q DEF Go
<1> QED BY <1>1, <1>4, <1>5, <1>6, <1>7, IdleRule

LEMMA ToCleanup ==
  ASSUME Inv1, NEW r \in Requests, At(r, "insertMedia"), UNCHANGED db, Typed',
         Go(r, [req[r] EXCEPT !.pc = "cleanup"])
  PROVE  Inv1'
<1>1. /\ req[r] \in Request /\ Shaped(req[r]) /\ req[r].pc = "insertMedia"
      /\ req[r].row \in Cards /\ req[r].made = <<>> /\ req[r].new \in Media
  BY InvDb DEF At, Shaped
<1>q. PICK q : q = [req[r] EXCEPT !.pc = "cleanup"]
  OBVIOUS
<1>2. /\ q \in Request /\ q.pc = "cleanup" /\ q.row \in Cards /\ q.new \in Media /\ q.made = <<>>
  BY <1>q, <1>1 DEF Request, Steps
<1>3. Shaped(q)
  BY <1>2 DEF Shaped
<1>4. req' = [req EXCEPT ![r] = q]
  BY <1>q DEF Go
<1> QED BY <1>2, <1>3, <1>4, IdleRule

\* Its row is inserted, or refused as its card is gone.
LEMMA InsertMediaKeeps ==
  ASSUME Inv1, NEW r \in Requests, InsertMedia(r)
  PROVE  Inv1'
<1>1. /\ UNCHANGED objects /\ quiet /\ At(r, "insertMedia") /\ UNCHANGED overlapped
  BY DEF InsertMedia, Finish, Go
<1>2. /\ Typed' /\ db \in Database /\ Sound(db) /\ req[r] \in Request
      /\ req[r].row \in Cards /\ req[r].new \in Media
  BY <1>1, InvDb, QuietTyped DEF At, Shaped
<1>3. CASE /\ Exists(req[r].row) /\ Finish(r)
           /\ db' = CreateMedium(db, req[r].new, req[r].user, req[r].row)
  <2>1. PICK m, u, c : m = req[r].new /\ u = req[r].user /\ c = req[r].row
    OBVIOUS
  <2>2. /\ m \in Media /\ u \in Users \cup {None} /\ c \in Cards /\ c \in LiveCards(db)
        /\ db' = CreateMedium(db, m, u, c)
    <3>1. req[r].row \in LiveCards(db)
      BY <1>2, <1>3, ExistsIn
    <3>2. req[r].user \in Users \cup {None}
      BY <1>2 DEF Request
    <3> QED BY <1>2, <1>3, <2>1, <3>1, <3>2
  <2>3. Sound(db') /\ Standing(db) \subseteq Standing(db') /\ db'.decks = db.decks
    <3>1. PICK E : E = db'
      OBVIOUS
    <3>2. E = CreateMedium(db, m, u, c) /\ c \in LiveCards(db)
      BY <2>2, <3>1
    <3>3. Sound(E) /\ Standing(db) \subseteq Standing(E) /\ E.decks = db.decks
      BY <1>2, <2>2, <3>2, MediaSound
    <3> QED BY <3>1, <3>3
  <2> QED BY <1>2, <1>3, <2>3, QuietRule
<1>4. CASE Go(r, [req[r] EXCEPT !.pc = "cleanup"]) /\ UNCHANGED db
  BY <1>1, <1>2, <1>4, ToCleanup
<1> QED BY <1>3, <1>4 DEF InsertMedia

LEMMA InsertMediaFailsKeeps ==
  ASSUME Inv1, NEW r \in Requests, InsertMediaFails(r)
  PROVE  Inv1'
<1>1. /\ UNCHANGED <<db, objects, adrift, pruned>> /\ At(r, "insertMedia") /\ UNCHANGED overlapped
      /\ faults < MaxFaults /\ faults' = faults + 1
      /\ Go(r, [req[r] EXCEPT !.pc = "cleanup"])
  BY DEF InsertMediaFails, Go
<1>2. Typed'
  <2>1. Typed
    BY InvDb
  <2>2. faults' \in 0..MaxFaults
    BY <1>1, <2>1, BoundsOK DEF Typed
  <2> QED BY <1>1, <2>1, <2>2 DEF Typed
<1> QED BY <1>1, <1>2, ToCleanup

LEMMA CleanupKeeps ==
  ASSUME Inv1, NEW r \in Requests, Cleanup(r)
  PROVE  Inv1'
<1>1. /\ UNCHANGED db /\ quiet /\ UNCHANGED overlapped /\ Finish(r)
      /\ objects' = objects \ {req[r].new}
  BY DEF Cleanup, Finish, Go
<1>2. Typed' /\ Sound(db)
  BY <1>1, InvDb DEF Typed, quiet
<1> QED BY <1>1, <1>2, QuietRule

LEMMA DropObjectKeeps ==
  ASSUME Inv1, NEW r \in Requests, DropObject(r)
  PROVE  Inv1'
<1>1. /\ UNCHANGED db /\ quiet /\ At(r, "dropObject") /\ UNCHANGED overlapped
      /\ objects' = objects \ {req[r].row}
      /\ Go(r, [req[r] EXCEPT !.pc = "dropRow"])
  BY DEF DropObject, Go
<1>2. Typed'
  BY <1>1, InvDb DEF Typed, quiet
<1>3. /\ req[r] \in Request /\ Shaped(req[r]) /\ req[r].pc = "dropObject"
      /\ req[r].row \in Media /\ req[r].made = <<>> /\ req[r].new = None
  BY <1>1, InvDb DEF At, Shaped
<1>q. PICK q : q = [req[r] EXCEPT !.pc = "dropRow"]
  OBVIOUS
<1>4. /\ q \in Request /\ q.pc = "dropRow" /\ q.row \in Media /\ q.new = None /\ q.made = <<>>
  BY <1>q, <1>3 DEF Request, Steps
<1>5. Shaped(q)
  BY <1>4 DEF Shaped
<1>6. req' = [req EXCEPT ![r] = q]
  BY <1>1, <1>q DEF Go
<1> QED BY <1>1, <1>2, <1>4, <1>5, <1>6, IdleRule

LEMMA DropRowKeeps ==
  ASSUME Inv1, NEW r \in Requests, DropRow(r)
  PROVE  Inv1'
<1>1. /\ UNCHANGED objects /\ quiet /\ At(r, "dropRow") /\ UNCHANGED overlapped /\ Finish(r)
      /\ db' = db \/ db' = DeleteMedium(db, req[r].row)
  BY DEF DropRow, Finish, Go
<1>2. /\ Typed' /\ db \in Database /\ Sound(db) /\ req[r] \in Request /\ req[r].row \in Media
  BY <1>1, InvDb, QuietTyped DEF At, Shaped
<1>3. CASE db' = db
  BY <1>1, <1>2, <1>3, QuietRule
<1>4. CASE db' = DeleteMedium(db, req[r].row)
  <2>1. PICK m, c : m = req[r].row /\ c \in Cards
    BY BoundsOK
  <2>2. m \in Media /\ db' = DeleteMedium(db, m) /\ None \in Users \cup {None}
    BY <1>2, <1>4, <2>1
  <2>3. Sound(db') /\ Standing(db) \subseteq Standing(db') /\ db'.decks = db.decks
    BY <1>2, <2>1, <2>2, MediaSound
  <2> QED BY <1>1, <1>2, <2>3, QuietRule
<1> QED BY <1>1, <1>3, <1>4

\* A handler that returns half way leaves the tables as they are.
LEMMA AbortKeeps ==
  ASSUME Inv1, NEW r \in Requests, Abort(r)
  PROVE  Inv1'
<1>1. /\ UNCHANGED <<db, objects, pruned, faults>> /\ UNCHANGED overlapped /\ Finish(r)
      /\ adrift' = adrift \cup (CASE req[r].pc \in {"insertMedia", "cleanup"} -> {req[r].new}
                              [] req[r].pc = "dropRow" -> {req[r].row}
                              [] OTHER -> {})
  BY DEF Abort, Finish, Go
<1>2. Typed /\ Sound(db) /\ Shaped(req[r])
  BY InvDb
<1>3. adrift' \subseteq Media
  <2>1. /\ req[r].pc \in {"insertMedia", "cleanup"} => req[r].new \in Media
        /\ req[r].pc = "dropRow" => req[r].row \in Media
    BY <1>2 DEF Shaped
  <2> QED BY <1>1, <1>2, <2>1 DEF Typed
<1>4. Typed'
  BY <1>1, <1>2, <1>3 DEF Typed
<1> QED BY <1>1, <1>2, <1>4, QuietRule

LEMMA StutterKeeps ==
  ASSUME Inv1, UNCHANGED vars
  PROVE  Inv1'
<1>1. /\ db' = db /\ objects' = objects /\ req' = req /\ adrift' = adrift /\ pruned' = pruned
      /\ faults' = faults /\ overlapped' = overlapped
  BY DEF vars
<1>2. Typed'
  BY <1>1 DEF Inv1, Typed
<1> QED BY <1>1, <1>2 DEF Inv1

\* One deck with a card, a quiz with a question about it, a recording of it.
LEMMA InitSound ==
  ASSUME Init
  PROVE  Inv1
<1> DEFINE d == One(Decks)  c == One(Cards)  z == One(Quizzes)  q == One(Questions)
           m == One(Media)  u == One(Users)  name == One(Names)
<1>1. /\ d \in Decks /\ c \in Cards /\ z \in Quizzes /\ q \in Questions /\ m \in Media
      /\ u \in Users /\ name \in Names
  BY OneIs, BoundsOK
<1> DEFINE deck == [life |-> "live", owner |-> u, name |-> name, by |-> None]
           quiz == [life |-> "live", owner |-> u, deck |-> d]
           question == [life |-> "live", quiz |-> z, card |-> c, position |-> 0, by |-> None]
           medium == [life |-> "live", owner |-> u, card |-> c]
           card == [CardRow("live", d, None) EXCEPT !.fsrs = "studied"]
           free == FreeCard
<1>2. PICK shared \in BOOLEAN :
        /\ db = [decks |-> [x \in Decks |-> IF x # d THEN FreeDeck ELSE deck],
             cards |-> [x \in Cards |-> IF x # c THEN free ELSE card],
             quizzes |-> [x \in Quizzes |-> IF x # z THEN FreeQuiz ELSE quiz],
             questions |-> [x \in Questions |-> IF x # q THEN FreeQuestion ELSE question],
             media |-> [x \in Media |-> IF x # m THEN FreeMedium ELSE medium],
             shares |-> IF shared THEN {[code |-> Old, deck |-> d]} ELSE {},
             values |-> [x \in Rows |-> Blank]]
        /\ objects = {m}
        /\ req = [r \in Requests |-> NewRequest]
        /\ adrift = {} /\ pruned = FALSE /\ faults = 0 /\ overlapped = FALSE
  BY DEF Init
<1>3. /\ deck \in Deck /\ FreeDeck \in Deck /\ quiz \in Quiz /\ FreeQuiz \in Quiz
      /\ question \in Question /\ FreeQuestion \in Question /\ medium \in Medium /\ FreeMedium \in Medium
  BY <1>1 DEF Deck, FreeDeck, Quiz, FreeQuiz, Question, FreeQuestion, Medium, FreeMedium, Life, By
<1>4. /\ card \in Card /\ card.life = "live" /\ card.deck = d
      /\ free \in Card /\ free.life = "free"
  <2>1. CardRow("live", d, None) \in Card /\ CardRow("live", d, None).life = "live"
        /\ CardRow("live", d, None).deck = d
    BY <1>1, CardRowTyped DEF Life
  <2>2. free \in Card /\ free.life = "free"
    BY CardRowTyped DEF Life, FreeCard
  <2>3. card \in Card /\ card.life = "live" /\ card.deck = d
    BY <2>1 DEF Card
  <2> QED BY <2>2, <2>3
<1>5. /\ deck.life = "live" /\ FreeDeck.life = "free"
      /\ quiz.life = "live" /\ FreeQuiz.life = "free" /\ quiz.deck = d
      /\ question.life = "live" /\ FreeQuestion.life = "free" /\ question.quiz = z /\ question.card = c
      /\ medium.life = "live" /\ FreeMedium.life = "free" /\ medium.card = c
  BY DEF FreeDeck, FreeQuiz, FreeQuestion, FreeMedium
<1> HIDE DEF deck, quiz, question, medium, card, free, d, c, z, q, m, u, name
<1>6. db.shares \in SUBSET Share /\ \A s \in db.shares : s.deck = d
  <2>1. [code |-> Old, deck |-> d] \in Share /\ [code |-> Old, deck |-> d].deck = d
    BY <1>1 DEF Share
  <2>2. db.shares \in {{[code |-> Old, deck |-> d]}, {}}
    BY <1>2
  <2> QED BY <2>1, <2>2
<1>7. Blank \in Values
  BY DEF Blank, Values
<1>8. /\ db.decks = [x \in Decks |-> IF x # d THEN FreeDeck ELSE deck]
      /\ db.cards = [x \in Cards |-> IF x # c THEN free ELSE card]
      /\ db.quizzes = [x \in Quizzes |-> IF x # z THEN FreeQuiz ELSE quiz]
      /\ db.questions = [x \in Questions |-> IF x # q THEN FreeQuestion ELSE question]
      /\ db.media = [x \in Media |-> IF x # m THEN FreeMedium ELSE medium]
      /\ db.values = [x \in Rows |-> Blank]
      /\ db = [decks |-> db.decks, cards |-> db.cards, quizzes |-> db.quizzes,
               questions |-> db.questions, media |-> db.media, shares |-> db.shares,
               values |-> db.values]
  BY <1>2
<1>9. db \in Database
  <2>1. /\ db.decks \in [Decks -> Deck] /\ db.cards \in [Cards -> Card]
        /\ db.quizzes \in [Quizzes -> Quiz] /\ db.questions \in [Questions -> Question]
        /\ db.media \in [Media -> Medium] /\ db.values \in [Rows -> Values]
    BY <1>3, <1>4, <1>7, <1>8
  <2> QED BY <1>6, <1>8, <2>1 DEF Database
<1>10. /\ LiveDecks(db) = {d} /\ LiveCards(db) = {c} /\ LiveQuizzes(db) = {z}
       /\ LiveQuestions(db) = {q} /\ LiveMedia(db) = {m}
  BY <1>1, <1>4, <1>5, <1>8, Lives
<1>11. /\ db.cards[c].deck = d /\ db.quizzes[z].deck = d /\ db.questions[q].quiz = z
       /\ db.questions[q].card = c /\ db.media[m].card = c
  BY <1>1, <1>4, <1>5, <1>8
<1>12. Sound(db)
  BY <1>6, <1>9, <1>10, <1>11 DEF Sound, Refers, NamesDistinct
<1>13. Typed
  <2>1. objects \subseteq Media /\ adrift \subseteq Media
    BY <1>1, <1>2
  <2>2. faults \in 0..MaxFaults
    BY <1>2, BoundsOK
  <2>3. pruned \in BOOLEAN /\ overlapped \in BOOLEAN
    BY <1>2
  <2> QED BY <2>1, <2>2, <2>3 DEF Typed
<1>14. Kept(db, NewRequest) /\ \A p : NamesApart(NewRequest, p)
  <2>1. Shaped(NewRequest)
    BY NewIs DEF Shaped
  <2> QED BY <2>1, NewIs, IdleKept
<1>15. req \in [Requests -> Request] /\ \A r \in Requests : req[r] = NewRequest
  BY <1>2, NewIs
<1> QED BY <1>12, <1>13, <1>14, <1>15 DEF Inv1

\* Every step keeps Inv1.
LEMMA NextKeeps ==
  ASSUME Inv1, [Next]_vars
  PROVE  Inv1'
<1>1. ASSUME NEW r \in Requests, NEW u \in Users, Arrive(r, u) PROVE Inv1'
  <2>1. PICK q : Admitted(r, q) /\ Start(r, q)
    BY <1>1, InvDb, Admission
  <2> QED BY <2>1, StartKeeps
<1>2. ASSUME NEW r \in Requests, Step(r) PROVE Inv1'
  BY <1>2, WriteKeeps, DeleteRowKeeps, SuspendRowKeeps, ResetRowKeeps, InsertDeckKeeps,
     CloneDeckKeeps, CloneCardsKeeps, DropShareKeeps, SharesKeep, CreateKeeps, CountKeeps,
     InsertItemKeeps, CommitKeeps, StoreUploadKeeps, InsertMediaKeeps, InsertMediaFailsKeeps,
     CleanupKeeps, DropObjectKeeps, DropRowKeeps DEF Step
<1> QED BY <1>1, <1>2, AbortKeeps, StutterKeeps DEF Next

\* Inv1 is more than the schema asks for.
LEMMA InvTypes ==
  ASSUME Inv1
  PROVE  SchemaKept
<1>1. Typed /\ Sound(db) /\ \A r \in Requests : req[r] \in Request
  BY InvDb
<1>2. NoOrphans /\ DeckNamesDistinct
  BY <1>1 DEF Sound, Refers, NamesDistinct, NoOrphans, DeckNamesDistinct
<1>3. ASSUME NEW r \in Requests
      PROVE  /\ DOMAIN req[r] = DOMAIN NewRequest
             /\ req[r].pc \in {"new", "done"} \cup Steps /\ req[r].op \in Ops
             /\ req[r].user \in Users \cup {None} /\ req[r].row \in Rows \cup Media \cup {None}
             /\ req[r].cols \subseteq Columns /\ req[r].read \in Values
             /\ \A i \in DOMAIN req[r].made : req[r].made[i] \in Made
  <2>1. req[r] \in Request /\ NewRequest \in Request
    BY <1>1, NewIs
  <2>2. DOMAIN req[r] = DOMAIN NewRequest
    BY <2>1 DEF Request
  <2>3. /\ req[r].pc \in {"new", "done"} \cup Steps /\ req[r].op \in Ops
        /\ req[r].user \in Users \cup {None} /\ req[r].row \in Rows \cup Media \cup {None}
        /\ req[r].cols \subseteq Columns /\ req[r].read \in Values /\ req[r].made \in Seq(Made)
    BY <2>1 DEF Request
  <2> QED BY <2>2, <2>3
<1> QED BY <1>1, <1>2, <1>3 DEF SchemaKept, TypeOK, Typed, Sound

\* The tables are sound in every state, every request has the shape of its step,
\* transactions under way keep what they refer to, and no two are inserting a
\* deck of one name of one user.
THEOREM Inductive1 == Spec => []Inv1
<1>1. Init => Inv1
  BY InitSound
<1>2. Inv1 /\ [Next]_vars => Inv1'
  BY NextKeeps
<1> QED BY <1>1, <1>2, PTL DEF Spec

\* SchemaKept: whatever is deleted beside a request, no row is left that refers to
\* one that is gone, and no user gets two decks of one name.
THEOREM SchemaIsKept == Spec => []SchemaKept
<1>1. Inv1 => SchemaKept
  BY InvTypes
<1> QED BY <1>1, Inductive1, PTL

(***************************************************************************)
(* What a request's step does to each row.                                 *)
(***************************************************************************)
Pending(q) == {NameOf(q.made[i]) : i \in DOMAIN q.made} \cup ({q.new} \ {None})

DeckEffect(r, d) ==
  \/ db'.decks[d] = db.decks[d]
  \/ db'.decks[d] = GoneDeck /\ d \in LiveDecks(db)
  \/ /\ db'.decks[d].life = "live" /\ db'.decks[d].by = r
     /\ \/ At(r, "insertDeck") /\ req[r].op = "create" /\ d \in Unused(Decks)
        \/ At(r, "cloneCards") /\ d = req[r].new
        \/ At(r, "item") /\ req[r].op = "import" /\ d = req[r].new
CardEffect(r, c) ==
  \/ db'.cards[c] = db.cards[c]
  \/ db'.cards[c] = GoneCard /\ c \in LiveCards(db)
  \/ /\ At(r, "suspend") /\ c \in LiveCards(db) /\ db'.cards[c].life = "live"
     /\ db'.cards[c].by = db.cards[c].by /\ db'.cards[c].fsrs = db.cards[c].fsrs
  \/ /\ At(r, "resetFSRS") /\ c \in LiveCards(db) /\ db'.cards[c].life = "live"
     /\ db'.cards[c].by = db.cards[c].by /\ db'.cards[c].suspended = db.cards[c].suspended
  \/ /\ \E d \in Decks : db'.cards[c] = CardRow("live", d, r)
     /\ \/ At(r, "create") /\ req[r].op = "create" /\ c \in Unused(Cards)
        \/ At(r, "cloneCards") /\ c \in Unused(Cards)
        \/ At(r, "item") /\ req[r].row \notin Quizzes /\ Carries(req[r].made, c)
QuestionEffect(r, q) ==
  \/ /\ db'.questions[q].life = db.questions[q].life /\ db'.questions[q].quiz = db.questions[q].quiz
     /\ db'.questions[q].position = db.questions[q].position
     /\ db'.questions[q].by = db.questions[q].by
  \/ At(r, "delete") /\ db'.questions[q] = GoneQuestion /\ q \in LiveQuestions(db)
  \/ /\ At(r, "item") /\ req[r].row \in Quizzes
     /\ \E i \in DOMAIN req[r].made :
          /\ req[r].made[i][1] = q
          /\ db'.questions[q] = QuestionRow(req[r].made, req[r].row, req[r].count, i, r)
MediumEffect(r, m) ==
  \/ db'.media[m].life = db.media[m].life
  \/ At(r, "insertMedia") /\ m = req[r].new /\ db'.media[m].life = "live"
  \/ At(r, "dropRow") /\ m = req[r].row /\ m \in LiveMedia(db) /\ db'.media[m].life = "gone"
ValuesEffect(r, x) ==
  \/ db'.values[x] = db.values[x]
  \/ At(r, "cloneCards") /\ x \in Unused(Cards)
  \/ /\ At(r, "write") /\ x = req[r].row
     /\ \/ db'.values[x] = req[r].read
        \/ db'.values[x] = Coalesced(db.values[x], req[r].read)

Effects(r) == /\ \A d \in Decks : DeckEffect(r, d)
              /\ \A c \in Cards : CardEffect(r, c)
              /\ \A q \in Questions : QuestionEffect(r, q)
              /\ \A m \in Media : MediumEffect(r, m)
              /\ \A x \in Rows : ValuesEffect(r, x)

LEMMA NoEffects ==
  ASSUME NEW r, UNCHANGED db
  PROVE  Effects(r)
  BY DEF Effects, DeckEffect, CardEffect, QuestionEffect, MediumEffect, ValuesEffect

\* The tables that a step leaves alone.
LEMMA Alone ==
  ASSUME NEW r
  PROVE  /\ db'.decks = db.decks => \A d \in Decks : DeckEffect(r, d)
         /\ db'.cards = db.cards => \A c \in Cards : CardEffect(r, c)
         /\ db'.questions = db.questions => \A q \in Questions : QuestionEffect(r, q)
         /\ db'.media = db.media => \A m \in Media : MediumEffect(r, m)
         /\ db'.values = db.values => \A x \in Rows : ValuesEffect(r, x)
  BY DEF DeckEffect, CardEffect, QuestionEffect, MediumEffect, ValuesEffect

LEMMA WriteEffects ==
  ASSUME Inv1, NEW r \in Requests, Write(r)
  PROVE  Effects(r)
<1>1. At(r, "write") /\ db' = IF Exists(req[r].row) THEN Written(req[r].row, req[r].read) ELSE db
  BY DEF Write
<1>2. db \in Database /\ req[r].row \in Rows /\ req[r].read \in Values
  BY <1>1, InvDb DEF At, Shaped, Request
<1>3. CASE db' = db
  BY <1>3, NoEffects
<1>4. CASE db' = Written(req[r].row, req[r].read)
  <2>1. PICK x, new : x = req[r].row /\ new = req[r].read
    OBVIOUS
  <2>2. /\ \A y \in Rows : y # x => db'.values[y] = db.values[y]
        /\ db'.values[x] = new \/ db'.values[x] = Coalesced(db.values[x], new)
        /\ db'.decks = db.decks /\ db'.cards = db.cards /\ db'.quizzes = db.quizzes
        /\ db'.questions = db.questions /\ db'.media = db.media
    BY <1>2, <1>4, <2>1, WrittenIs
  <2>3. \A y \in Rows : ValuesEffect(r, y)
    BY <1>1, <2>1, <2>2 DEF ValuesEffect
  <2> QED BY <2>2, <2>3, Alone DEF Effects
<1> QED BY <1>1, <1>3, <1>4

LEMMA SuspendEffects ==
  ASSUME Inv1, NEW r \in Requests, SuspendRow(r)
  PROVE  Effects(r)
<1>1. At(r, "suspend") /\ db' = SetSuspended(db, req[r].row, req[r].on)
  BY DEF SuspendRow
<1>2. db \in Database /\ req[r].row \in Cards /\ req[r] \in Request
  BY <1>1, InvDb DEF At, Shaped
<1>3. PICK c, on : c = req[r].row /\ on = req[r].on
  OBVIOUS
<1>4. on \in BOOLEAN
  BY <1>2, <1>3 DEF Request
<1>5. CASE c \notin LiveCards(db)
  <2>1. db' = db
    BY <1>1, <1>3, <1>5 DEF SetSuspended
  <2> QED BY <2>1, NoEffects
<1>6. CASE c \in LiveCards(db)
  <2>1. /\ \A e \in Cards : /\ db'.cards[e].life = db.cards[e].life
                            /\ db'.cards[e].by = db.cards[e].by
                            /\ db'.cards[e].fsrs = db.cards[e].fsrs
                            /\ e # c => db'.cards[e] = db.cards[e]
        /\ db'.decks = db.decks /\ db'.questions = db.questions
        /\ db'.media = db.media /\ db'.values = db.values
    <3>1. db' = SetSuspended(db, c, on) /\ c \in Cards
      BY <1>1, <1>2, <1>3
    <3> QED BY <1>2, <1>4, <3>1, SuspendedIs
  <2>2. \A e \in Cards : CardEffect(r, e)
    BY <1>1, <1>6, <2>1, Lives DEF CardEffect
  <2> QED BY <2>1, <2>2, Alone DEF Effects
<1> QED BY <1>5, <1>6

LEMMA ResetEffects ==
  ASSUME Inv1, NEW r \in Requests, ResetRow(r)
  PROVE  Effects(r)
<1>1. At(r, "resetFSRS") /\ db' = ResetFSRS(db, req[r].row)
  BY DEF ResetRow
<1>2. db \in Database /\ req[r].row \in Cards
  BY <1>1, InvDb DEF At, Shaped
<1>3. PICK c : c = req[r].row
  OBVIOUS
<1>4. CASE c \notin LiveCards(db)
  <2>1. db' = db
    BY <1>1, <1>3, <1>4 DEF ResetFSRS
  <2> QED BY <2>1, NoEffects
<1>5. CASE c \in LiveCards(db)
  <2>1. /\ \A e \in Cards : /\ db'.cards[e].life = db.cards[e].life
                            /\ db'.cards[e].by = db.cards[e].by
                            /\ db'.cards[e].suspended = db.cards[e].suspended
                            /\ e # c => db'.cards[e] = db.cards[e]
        /\ db'.decks = db.decks /\ db'.questions = db.questions
        /\ db'.media = db.media /\ db'.values = db.values
    <3>1. db' = ResetFSRS(db, c) /\ c \in Cards
      BY <1>1, <1>2, <1>3
    <3> QED BY <1>2, <3>1, ResetIs
  <2>2. \A e \in Cards : CardEffect(r, e)
    BY <1>1, <1>5, <2>1, Lives DEF CardEffect
  <2> QED BY <2>1, <2>2, Alone DEF Effects
<1> QED BY <1>4, <1>5

\* A DELETE takes a row that is there, of one table.
LEMMA DeleteIs ==
  ASSUME NEW r \in Requests, DeleteRow(r),
         NEW x, x = req[r].row, x \in Decks \cup Cards \cup Quizzes \cup Questions
  PROVE  \/ db' = db
         \/ x \in LiveDecks(db) /\ db' = DeleteDeck(db, x)
         \/ x \in LiveCards(db) /\ db' = DeleteCard(db, x)
         \/ x \in LiveQuizzes(db) /\ db' = DeleteQuiz(db, x)
         \/ x \in LiveQuestions(db) /\ db' = DeleteQuestion(db, x)
<1>1. db' = IF ~Exists(x) THEN db
           ELSE CASE x \in Decks -> DeleteDeck(db, x)
                  [] x \in Cards -> DeleteCard(db, x)
                  [] x \in Quizzes -> DeleteQuiz(db, x)
                  [] x \in Questions -> DeleteQuestion(db, x)
  BY DEF DeleteRow
<1>2. \/ x \in Decks
      \/ x \in Cards /\ x \notin Decks
      \/ x \in Quizzes /\ x \notin Decks /\ x \notin Cards
      \/ x \in Questions /\ x \notin Decks /\ x \notin Cards /\ x \notin Quizzes
  OBVIOUS
<1>3. x \in Decks => x \notin Cards /\ x \notin Quizzes /\ x \notin Questions
  BY UuidsOK
<1>4. x \in Cards => x \notin Quizzes /\ x \notin Questions
  BY UuidsOK
<1>5. x \in Quizzes => x \notin Questions
  BY UuidsOK
<1>6. \/ db' = db
      \/ x \in Decks /\ Exists(x) /\ db' = DeleteDeck(db, x)
      \/ x \in Cards /\ Exists(x) /\ db' = DeleteCard(db, x)
      \/ x \in Quizzes /\ Exists(x) /\ db' = DeleteQuiz(db, x)
      \/ x \in Questions /\ Exists(x) /\ db' = DeleteQuestion(db, x)
  BY <1>1, <1>2, <1>3, <1>4, <1>5
<1>7. Exists(x) => /\ x \in Decks => x \in LiveDecks(db)
                   /\ x \in Cards => x \in LiveCards(db)
                   /\ x \in Quizzes => x \in LiveQuizzes(db)
                   /\ x \in Questions => x \in LiveQuestions(db)
  BY ExistsIn
<1> QED BY <1>6, <1>7

\* What each DELETE does to each row.
LEMMA DeleteEffects ==
  ASSUME Inv1, NEW r \in Requests, DeleteRow(r)
  PROVE  Effects(r)
<1>1. PICK x : x = req[r].row
  OBVIOUS
<1>2. db \in Database /\ x \in Decks \cup Cards \cup Quizzes \cup Questions /\ At(r, "delete")
  BY <1>1, InvDb DEF At, Shaped, DeleteRow
<1>3. CASE db' = db
  BY <1>3, NoEffects
<1>4. ASSUME x \in LiveDecks(db), db' = DeleteDeck(db, x) PROVE Effects(r)
  <2>1. PICK S : S = CardsOf(db, x)
    OBVIOUS
  <2>2. S \subseteq LiveCards(db) /\ x \in Decks
    BY <1>4, <2>1, Lives DEF CardsOf
  <2>3. /\ db'.values = db.values
        /\ \A e \in Decks : db'.decks[e] = IF e = x THEN GoneDeck ELSE db.decks[e]
        /\ \A c \in Cards : db'.cards[c] = IF c \in S THEN GoneCard ELSE db.cards[c]
        /\ \A q \in Questions : /\ db'.questions[q].life = db.questions[q].life
                                /\ db'.questions[q].quiz = db.questions[q].quiz
                                /\ db'.questions[q].position = db.questions[q].position
                                /\ db'.questions[q].by = db.questions[q].by
        /\ \A m \in Media : db'.media[m].life = db.media[m].life
    BY <1>2, <1>4, <2>1, <2>2, DeleteDeckIs
  <2>4. \A d \in Decks : DeckEffect(r, d)
    BY <1>4, <2>3 DEF DeckEffect
  <2>5. \A c \in Cards : CardEffect(r, c)
    BY <2>2, <2>3 DEF CardEffect
  <2>6. \A q \in Questions : QuestionEffect(r, q)
    BY <2>3 DEF QuestionEffect
  <2>7. \A m \in Media : MediumEffect(r, m)
    BY <2>3 DEF MediumEffect
  <2> QED BY <2>3, <2>4, <2>5, <2>6, <2>7, Alone DEF Effects
<1>5. ASSUME x \in LiveCards(db), db' = DeleteCard(db, x) PROVE Effects(r)
  <2>1. {x} \in SUBSET Cards /\ db' = DropCards(db, {x})
    BY <1>5, Lives DEF DeleteCard
  <2>2. /\ db'.values = db.values /\ db'.decks = db.decks
        /\ \A c \in Cards : db'.cards[c] = IF c \in {x} THEN GoneCard ELSE db.cards[c]
        /\ \A q \in Questions : /\ db'.questions[q].life = db.questions[q].life
                                /\ db'.questions[q].quiz = db.questions[q].quiz
                                /\ db'.questions[q].position = db.questions[q].position
                                /\ db'.questions[q].by = db.questions[q].by
        /\ \A m \in Media : db'.media[m].life = db.media[m].life
    BY <1>2, <2>1, DropCardsIs
  <2>3. \A c \in Cards : CardEffect(r, c)
    BY <1>5, <2>2 DEF CardEffect
  <2>4. \A q \in Questions : QuestionEffect(r, q)
    BY <2>2 DEF QuestionEffect
  <2>5. \A m \in Media : MediumEffect(r, m)
    BY <2>2 DEF MediumEffect
  <2> QED BY <2>2, <2>3, <2>4, <2>5, Alone DEF Effects
<1>6. ASSUME x \in LiveQuizzes(db), db' = DeleteQuiz(db, x) PROVE Effects(r)
  <2>1. x \in Quizzes
    BY <1>6, Lives
  <2>2. /\ \A q \in Questions : db'.questions[q] =
             IF q \in QuestionsOf(db, x) THEN GoneQuestion ELSE db.questions[q]
        /\ db'.decks = db.decks /\ db'.cards = db.cards
        /\ db'.media = db.media /\ db'.values = db.values
    BY <1>2, <1>6, <2>1, DeleteQuizIs
  <2>3. QuestionsOf(db, x) \subseteq LiveQuestions(db)
    BY DEF QuestionsOf
  <2>4. \A q \in Questions : QuestionEffect(r, q)
    BY <1>2, <2>2, <2>3 DEF QuestionEffect
  <2> QED BY <2>2, <2>4, Alone DEF Effects
<1>7. ASSUME x \in LiveQuestions(db), db' = DeleteQuestion(db, x) PROVE Effects(r)
  <2>1. {x} \in SUBSET Questions /\ db' = DropQuestions(db, {x})
    BY <1>7, Lives DEF DeleteQuestion
  <2>2. /\ db'.questions = [q \in Questions |-> IF q \in {x} THEN GoneQuestion ELSE db.questions[q]]
        /\ db'.decks = db.decks /\ db'.cards = db.cards
        /\ db'.media = db.media /\ db'.values = db.values
    BY <1>2, <2>1, DropQuestionsIs
  <2>3. \A q \in Questions : db'.questions[q] = IF q = x THEN GoneQuestion ELSE db.questions[q]
    BY <2>2
  <2>4. \A q \in Questions : QuestionEffect(r, q)
    BY <1>2, <1>7, <2>3 DEF QuestionEffect
  <2> QED BY <2>2, <2>4, Alone DEF Effects
<1> QED BY <1>1, <1>2, <1>3, <1>4, <1>5, <1>6, <1>7, DeleteIs

\* A transaction's new deck and its cards, and all else as it was.
LEMMA PublishEffects ==
  ASSUME db \in Database, NEW r \in Requests, NEW d \in Decks, NEW u \in Users \cup {None},
         NEW n \in Names \cup {None}, NEW D, D = CreateDeck(db, d, u, n, r),
         db'.decks = D.decks,
         \/ At(r, "cloneCards") /\ d = req[r].new
         \/ At(r, "item") /\ req[r].op = "import" /\ d = req[r].new
         \/ At(r, "insertDeck") /\ req[r].op = "create" /\ d \in Unused(Decks)
  PROVE  /\ \A e \in Decks : DeckEffect(r, e)
         /\ D \in Database /\ D.cards = db.cards /\ D.questions = db.questions
         /\ D.media = db.media /\ D.values = db.values /\ D.quizzes = db.quizzes
         /\ LiveDecks(db') = LiveDecks(db) \cup {d}
<1>1. /\ D.decks = [db.decks EXCEPT ![d] = [life |-> "live", owner |-> u, name |-> n, by |-> r]]
      /\ D \in Database /\ D.cards = db.cards /\ D.questions = db.questions
      /\ D.media = db.media /\ D.values = db.values /\ D.quizzes = db.quizzes
  BY CreateDeckIs
<1>2. db.decks \in [Decks -> Deck]
  BY DEF Database
<1>3. /\ db'.decks[d].life = "live" /\ db'.decks[d].by = r
      /\ \A e \in Decks : e # d => db'.decks[e] = db.decks[e]
  BY <1>1, <1>2
<1>4. DeckEffect(r, d)
  BY <1>3 DEF DeckEffect
<1>5. \A e \in Decks : e # d => DeckEffect(r, e)
  BY <1>3 DEF DeckEffect
<1>6. LiveDecks(db') = LiveDecks(db) \cup {d}
  BY <1>3, Lives
<1> QED BY <1>1, <1>4, <1>5, <1>6

LEMMA InsertDeckEffects ==
  ASSUME Inv1, NEW r \in Requests, InsertDeck(r)
  PROVE  Effects(r)
<1>1. /\ At(r, "insertDeck")
      /\ \/ db' = db
         \/ /\ req[r].op = "create" /\ Unused(Decks) # {}
            /\ db' = CreateDeck(db, Fresh(Decks), req[r].user, req[r].name, r)
  BY DEF InsertDeck
<1>2. CASE db' = db
  BY <1>2, NoEffects
<1>3. CASE /\ req[r].op = "create" /\ Unused(Decks) # {}
           /\ db' = CreateDeck(db, Fresh(Decks), req[r].user, req[r].name, r)
  <2>1. PICK D, d, u, n : /\ d = Fresh(Decks) /\ u = req[r].user /\ n = req[r].name
                          /\ D = CreateDeck(db, d, u, n, r)
    OBVIOUS
  <2>2. d \in Decks /\ d \in Unused(Decks)
    BY <1>3, <2>1, OneIs DEF Fresh, Unused
  <2>3. /\ db \in Database /\ u \in Users \cup {None} /\ n \in Names \cup {None} /\ db' = D
    BY <1>3, <2>1, InvDb DEF Request
  <2>4. /\ \A e \in Decks : DeckEffect(r, e)
        /\ D.cards = db.cards /\ D.questions = db.questions
        /\ D.media = db.media /\ D.values = db.values
    BY <1>1, <1>3, <2>1, <2>2, <2>3, PublishEffects
  <2> QED BY <2>3, <2>4, Alone DEF Effects
<1> QED BY <1>1, <1>2, <1>3

\* What a clone does: the copies are fresh, as many as the cards it copies.
LEMMA CloneIs ==
  ASSUME Inv1, NEW r \in Requests, CloneCards(r)
  PROVE  \E copies \in [CardsOf(db, req[r].row) -> Unused(Cards)] :
           LET new == Image(copies, CardsOf(db, req[r].row)) IN
           /\ \A c, e \in CardsOf(db, req[r].row) : copies[c] = copies[e] => c = e
           /\ \A e \in Decks : DeckEffect(r, e)
           /\ \A c \in Cards : db'.cards[c] = IF c \in new THEN CardRow("live", req[r].new, r)
                                                           ELSE db.cards[c]
           /\ \A x \in Rows \ new : db'.values[x] = db.values[x]
           /\ db'.questions = db.questions /\ db'.media = db.media /\ db'.quizzes = db.quizzes
           /\ LiveDecks(db') = LiveDecks(db) \cup {req[r].new}
<1> DEFINE src == CardsOf(db, req[r].row)
<1>1. At(r, "cloneCards") /\ req[r].pc = "cloneCards"
  BY DEF CloneCards, At
<1>2. PICK copies \in Copies(req[r].row) :
        db' = CopyCards(CreateDeck(db, req[r].new, req[r].user, req[r].name, r),
                        copies, req[r].new, r)
  BY DEF CloneCards
<1>3. PICK D, d, u, n, S : /\ d = req[r].new /\ u = req[r].user /\ n = req[r].name
                           /\ D = CreateDeck(db, d, u, n, r) /\ S = CardsOf(db, req[r].row)
  OBVIOUS
<1>4. /\ db \in Database /\ u \in Users \cup {None} /\ n \in Names \cup {None} /\ d \in Decks
  BY <1>1, <1>3, InvDb DEF Request, Shaped
<1>5. copies \in [S -> Unused(Cards)] /\ \A c, e \in S : copies[c] = copies[e] => c = e
  BY <1>3, CopiesAre
<1>6. copies \in [S -> Cards] /\ S \in SUBSET Cards
  <2>1. Unused(Cards) \subseteq Cards
    BY DEF Unused
  <2>2. S \subseteq Cards
    BY <1>3, Lives DEF CardsOf
  <2> QED BY <1>5, <2>1, <2>2
<1>7. PICK N : N = Image(copies, S)
  OBVIOUS
<1>8. D \in Database
  BY <1>3, <1>4, CreateDeckIs
<1>9. db' = CopyCards(D, copies, d, r)
  BY <1>2, <1>3
<1>10. /\ \A c \in Cards : db'.cards[c] = IF c \in N THEN CardRow("live", d, r) ELSE D.cards[c]
       /\ \A x \in Rows \ N : db'.values[x] = D.values[x]
       /\ db'.decks = D.decks /\ db'.questions = D.questions /\ db'.media = D.media
       /\ db'.quizzes = D.quizzes
  <2>1. PICK E : E = db'
    OBVIOUS
  <2>2. E = CopyCards(D, copies, d, r) /\ d \in Decks
    BY <1>4, <1>9, <2>1
  <2>3. /\ \A c \in Cards : E.cards[c] = IF c \in N THEN CardRow("live", d, r) ELSE D.cards[c]
        /\ \A x \in Rows \ N : E.values[x] = D.values[x]
        /\ E.decks = D.decks /\ E.questions = D.questions /\ E.media = D.media
        /\ E.quizzes = D.quizzes
    BY <1>6, <1>7, <1>8, <2>2, CopyCardsIs
  <2> QED BY <2>1, <2>3
<1>11. /\ \A e \in Decks : DeckEffect(r, e)
       /\ D.cards = db.cards /\ D.questions = db.questions
       /\ D.media = db.media /\ D.values = db.values /\ D.quizzes = db.quizzes
       /\ LiveDecks(db') = LiveDecks(db) \cup {d}
  <2>1. /\ db \in Database /\ u \in Users \cup {None} /\ n \in Names \cup {None} /\ d \in Decks
        /\ D = CreateDeck(db, d, u, n, r) /\ db'.decks = D.decks
        /\ At(r, "cloneCards") /\ d = req[r].new
    BY <1>1, <1>3, <1>4, <1>10
  <2> HIDE DEF src
  <2>2. \A e \in Decks : DeckEffect(r, e)
    BY <2>1, PublishEffects
  <2>3. /\ D.cards = db.cards /\ D.questions = db.questions
        /\ D.media = db.media /\ D.values = db.values /\ D.quizzes = db.quizzes
    BY <2>1 DEF CreateDeck, Database
  <2>4. LiveDecks(db') = LiveDecks(db) \cup {d}
    BY <2>1, PublishEffects
  <2> QED BY <2>2, <2>3, <2>4
<1>12. /\ \A c \in Cards : db'.cards[c] = IF c \in N THEN CardRow("live", d, r) ELSE db.cards[c]
       /\ \A x \in Rows \ N : db'.values[x] = db.values[x]
       /\ db'.questions = db.questions /\ db'.media = db.media /\ db'.quizzes = db.quizzes
  BY <1>10, <1>11
<1>13. /\ copies \in [src -> Unused(Cards)] /\ N = Image(copies, src) /\ S = src /\ d = req[r].new
  BY <1>3, <1>5, <1>7
<1> HIDE DEF src
<1>14. \E f \in [src -> Unused(Cards)] :
         /\ \A c, e \in src : f[c] = f[e] => c = e
         /\ \A c \in Cards : db'.cards[c] = IF c \in Image(f, src) THEN CardRow("live", req[r].new, r)
                                                           ELSE db.cards[c]
         /\ \A x \in Rows \ Image(f, src) : db'.values[x] = db.values[x]
  BY <1>5, <1>12, <1>13
<1> QED BY <1>11, <1>12, <1>13, <1>14 DEF src

LEMMA CloneEffects ==
  ASSUME Inv1, NEW r \in Requests, CloneCards(r)
  PROVE  Effects(r)
<1>1. At(r, "cloneCards") /\ req[r].new \in Decks
  BY InvDb DEF CloneCards, At, Shaped
<1>2. PICK copies \in [CardsOf(db, req[r].row) -> Unused(Cards)] :
           /\ \A e \in Decks : DeckEffect(r, e)
           /\ \A c \in Cards : db'.cards[c] = IF c \in Image(copies, CardsOf(db, req[r].row))
                                                THEN CardRow("live", req[r].new, r)
                                                ELSE db.cards[c]
           /\ \A x \in Rows \ Image(copies, CardsOf(db, req[r].row)) : db'.values[x] = db.values[x]
           /\ db'.questions = db.questions /\ db'.media = db.media
  BY CloneIs
<1>3. PICK N : N = Image(copies, CardsOf(db, req[r].row))
  OBVIOUS
<1>4. N \subseteq Unused(Cards)
  BY <1>2, <1>3 DEF Image
<1>5. \A c \in Cards : CardEffect(r, c)
  BY <1>1, <1>2, <1>3, <1>4 DEF CardEffect
<1>6. \A x \in Rows : ValuesEffect(r, x)
  BY <1>1, <1>2, <1>3, <1>4 DEF ValuesEffect
<1> QED BY <1>2, <1>5, <1>6, Alone DEF Effects

LEMMA ShareEffects ==
  ASSUME Inv1, NEW r \in Requests, DropShare(r) \/ InsertShare(r) \/ UnshareRow(r)
  PROVE  Effects(r)
<1>1. PICK d : d = req[r].row
  OBVIOUS
<1>2. /\ req[r].pc \in {"dropShare", "insertShare", "unshare"}
      /\ db' = db \/ db' = CreateShare(db, r, d) \/ db' = DeleteShare(db, d)
  BY <1>1 DEF DropShare, InsertShare, UnshareRow, At
<1>3. db \in Database /\ d \in Decks
  BY <1>1, <1>2, InvDb DEF Shaped
<1>4. /\ db'.decks = db.decks /\ db'.cards = db.cards /\ db'.questions = db.questions
      /\ db'.media = db.media /\ db'.values = db.values
  BY <1>2, <1>3, SharesAre
<1> QED BY <1>4, Alone DEF Effects

LEMMA CreateEffects ==
  ASSUME Inv1, NEW r \in Requests, Create(r)
  PROVE  Effects(r)
<1>1. PICK d, u, c, z : d = req[r].row /\ u = req[r].user /\ c = Fresh(Cards) /\ z = Fresh(Quizzes)
  OBVIOUS
<1>2. /\ At(r, "create")
      /\ \/ db' = db
         \/ req[r].op = "create" /\ Unused(Cards) # {} /\ db' = CreateCard(db, c, d, r)
         \/ req[r].op = "add" /\ Unused(Quizzes) # {} /\ db' = CreateQuiz(db, z, u, d)
  BY <1>1 DEF Create
<1>3. /\ db \in Database /\ d \in Decks \cup {None} /\ u \in Users \cup {None}
      /\ req[r].op = "create" => d \in Decks
  BY <1>1, <1>2, InvDb DEF Shaped, At, Request
<1>4. CASE db' = db
  BY <1>4, NoEffects
<1>5. CASE req[r].op = "create" /\ Unused(Cards) # {} /\ db' = CreateCard(db, c, d, r)
  <2>1. c \in Unused(Cards) /\ c \in Cards /\ d \in Decks
    BY <1>1, <1>3, <1>5, OneIs DEF Fresh, Unused
  <2>2. /\ \A e \in Cards : db'.cards[e] = IF e = c THEN CardRow("live", d, r) ELSE db.cards[e]
        /\ db'.decks = db.decks /\ db'.questions = db.questions
        /\ db'.media = db.media /\ db'.values = db.values
    BY <1>3, <1>5, <2>1, CreateCardIs
  <2>3. \A e \in Cards : CardEffect(r, e)
    BY <1>2, <1>5, <2>1, <2>2 DEF CardEffect
  <2> QED BY <2>2, <2>3, Alone DEF Effects
<1>6. CASE Unused(Quizzes) # {} /\ db' = CreateQuiz(db, z, u, d)
  <2>1. z \in Quizzes
    BY <1>1, <1>6, OneIs DEF Fresh, Unused
  <2>2. /\ db'.decks = db.decks /\ db'.questions = db.questions /\ db'.cards = db.cards
        /\ db'.media = db.media /\ db'.values = db.values
    BY <1>3, <1>6, <2>1 DEF CreateQuiz, Database
  <2> QED BY <2>2, Alone DEF Effects
<1> QED BY <1>2, <1>4, <1>5, <1>6

\* What a COMMIT does: every row of the batch, and nothing else.
LEMMA CommitIs ==
  ASSUME Inv1, NEW r \in Requests, Commit(r)
  PROVE  /\ req[r].row \in Quizzes =>
              /\ req[r].made \in Seq(Pairs) /\ req[r].op # "import"
              /\ db' = BulkCreateQuestions(db, req[r].made, req[r].row, req[r].count, r)
              /\ \A q \in Questions :
                   \/ \E i \in DOMAIN req[r].made :
                        /\ req[r].made[i][1] = q
                        /\ db'.questions[q] = QuestionRow(req[r].made, req[r].row, req[r].count, i, r)
                   \/ /\ db'.questions[q] = db.questions[q]
                      /\ \A i \in DOMAIN req[r].made : req[r].made[i][1] # q
              /\ db'.decks = db.decks /\ db'.cards = db.cards
         /\ req[r].row \notin Quizzes =>
              /\ req[r].made \in Seq(Cards)
              /\ \E d \in Decks : \A c \in Cards :
                   db'.cards[c] = IF Carries(req[r].made, c) THEN CardRow("live", d, r)
                                                             ELSE db.cards[c]
              /\ db'.questions = db.questions
              /\ req[r].op # "import" => db'.decks = db.decks
         /\ \A e \in Decks : DeckEffect(r, e)
         /\ db'.media = db.media /\ db'.values = db.values
<1>1. PICK x, made, from, D, d, u, n :
        /\ x = req[r].row /\ made = req[r].made /\ from = req[r].count
        /\ d = req[r].new /\ u = req[r].user /\ n = req[r].name
        /\ D = CreateDeck(db, d, u, n, r)
  OBVIOUS
<1>2. /\ db \in Database /\ from \in Nat /\ u \in Users \cup {None} /\ n \in Names \cup {None}
      /\ At(r, "item") /\ Shaped(req[r]) /\ req[r].pc = "item"
  BY <1>1, InvDb DEF Request, Commit, At
<1>3. \/ x \in Quizzes /\ req[r].op # "import" /\ made \in Seq(Pairs)
      \/ x \in Decks /\ req[r].op # "import" /\ made \in Seq(Cards)
      \/ x = None /\ req[r].op = "import" /\ d \in Decks /\ made \in Seq(Cards)
  BY <1>1, <1>2 DEF Shaped
<1>4. None \notin Quizzes \cup Decks /\ Decks \cap Quizzes = {}
  BY BoundsOK, UuidsOK DEF Rows
<1>5. CASE x \in Quizzes
  <2>1. db' = BulkCreateQuestions(db, made, x, from, r)
    BY <1>1, <1>5 DEF Commit
  <2>2. made \in Seq(Questions \X (Cards \cup {None})) /\ made \in Seq(Pairs) /\ req[r].op # "import"
    BY <1>3, <1>4, <1>5 DEF Pairs
  <2>3. /\ \A q \in Questions :
             \/ \E i \in DOMAIN made : /\ made[i][1] = q
                                       /\ db'.questions[q] = QuestionRow(made, x, from, i, r)
             \/ /\ db'.questions[q] = db.questions[q]
                /\ \A i \in DOMAIN made : made[i][1] # q
        /\ db'.decks = db.decks /\ db'.cards = db.cards
        /\ db'.media = db.media /\ db'.values = db.values
    BY <1>2, <1>5, <2>1, <2>2, BulkCreateIs
  <2> QED BY <1>1, <1>5, <2>1, <2>2, <2>3, Alone, ZenonT(60)
<1>6. CASE x \in Decks
  <2>1. db' = CreateCards(db, made, x, r)
    BY <1>1, <1>4, <1>6 DEF Commit
  <2>2. /\ \A c \in Cards : db'.cards[c] = IF Carries(made, c) THEN CardRow("live", x, r)
                                                               ELSE db.cards[c]
        /\ db'.decks = db.decks /\ db'.questions = db.questions
        /\ db'.media = db.media /\ db'.values = db.values
    BY <1>2, <1>6, <2>1, CreateCardsIs
  <2>3. made \in Seq(Cards) /\ x \notin Quizzes
    BY <1>3, <1>4, <1>6
  <2> QED BY <1>1, <1>6, <2>2, <2>3, Alone
<1>7. CASE x = None
  <2>1. db' = CreateCards(D, made, d, r)
    BY <1>1, <1>4, <1>7 DEF Commit
  <2>2. d \in Decks /\ req[r].op = "import" /\ made \in Seq(Cards) /\ x \notin Quizzes
    BY <1>3, <1>4, <1>7
  <2>3. D \in Database
    BY <1>1, <1>2, <2>2, CreateDeckIs
  <2>4. /\ \A c \in Cards : db'.cards[c] = IF Carries(made, c) THEN CardRow("live", d, r)
                                                               ELSE D.cards[c]
        /\ db'.decks = D.decks /\ db'.questions = D.questions
        /\ db'.media = D.media /\ db'.values = D.values
    BY <2>1, <2>2, <2>3, CreateCardsIs, SMTT(60)
  <2>5. /\ \A e \in Decks : DeckEffect(r, e)
        /\ D.cards = db.cards /\ D.questions = db.questions
        /\ D.media = db.media /\ D.values = db.values
    <3>1. /\ db \in Database /\ u \in Users \cup {None} /\ n \in Names \cup {None} /\ d \in Decks
          /\ D = CreateDeck(db, d, u, n, r) /\ db'.decks = D.decks
          /\ At(r, "item") /\ req[r].op = "import" /\ d = req[r].new
      BY <1>1, <1>2, <2>2, <2>4
    <3> QED BY <3>1, PublishEffects, SMTT(60)
  <2>6. /\ \A c \in Cards : db'.cards[c] = IF Carries(made, c) THEN CardRow("live", d, r)
                                                               ELSE db.cards[c]
        /\ db'.questions = db.questions /\ db'.media = db.media /\ db'.values = db.values
    BY <2>4, <2>5
  <2> QED BY <1>1, <2>2, <2>5, <2>6
<1> QED BY <1>3, <1>5, <1>6, <1>7

\* What a commit does to each row.
LEMMA CommitEffects ==
  ASSUME Inv1, NEW r \in Requests, Commit(r)
  PROVE  Effects(r)
<1>1. At(r, "item") /\ \A e \in Decks : DeckEffect(r, e)
  BY CommitIs DEF Commit
<1>2. CASE req[r].row \in Quizzes
  <2>1. /\ \A q \in Questions :
             \/ \E i \in DOMAIN req[r].made :
                  /\ req[r].made[i][1] = q
                  /\ db'.questions[q] = QuestionRow(req[r].made, req[r].row, req[r].count, i, r)
             \/ db'.questions[q] = db.questions[q]
        /\ db'.cards = db.cards /\ db'.media = db.media /\ db'.values = db.values
    BY <1>2, CommitIs
  <2>2. \A q \in Questions : QuestionEffect(r, q)
    BY <1>1, <1>2, <2>1 DEF QuestionEffect
  <2> QED BY <1>1, <2>1, <2>2, Alone DEF Effects
<1>3. CASE req[r].row \notin Quizzes
  <2>1. PICK d \in Decks : \A c \in Cards :
          db'.cards[c] = IF Carries(req[r].made, c) THEN CardRow("live", d, r) ELSE db.cards[c]
    BY <1>3, CommitIs
  <2>2. /\ db'.questions = db.questions /\ db'.media = db.media /\ db'.values = db.values
    BY <1>3, CommitIs
  <2>3. \A c \in Cards : CardEffect(r, c)
    BY <1>1, <1>3, <2>1 DEF CardEffect
  <2> QED BY <1>1, <2>2, <2>3, Alone DEF Effects
<1> QED BY <1>2, <1>3

\* What the statements on media do to each row.
LEMMA MediaEffects ==
  ASSUME Inv1, NEW r \in Requests, InsertMedia(r) \/ DropRow(r)
  PROVE  Effects(r)
<1>1. PICK m, u, c : /\ u = req[r].user
                     /\ \/ At(r, "insertMedia") /\ m = req[r].new /\ c = req[r].row
                        \/ At(r, "dropRow") /\ m = req[r].row /\ c \in Cards
  BY BoundsOK DEF InsertMedia, DropRow
<1>2. /\ db \in Database /\ m \in Media /\ c \in Cards /\ u \in Users \cup {None}
  BY <1>1, InvDb DEF At, Shaped, Request
<1>3. \/ db' = db
      \/ At(r, "insertMedia") /\ m = req[r].new /\ db' = CreateMedium(db, m, u, c)
      \/ At(r, "dropRow") /\ m = req[r].row /\ m \in LiveMedia(db) /\ db' = DeleteMedium(db, m)
  <2>1. Exists(m) => m \in LiveMedia(db)
    BY <1>2, ExistsIn
  <2> QED BY <1>1, <2>1 DEF InsertMedia, DropRow, At
<1>4. CASE db' = db
  BY <1>4, NoEffects
<1>5. CASE At(r, "insertMedia") /\ m = req[r].new /\ db' = CreateMedium(db, m, u, c)
  <2>1. PICK row : row = [life |-> "live", owner |-> u, card |-> c]
    OBVIOUS
  <2>2. /\ \A n \in Media : db'.media[n] = IF n = m THEN row ELSE db.media[n]
        /\ db'.decks = db.decks /\ db'.cards = db.cards
        /\ db'.questions = db.questions /\ db'.values = db.values
    <3>1. PICK E : E = db'
      OBVIOUS
    <3>2. \/ E = CreateMedium(db, m, u, c) /\ row = [life |-> "live", owner |-> u, card |-> c]
          \/ E = DeleteMedium(db, m) /\ row = GoneMedium
      BY <1>5, <2>1, <3>1
    <3>3. /\ \A n \in Media : E.media[n] = IF n = m THEN row ELSE db.media[n]
          /\ E.decks = db.decks /\ E.cards = db.cards
          /\ E.questions = db.questions /\ E.values = db.values
      BY <1>2, <3>2, MediaAre
    <3> QED BY <3>1, <3>3
  <2>3. row.life = "live"
    BY <2>1
  <2>4. \A n \in Media : MediumEffect(r, n)
    BY <1>5, <2>2, <2>3 DEF MediumEffect
  <2> QED BY <2>2, <2>4, Alone DEF Effects
<1>6. CASE /\ At(r, "dropRow") /\ m = req[r].row /\ m \in LiveMedia(db)
           /\ db' = DeleteMedium(db, m)
  <2>1. PICK row : row = GoneMedium
    OBVIOUS
  <2>2. /\ \A n \in Media : db'.media[n] = IF n = m THEN row ELSE db.media[n]
        /\ db'.decks = db.decks /\ db'.cards = db.cards
        /\ db'.questions = db.questions /\ db'.values = db.values
    BY <1>2, <1>6, <2>1, MediaAre
  <2>3. row.life = "gone"
    BY <2>1 DEF GoneMedium
  <2>4. \A n \in Media : MediumEffect(r, n)
    BY <1>6, <2>2, <2>3 DEF MediumEffect
  <2> QED BY <2>2, <2>4, Alone DEF Effects
<1> QED BY <1>3, <1>4, <1>5, <1>6

\* Each step of a request touches only what is its own.
LEMMA StepEffects ==
  ASSUME Inv1, NEW r \in Requests, Step(r) \/ Abort(r)
  PROVE  Effects(r)
<1>1. CASE CloneDeck(r) \/ Count(r) \/ InsertItem(r) \/ StoreUpload(r) \/ InsertMediaFails(r)
             \/ Cleanup(r) \/ DropObject(r) \/ Abort(r)
  BY <1>1, NoEffects DEF CloneDeck, Count, InsertItem, StoreUpload, InsertMediaFails, Cleanup,
     DropObject, Abort
<1> QED BY <1>1, WriteEffects, SuspendEffects, ResetEffects, DeleteEffects, InsertDeckEffects,
     CloneEffects, ShareEffects, CreateEffects, CommitEffects, MediaEffects DEF Step

(***************************************************************************)
(* The names that requests have drawn: free, and of one request each.      *)
(***************************************************************************)
FreeIn(D) == {x \in Decks : D.decks[x].life = "free"}
        \cup {x \in Cards : D.cards[x].life = "free"}
        \cup {x \in Questions : D.questions[x].life = "free"}
        \cup {x \in Media : D.media[x].life = "free"}
Distinct(q) == \A i, j \in DOMAIN q.made : NameOf(q.made[i]) = NameOf(q.made[j]) => i = j
Claims == /\ \A r \in Requests : Pending(req[r]) \subseteq FreeIn(db) /\ Distinct(req[r])
          /\ \A r, s \in Requests : r # s => Pending(req[r]) \cap Pending(req[s]) = {}
Inv2 == Inv1 /\ Claims

\* What is drawn is reserved.
LEMMA PendingReserved ==
  ASSUME NEW r \in Requests
  PROVE  Pending(req[r]) \subseteq Reserved
  BY DEF Pending, Reserved, NameOf

LEMMA NothingPending ==
  ASSUME NEW q, q.made = <<>>, q.new = None
  PROVE  Pending(q) = {} /\ Distinct(q)
  BY DEF Pending, Distinct

\* An unused name is free and nobody's.
LEMMA Unclaimed ==
  ASSUME NEW S, S \subseteq Decks \/ S \subseteq Cards \/ S \subseteq Questions \/ S \subseteq Media,
         NEW x \in Unused(S)
  PROVE  x \in FreeIn(db) /\ x \notin Reserved
<1>1. x \in S /\ x \in FreeRows /\ x \notin Reserved
  BY DEF Unused
<1>2. Decks \cap Cards = {} /\ Decks \cap Quizzes = {} /\ Decks \cap Questions = {}
      /\ Decks \cap Media = {} /\ Cards \cap Quizzes = {} /\ Cards \cap Questions = {}
      /\ Cards \cap Media = {} /\ Quizzes \cap Questions = {} /\ Quizzes \cap Media = {}
      /\ Questions \cap Media = {}
  BY UuidsOK
<1> QED BY <1>1, <1>2 DEF FreeRows, FreeIn

\* Whether a name is free is said by its own table.
LEMMA FreeIs ==
  ASSUME NEW D, NEW x
  PROVE  /\ x \in Decks => (x \in FreeIn(D) <=> D.decks[x].life = "free")
         /\ x \in Cards => (x \in FreeIn(D) <=> D.cards[x].life = "free")
         /\ x \in Questions => (x \in FreeIn(D) <=> D.questions[x].life = "free")
         /\ x \in Media => (x \in FreeIn(D) <=> D.media[x].life = "free")
<1>1. Decks \cap Cards = {} /\ Decks \cap Questions = {} /\ Decks \cap Media = {}
      /\ Cards \cap Questions = {} /\ Cards \cap Media = {} /\ Questions \cap Media = {}
  BY UuidsOK
<1> QED BY <1>1 DEF FreeIn

\* A free name that leaves its table is one that the request had drawn, or
\* nobody.
LEMMA FreeStays ==
  ASSUME Inv1, NEW r \in Requests, Effects(r), NEW x \in FreeIn(db)
  PROVE  x \in FreeIn(db') \/ x \in Pending(req[r]) \/ x \notin Reserved
<1>1. None \notin Decks \cup Media
  BY BoundsOK DEF Rows
<1>2. CASE x \in Decks
  <2>1. DeckEffect(r, x) /\ x \notin LiveDecks(db)
    BY <1>2, FreeIs DEF Effects, LiveDecks
  <2>2. db'.decks[x] = db.decks[x] \/ x \in Unused(Decks) \/ x = req[r].new
    BY <2>1 DEF DeckEffect
  <2> QED BY <1>1, <1>2, <2>2, FreeIs, Unclaimed DEF Pending
<1>3. CASE x \in Cards
  <2>1. CardEffect(r, x) /\ x \notin LiveCards(db)
    BY <1>3, FreeIs DEF Effects, LiveCards
  <2>2. \/ db'.cards[x] = db.cards[x] \/ x \in Unused(Cards)
        \/ Carries(req[r].made, x)
    BY <2>1 DEF CardEffect
  <2>3. Carries(req[r].made, x) => x \in Pending(req[r])
    BY <1>3 DEF Carries, Pending, NameOf
  <2> QED BY <1>3, <2>2, <2>3, FreeIs, Unclaimed
<1>4. CASE x \in Questions
  <2>1. QuestionEffect(r, x) /\ x \notin LiveQuestions(db)
    BY <1>4, FreeIs DEF Effects, LiveQuestions
  <2>2. \/ db'.questions[x].life = db.questions[x].life
        \/ /\ At(r, "item") /\ req[r].row \in Quizzes
           /\ \E i \in DOMAIN req[r].made : req[r].made[i][1] = x
    BY <2>1 DEF QuestionEffect
  <2>3. ASSUME At(r, "item"), req[r].row \in Quizzes, NEW i \in DOMAIN req[r].made,
               req[r].made[i][1] = x
        PROVE  x \in Pending(req[r])
    <3>1. req[r].made \in Seq(Pairs)
      <4>1. None \notin Quizzes /\ Decks \cap Quizzes = {}
        BY BoundsOK, UuidsOK DEF Rows
      <4> QED BY <2>3, <4>1, InvDb DEF Shaped, At
    <3>2. req[r].made[i] \in Pairs
      BY <2>3, <3>1
    <3>3. req[r].made[i] \notin Cards
      BY <3>2, UuidsOK DEF Pairs
    <3> QED BY <2>3, <3>3 DEF Pending, NameOf
  <2> QED BY <1>4, <2>2, <2>3, FreeIs
<1>5. CASE x \in Media
  <2>1. MediumEffect(r, x) /\ db.media[x].life = "free"
    BY <1>5, FreeIs DEF Effects
  <2>2. \/ db'.media[x].life = db.media[x].life \/ x = req[r].new
    BY <2>1 DEF MediumEffect, LiveMedia
  <2> QED BY <1>1, <1>5, <2>1, <2>2, FreeIs DEF Pending
<1> QED BY <1>2, <1>3, <1>4, <1>5 DEF FreeIn

\* What a request goes on with: names it had, or that nobody has.
Claimed(r, q) ==
  /\ Distinct(q)
  /\ \A x \in Pending(q) : x \in Pending(req[r]) \/ (x \in FreeIn(db) /\ x \notin Reserved)

\* Who moves must claim what it had, or what nobody has.
LEMMA ClaimsRule ==
  ASSUME Inv2, NEW r \in Requests, Effects(r), NEW q, req' = [req EXCEPT ![r] = q],
         Claimed(r, q), db' = db \/ Pending(q) = {}
  PROVE  Claims'
<1>1. \A s \in Requests : req'[s] = IF s = r THEN q ELSE req[s]
  BY InvDb DEF Inv2
<1>2. ASSUME NEW s \in Requests
      PROVE  Pending(req'[s]) \subseteq FreeIn(db') /\ Distinct(req'[s])
  <2>1. CASE s = r
    <3>1. Pending(q) \subseteq FreeIn(db)
      BY DEF Inv2, Claims, Claimed
    <3> QED BY <1>1, <2>1, <3>1 DEF Claimed
  <2>2. CASE s # r
    <3>1. /\ Pending(req[s]) \subseteq FreeIn(db) /\ Pending(req[s]) \subseteq Reserved
          /\ Pending(req[s]) \cap Pending(req[r]) = {} /\ Distinct(req[s])
      BY <2>2, PendingReserved DEF Inv2, Claims
    <3>2. Pending(req[s]) \subseteq FreeIn(db')
      BY <3>1, FreeStays DEF Inv2
    <3> QED BY <1>1, <2>2, <3>1, <3>2
  <2> QED BY <2>1, <2>2
<1>3. ASSUME NEW s \in Requests, s # r
      PROVE  Pending(q) \cap Pending(req[s]) = {}
  BY <1>3, PendingReserved DEF Inv2, Claims, Claimed
<1>4. ASSUME NEW s \in Requests, NEW t \in Requests, s # t
      PROVE  Pending(req'[s]) \cap Pending(req'[t]) = {}
  <2>1. CASE s = r
    BY <1>1, <1>3, <1>4, <2>1
  <2>2. CASE t = r
    BY <1>1, <1>3, <1>4, <2>2
  <2>3. CASE s # r /\ t # r
    BY <1>1, <1>4, <2>3 DEF Inv2, Claims
  <2> QED BY <2>1, <2>2, <2>3
<1> QED BY <1>2, <1>4 DEF Claims

\* A request that holds nothing claims nothing.
LEMMA EmptyClaim ==
  ASSUME Inv2, NEW r \in Requests, Effects(r), NEW q, req' = [req EXCEPT ![r] = q],
         q.made = <<>>, q.new = None
  PROVE  Claims'
<1>1. Pending(q) = {} /\ Distinct(q)
  BY NothingPending
<1>2. Claimed(r, q)
  BY <1>1 DEF Claimed
<1> QED BY <1>1, <1>2, ClaimsRule

LEMMA FinishClaims ==
  ASSUME Inv2, NEW r \in Requests, Effects(r), Finish(r)
  PROVE  Claims'
  BY DoneIs, EmptyClaim DEF Finish, Go

\* A request that goes on with what it had, or with one name more.
LEMMA GoOnClaims ==
  ASSUME Inv2, NEW r \in Requests, NEW q, req' = [req EXCEPT ![r] = q], UNCHANGED db,
         q.made = req[r].made,
         \/ q.new = req[r].new
         \/ \E S \in {Decks, Media} : q.new \in Unused(S)
  PROVE  Claims'
<1>1. Effects(r)
  BY NoEffects
<1>2. Distinct(q)
  BY DEF Distinct, Inv2, Claims
<1>3. Pending(q) \subseteq Pending(req[r]) \cup {q.new} /\ (q.new = req[r].new => Pending(q) = Pending(req[r]))
  BY DEF Pending
<1>4. ASSUME NEW S \in {Decks, Media}, q.new \in Unused(S)
      PROVE  q.new \in FreeIn(db) /\ q.new \notin Reserved
  BY <1>4, Unclaimed
<1>5. Claimed(r, q)
  BY <1>2, <1>3, <1>4 DEF Claimed
<1> QED BY <1>1, <1>5, ClaimsRule

\* The next row of a batch is drawn.
LEMMA ItemClaims ==
  ASSUME Inv2, NEW r \in Requests, InsertItem(r)
  PROVE  Claims'
<1>1. UNCHANGED db /\ Effects(r)
  BY NoEffects DEF InsertItem
<1>2. CASE Finish(r)
  BY <1>1, <1>2, FinishClaims
<1>3. ASSUME NEW item \in Items(r), Go(r, [req[r] EXCEPT !.made = Append(@, item)])
      PROVE  Claims'
  <2>1. req[r] \in Request /\ req[r].made \in Seq(Made)
    BY InvDb DEF Inv2, Request
  <2>2. /\ NameOf(item) \in FreeRows /\ NameOf(item) \notin Reserved
        /\ NameOf(item) \in Cards \cup Questions
    BY <2>1, ItemIs
  <2>3. NameOf(item) \in FreeIn(db)
    BY <2>2, Unclaimed DEF Unused
  <2>4. PICK q, made, n, k : /\ made = Append(req[r].made, item) /\ n = NameOf(item)
                             /\ q = [req[r] EXCEPT !.made = made] /\ k = Len(req[r].made)
    OBVIOUS
  <2>5. q.made = made /\ q.new = req[r].new /\ req' = [req EXCEPT ![r] = q]
    BY <1>3, <2>1, <2>4 DEF Request, Go
  <2>6. /\ DOMAIN made = 1..(k + 1) /\ DOMAIN req[r].made = 1..k /\ k \in Nat
        /\ made[k + 1] = item /\ \A i \in 1..k : made[i] = req[r].made[i]
    BY <2>1, <2>4
  <2>7. \A i \in 1..k : NameOf(made[i]) \in Pending(req[r])
    BY <2>6 DEF Pending
  <2>8. \A i \in 1..k : NameOf(made[i]) # n
    BY <2>2, <2>4, <2>7, PendingReserved
  <2>9. Distinct(q)
    <3>1. SUFFICES ASSUME NEW i \in 1..(k + 1), NEW j \in 1..(k + 1),
                          NameOf(made[i]) = NameOf(made[j])
                   PROVE  i = j
      BY <2>5, <2>6 DEF Distinct
    <3>2. CASE i \in 1..k /\ j \in 1..k
      BY <2>6, <3>1, <3>2 DEF Inv2, Claims, Distinct
    <3>3. CASE i = k + 1
      BY <2>4, <2>6, <2>8, <3>1, <3>3
    <3>4. CASE j = k + 1
      BY <2>4, <2>6, <2>8, <3>1, <3>4
    <3> QED BY <2>6, <3>2, <3>3, <3>4
  <2>10. \A x \in Pending(q) : x \in Pending(req[r]) \/ x = n
    <3>1. \A i \in DOMAIN q.made : NameOf(q.made[i]) \in Pending(req[r]) \/ NameOf(q.made[i]) = n
      BY <2>4, <2>5, <2>6, <2>7
    <3> QED BY <2>5, <3>1 DEF Pending
  <2>11. Claimed(r, q)
    BY <2>2, <2>3, <2>4, <2>9, <2>10 DEF Claimed
  <2> QED BY <1>1, <2>5, <2>11, ClaimsRule
<1> QED BY <1>2, <1>3 DEF InsertItem

\* Every step keeps the claims of all.
LEMMA StepClaims ==
  ASSUME Inv2, NEW r \in Requests, Step(r) \/ Abort(r)
  PROVE  Claims'
<1>1. Effects(r) /\ Inv1 /\ req[r] \in Request /\ Shaped(req[r])
  BY StepEffects, InvDb DEF Inv2
<1>2. CASE Finish(r)
  BY <1>1, <1>2, FinishClaims
<1>3. CASE InsertItem(r)
  BY <1>3, ItemClaims
<1>4. CASE InsertDeck(r) \/ CloneDeck(r)
  <2>1. ASSUME NEW pc \in Steps, UNCHANGED db, Unused(Decks) # {},
               Go(r, [req[r] EXCEPT !.pc = pc, !.new = Fresh(Decks)])
        PROVE  Claims'
    <3>1. PICK q : q = [req[r] EXCEPT !.pc = pc, !.new = Fresh(Decks)]
      OBVIOUS
    <3>2. q.made = req[r].made /\ q.new = Fresh(Decks) /\ req' = [req EXCEPT ![r] = q]
      BY <1>1, <2>1, <3>1 DEF Request, Go
    <3>3. q.new \in Unused(Decks)
      BY <2>1, <3>2, OneIs DEF Fresh
    <3> QED BY <2>1, <3>2, <3>3, GoOnClaims
  <2> QED BY <1>2, <1>4, <2>1 DEF InsertDeck, CloneDeck, Steps
<1>5. CASE StoreUpload(r)
  <2>1. PICK q : q = [req[r] EXCEPT !.pc = "insertMedia", !.new = Fresh(Media)]
    OBVIOUS
  <2>2. /\ q.made = req[r].made /\ q.new = Fresh(Media) /\ req' = [req EXCEPT ![r] = q]
        /\ UNCHANGED db /\ Unused(Media) # {}
    BY <1>1, <1>5, <2>1 DEF Request, Go, StoreUpload
  <2>3. q.new \in Unused(Media)
    BY <2>2, OneIs DEF Fresh
  <2> QED BY <2>2, <2>3, GoOnClaims
<1>6. CASE InsertMedia(r) \/ InsertMediaFails(r) \/ DropObject(r)
  <2>1. ASSUME NEW pc \in Steps, UNCHANGED db, Go(r, [req[r] EXCEPT !.pc = pc])
        PROVE  Claims'
    <3>1. PICK q : q = [req[r] EXCEPT !.pc = pc]
      OBVIOUS
    <3>2. q.made = req[r].made /\ q.new = req[r].new /\ req' = [req EXCEPT ![r] = q]
      BY <1>1, <2>1, <3>1 DEF Request, Go
    <3> QED BY <2>1, <3>2, GoOnClaims
  <2> QED BY <1>2, <1>6, <2>1 DEF InsertMedia, InsertMediaFails, DropObject, Steps
<1>7. CASE Count(r)
  <2>1. PICK n, q : /\ n = CountQuestions(db, req[r].row)
                    /\ q = [req[r] EXCEPT !.pc = "item", !.count = n]
    OBVIOUS
  <2>2. /\ q.made = req[r].made /\ q.new = req[r].new /\ req' = [req EXCEPT ![r] = q]
        /\ UNCHANGED db
    BY <1>1, <1>7, <2>1 DEF Request, Go, Count
  <2> QED BY <2>2, GoOnClaims
<1>8. CASE DropShare(r)
  <2>1. PICK q : q = [req[r] EXCEPT !.pc = "insertShare"]
    OBVIOUS
  <2>2. /\ q.made = <<>> /\ q.new = None /\ req' = [req EXCEPT ![r] = q]
    BY <1>1, <1>8, <2>1 DEF Request, Go, DropShare, Shaped, At
  <2> QED BY <1>1, <2>2, EmptyClaim
<1> QED BY <1>2, <1>3, <1>4, <1>5, <1>6, <1>7, <1>8
     DEF Step, Abort, Write, DeleteRow, SuspendRow, ResetRow, CloneCards, InsertShare, UnshareRow,
         Create, Commit, Cleanup, DropRow

LEMMA NextClaims ==
  ASSUME Inv2, [Next]_vars
  PROVE  Claims'
<1>1. ASSUME NEW r \in Requests, NEW u \in Users, Arrive(r, u) PROVE Claims'
  <2>1. PICK q : Admitted(r, q) /\ Start(r, q)
    BY <1>1, InvDb, Admission DEF Inv2
  <2>2. q.made = <<>> /\ q.new = None /\ req' = [req EXCEPT ![r] = q] /\ UNCHANGED db
    BY <2>1 DEF Admitted, Start
  <2> QED BY <2>2, NoEffects, EmptyClaim
<1>2. CASE UNCHANGED vars
  <2>1. req' = req /\ db' = db /\ Claims
    BY <1>2 DEF vars, Inv2
  <2>2. /\ \A r \in Requests : Pending(req'[r]) \subseteq FreeIn(db') /\ Distinct(req'[r])
        /\ \A r, s \in Requests : r # s => Pending(req'[r]) \cap Pending(req'[s]) = {}
    BY <2>1 DEF Claims
  <2> QED BY <2>2 DEF Claims
<1> QED BY <1>1, <1>2, StepClaims DEF Next

LEMMA InitClaims ==
  ASSUME Init
  PROVE  Claims
<1>1. \A r \in Requests : req[r] = NewRequest
  BY DEF Init
<1> QED BY <1>1, NewIs, NothingPending DEF Claims

\* What a request has drawn is free, its own and drawn once, until it commits.
THEOREM Inductive2 == Spec => []Inv2
<1>1. Init => Claims
  BY InitClaims
<1>2. Inv1 /\ Claims /\ [Next]_vars => Claims'
  BY NextClaims DEF Inv2
<1>3. Spec => []Claims
  BY <1>1, <1>2, Inductive1, PTL DEF Spec
<1> QED BY <1>3, Inductive1, PTL DEF Inv2

(***************************************************************************)
(* The object store and the media table.                                   *)
(***************************************************************************)
MediaAt(D, O, q) ==
  /\ q.pc \in {"insertMedia", "cleanup"} => q.new \in O
  /\ q.pc \in {"dropObject", "dropRow"} => D.media[q.row].life # "free"
  /\ q.pc = "dropRow" => q.row \notin O
OutOfStep(q, m) == \/ q.pc \in {"insertMedia", "cleanup"} /\ q.new = m
                   \/ q.pc = "dropRow" /\ q.row = m
Accounted(m) == \/ \E r \in Requests : OutOfStep(req[r], m)
                \/ m \in adrift
                \/ (m \in objects <=> m \in LiveMedia(db))
Stored == /\ \A r \in Requests : MediaAt(db, objects, req[r])
          /\ \A m \in Media : Accounted(m)

\* A row that was never free again stays so.
LEMMA NeverFree ==
  ASSUME NEW r, Effects(r), NEW m \in Media, db.media[m].life # "free"
  PROVE  db'.media[m].life # "free"
  BY DEF Effects, MediumEffect

\* The step leaves the medium alone; the requests beside it do not mind.
Aside(r, m) == /\ ~OutOfStep(req[r], m)
               /\ (m \in objects' <=> m \in objects)
               /\ (m \in LiveMedia(db') <=> m \in LiveMedia(db))
Unminded(r, m) ==
  \A s \in Requests : s # r =>
    /\ m \in objects' \/ ~(req[s].pc \in {"insertMedia", "cleanup"} /\ req[s].new = m)
    /\ m \notin objects' \/ ~(req[s].pc = "dropRow" /\ req[s].row = m)
Explained(q, m) == OutOfStep(q, m) \/ m \in adrift' \/ (m \in objects' <=> m \in LiveMedia(db'))

\* M is what the step touches, of the store or the table.
LEMMA StoredRule ==
  ASSUME Inv2, Stored, NEW r \in Requests, Effects(r), NEW q, req' = [req EXCEPT ![r] = q],
         MediaAt(db', objects', q), adrift \subseteq adrift', NEW M \in SUBSET Media,
         \A m \in Media \ M : Aside(r, m),
         \A m \in M : Explained(q, m) /\ Unminded(r, m)
  PROVE  Stored'
<1>1. \A s \in Requests : req'[s] = IF s = r THEN q ELSE req[s]
  BY InvDb DEF Inv2
<1>2. ASSUME NEW s \in Requests, s # r PROVE MediaAt(db', objects', req[s])
  <2>1. MediaAt(db, objects, req[s]) /\ Shaped(req[s])
    BY InvDb DEF Stored, Inv2
  <2>2. /\ req[s].pc \in {"insertMedia", "cleanup"} => req[s].new \in Media
        /\ req[s].pc \in {"dropObject", "dropRow"} => req[s].row \in Media
    BY <2>1 DEF Shaped
  <2>3. req[s].pc \in {"insertMedia", "cleanup"} => req[s].new \in objects'
    BY <1>2, <2>1, <2>2 DEF MediaAt, Aside, Unminded
  <2>4. req[s].pc = "dropRow" => req[s].row \notin objects'
    BY <1>2, <2>1, <2>2 DEF MediaAt, Aside, Unminded
  <2>5. req[s].pc \in {"dropObject", "dropRow"} => db'.media[req[s].row].life # "free"
    BY <2>1, <2>2, NeverFree DEF MediaAt
  <2> QED BY <2>3, <2>4, <2>5 DEF MediaAt
<1>3. \A s \in Requests : MediaAt(db', objects', req'[s])
  BY <1>1, <1>2
<1>4. ASSUME NEW m \in Media PROVE Accounted(m)'
  <2>1. CASE m \in M
    <3>1. OutOfStep(q, m) => OutOfStep(req'[r], m)
      BY <1>1
    <3> QED BY <2>1, <3>1 DEF Accounted, Explained
  <2>2. CASE m \notin M
    <3>1. CASE \E s \in Requests : OutOfStep(req[s], m)
      <4>1. PICK s \in Requests : OutOfStep(req[s], m)
        BY <3>1
      <4>2. s # r
        BY <2>2, <4>1 DEF Aside
      <4>3. OutOfStep(req'[s], m)
        BY <1>1, <4>1, <4>2
      <4> QED BY <4>3 DEF Accounted
    <3>2. CASE m \in adrift
      BY <3>2 DEF Accounted
    <3>3. CASE m \in objects <=> m \in LiveMedia(db)
      BY <2>2, <3>3 DEF Accounted, Aside
    <3> QED BY <3>1, <3>2, <3>3 DEF Stored, Accounted
  <2> QED BY <2>1, <2>2
<1> QED BY <1>3, <1>4 DEF Stored

\* A step about one medium leaves the others in step.
LEMMA OneStored ==
  ASSUME Inv2, Stored, NEW r \in Requests, Effects(r), NEW q, req' = [req EXCEPT ![r] = q],
         MediaAt(db', objects', q), adrift \subseteq adrift', NEW m \in Media,
         \A n \in Media \ {m} : Aside(r, n), Explained(q, m), Unminded(r, m)
  PROVE  Stored'
<1>1. PICK M : M = {m}
  OBVIOUS
<1>2. M \in SUBSET Media /\ \A n \in M : Explained(q, n) /\ Unminded(r, n)
  BY <1>1
<1>3. \A n \in Media \ M : Aside(r, n)
  BY <1>1
<1> QED BY <1>2, <1>3, StoredRule

\* The media are not what the step is about.
LEMMA QuietStored ==
  ASSUME Inv2, Stored, NEW r \in Requests, Effects(r), NEW q, req' = [req EXCEPT ![r] = q],
         UNCHANGED objects, adrift \subseteq adrift',
         req[r].pc \notin {"insertMedia", "cleanup", "dropRow"},
         q.pc \notin {"insertMedia", "cleanup", "dropRow"},
         q.pc = "dropObject" => q.row \in LiveMedia(db)
  PROVE  Stored'
<1>1. \A m \in Media : db'.media[m].life = db.media[m].life
  BY DEF Effects, MediumEffect, At
<1>2. LiveMedia(db') = LiveMedia(db)
  BY <1>1 DEF LiveMedia
<1>3. MediaAt(db', objects', q)
  BY <1>1, Lives DEF MediaAt
<1>4. \A m \in Media : Aside(r, m)
  BY <1>2 DEF OutOfStep, Aside
<1>5. {} \in SUBSET Media
  OBVIOUS
<1> QED BY <1>3, <1>4, <1>5, StoredRule

\* An object is stored before its row.
LEMMA UploadStored ==
  ASSUME Inv2, Stored, NEW r \in Requests, StoreUpload(r)
  PROVE  Stored'
<1>1. PICK m, q : /\ m = Fresh(Media)
                  /\ q = [req[r] EXCEPT !.pc = "insertMedia", !.new = Fresh(Media)]
  OBVIOUS
<1>2. /\ Unused(Media) # {} /\ objects' = objects \cup {m} /\ req' = [req EXCEPT ![r] = q]
      /\ UNCHANGED <<db, adrift>> /\ req[r].pc = "upload"
  BY <1>1 DEF StoreUpload, Go, quiet, At
<1>3. m \in Unused(Media) /\ m \in Media
  BY <1>1, <1>2, OneIs DEF Fresh, Unused
<1>4. db.media[m].life = "free"
  BY <1>3, Unclaimed, FreeIs
<1>5. q.pc = "insertMedia" /\ q.new = m
  BY <1>1, InvDb DEF Inv2, Request
<1>6. MediaAt(db', objects', q) /\ OutOfStep(q, m)
  BY <1>2, <1>5 DEF MediaAt, OutOfStep
<1>7. \A n \in Media : ~OutOfStep(req[r], n)
  BY <1>2 DEF OutOfStep
<1>8. \A s \in Requests : ~(req[s].pc = "dropRow" /\ req[s].row = m)
  BY <1>4 DEF Stored, MediaAt
<1>9. Effects(r) /\ Explained(q, m) /\ Unminded(r, m) /\ \A n \in Media \ {m} : Aside(r, n)
  BY <1>2, <1>6, <1>7, <1>8, NoEffects DEF Explained, Unminded, Aside
<1> QED BY <1>2, <1>3, <1>6, <1>9, OneStored

\* The medium that a request names is its own.
LEMMA NamesItself ==
  ASSUME Inv2, NEW r \in Requests, NEW s \in Requests, r # s, req[r].new \in Media
  PROVE  req[s].new # req[r].new
<1>1. None \notin Media
  BY BoundsOK
<1> QED BY <1>1 DEF Inv2, Claims, Pending

\* The row follows, or the object goes again.
LEMMA NamedStored ==
  ASSUME Inv2, Stored, NEW r \in Requests,
         InsertMedia(r) \/ InsertMediaFails(r) \/ Cleanup(r)
  PROVE  Stored'
<1>1. PICK m : m = req[r].new
  OBVIOUS
<1>2. req[r].pc \in {"insertMedia", "cleanup"} /\ adrift' = adrift
  BY DEF InsertMedia, InsertMediaFails, Cleanup, quiet, At
<1>3. m \in Media /\ m \in objects /\ db.media[m].life = "free" /\ Effects(r)
  <2>1. m \in Media
    BY <1>1, <1>2, InvDb DEF Inv2, Shaped
  <2>2. m # None
    BY <2>1, BoundsOK
  <2>3. m \in FreeIn(db)
    BY <1>1, <2>2 DEF Inv2, Claims, Pending
  <2> QED BY <1>1, <1>2, <2>1, <2>3, FreeIs, StepEffects DEF Inv2, Stored, MediaAt, Step
<1>4. \A s \in Requests : s # r => req[s].new # m
  BY <1>1, <1>3, NamesItself
<1>5. \A n \in Media \ {m} : ~OutOfStep(req[r], n) /\ (n \in LiveMedia(db') <=> n \in LiveMedia(db))
  <2>1. \A n \in Media \ {m} : ~OutOfStep(req[r], n) /\ db'.media[n].life = db.media[n].life
    BY <1>1, <1>2, <1>3 DEF OutOfStep, Effects, MediumEffect, At
  <2> QED BY <2>1 DEF LiveMedia
<1>6. \A s \in Requests : s # r => MediaAt(db, objects, req[s])
  BY DEF Stored
<1>7. {m} \in SUBSET Media
  BY <1>3
<1>8. CASE InsertMedia(r) /\ Exists(req[r].row)
  <2>1. req' = [req EXCEPT ![r] = Done] /\ UNCHANGED objects
    BY <1>8 DEF InsertMedia, Finish, Go
  <2>2. db' = CreateMedium(db, m, req[r].user, req[r].row)
    BY <1>1, <1>8 DEF InsertMedia
  <2>3. m \in LiveMedia(db')
    <3>1. db'.media[m].life = "live"
      BY <1>3, <2>2, InvDb DEF CreateMedium, Inv2, Database
    <3> QED BY <1>3, <3>1 DEF LiveMedia
  <2>4. MediaAt(db', objects', Done)
    BY DoneIs DEF MediaAt
  <2>5. \A s \in Requests : ~(req[s].pc = "dropRow" /\ req[s].row = m)
    BY <1>3 DEF Stored, MediaAt
  <2>9. Explained(Done, m) /\ Unminded(r, m) /\ \A n \in Media \ {m} : Aside(r, n)
    BY <1>2, <1>3, <1>4, <1>5, <1>7, <2>1, <2>3, <2>4, <2>5 DEF Explained, Unminded, Aside
  <2> QED BY <1>2, <1>3, <1>4, <1>5, <1>7, <2>1, <2>3, <2>4, <2>5, <2>9, OneStored
<1>9. CASE Go(r, [req[r] EXCEPT !.pc = "cleanup"]) /\ UNCHANGED <<db, objects>>
  <2>1. PICK q : q = [req[r] EXCEPT !.pc = "cleanup"]
    OBVIOUS
  <2>2. req' = [req EXCEPT ![r] = q] /\ q.pc = "cleanup" /\ q.new = m
    BY <1>1, <1>9, <2>1, InvDb DEF Go, Inv2, Request
  <2>3. MediaAt(db', objects', q) /\ OutOfStep(q, m)
    BY <1>3, <1>9, <2>2 DEF MediaAt, OutOfStep
  <2>4. \A s \in Requests : ~(req[s].pc = "dropRow" /\ req[s].row = m)
    BY <1>3 DEF Stored, MediaAt
  <2>9. Explained(q, m) /\ Unminded(r, m) /\ \A n \in Media \ {m} : Aside(r, n)
    BY <1>2, <1>3, <1>4, <1>5, <1>7, <1>9, <2>2, <2>3, <2>4 DEF Explained, Unminded, Aside
  <2> QED BY <1>2, <1>3, <1>4, <1>5, <1>7, <1>9, <2>2, <2>3, <2>4, <2>9, OneStored
<1>10. CASE Cleanup(r)
  <2>1. req' = [req EXCEPT ![r] = Done] /\ objects' = objects \ {m} /\ UNCHANGED db
    BY <1>1, <1>10 DEF Cleanup, Finish, Go
  <2>2. m \notin LiveMedia(db')
    BY <1>3, <2>1 DEF LiveMedia
  <2>3. MediaAt(db', objects', Done)
    BY DoneIs DEF MediaAt
  <2>9. Explained(Done, m) /\ Unminded(r, m) /\ \A n \in Media \ {m} : Aside(r, n)
    BY <1>2, <1>3, <1>4, <1>5, <1>7, <2>1, <2>2, <2>3 DEF Explained, Unminded, Aside
  <2> QED BY <1>2, <1>3, <1>4, <1>5, <1>7, <2>1, <2>2, <2>3, <2>9, OneStored
<1> QED BY <1>8, <1>9, <1>10 DEF InsertMedia, InsertMediaFails

\* The object goes before its row.
LEMMA DropStored ==
  ASSUME Inv2, Stored, NEW r \in Requests, DropObject(r) \/ DropRow(r)
  PROVE  Stored'
<1>1. PICK m : m = req[r].row
  OBVIOUS
<1>2. req[r].pc \in {"dropObject", "dropRow"} /\ adrift' = adrift
  BY DEF DropObject, DropRow, quiet, At
<1>3. /\ m \in Media /\ db.media[m].life # "free" /\ Effects(r)
      /\ req[r].pc = "dropRow" => m \notin objects
  <2>1. m \in Media
    BY <1>1, <1>2, InvDb DEF Inv2, Shaped
  <2> QED BY <1>1, <1>2, <2>1, StepEffects DEF Inv2, Stored, MediaAt, Step
<1>4. \A s \in Requests : ~(req[s].pc \in {"insertMedia", "cleanup"} /\ req[s].new = m)
  <2>1. m # None /\ m \notin FreeIn(db)
    BY <1>3, FreeIs, BoundsOK
  <2> QED BY <2>1 DEF Inv2, Claims, Pending
<1>5. \A n \in Media \ {m} : ~OutOfStep(req[r], n) /\ (n \in LiveMedia(db') <=> n \in LiveMedia(db))
  <2>1. \A n \in Media \ {m} : ~OutOfStep(req[r], n) /\ db'.media[n].life = db.media[n].life
    BY <1>1, <1>2, <1>3 DEF OutOfStep, Effects, MediumEffect, At
  <2> QED BY <2>1 DEF LiveMedia
<1>6. {m} \in SUBSET Media
  BY <1>3
<1>7. CASE DropObject(r)
  <2>1. PICK q : q = [req[r] EXCEPT !.pc = "dropRow"]
    OBVIOUS
  <2>2. /\ req' = [req EXCEPT ![r] = q] /\ q.pc = "dropRow" /\ q.row = m
        /\ objects' = objects \ {m} /\ UNCHANGED db
    BY <1>1, <1>7, <2>1, InvDb DEF DropObject, Go, Inv2, Request
  <2>3. MediaAt(db', objects', q) /\ OutOfStep(q, m)
    BY <1>3, <2>2 DEF MediaAt, OutOfStep
  <2>9. Explained(q, m) /\ Unminded(r, m) /\ \A n \in Media \ {m} : Aside(r, n)
    BY <1>2, <1>3, <1>4, <1>5, <1>6, <2>2, <2>3 DEF Explained, Unminded, Aside
  <2> QED BY <1>2, <1>3, <1>4, <1>5, <1>6, <2>2, <2>3, <2>9, OneStored
<1>8. CASE DropRow(r)
  <2>1. /\ req' = [req EXCEPT ![r] = Done] /\ UNCHANGED objects /\ m \notin objects'
    BY <1>3, <1>8 DEF DropRow, Finish, Go, At
  <2>2. m \notin LiveMedia(db')
    <3>1. CASE Exists(m)
      <4>1. db' = DeleteMedium(db, m)
        BY <1>1, <1>8, <3>1 DEF DropRow
      <4>2. db'.media[m] = GoneMedium
        BY <1>3, <4>1, InvDb, BlankRows DEF DeleteMedium, Inv2, Database
      <4> QED BY <4>2 DEF LiveMedia, GoneMedium
    <3>2. CASE ~Exists(m)
      BY <1>1, <1>8, <3>2 DEF DropRow, Exists
    <3> QED BY <3>1, <3>2
  <2>3. MediaAt(db', objects', Done)
    BY DoneIs DEF MediaAt
  <2>9. Explained(Done, m) /\ Unminded(r, m) /\ \A n \in Media \ {m} : Aside(r, n)
    BY <1>2, <1>3, <1>4, <1>5, <1>6, <2>1, <2>2, <2>3 DEF Explained, Unminded, Aside
  <2> QED BY <1>2, <1>3, <1>4, <1>5, <1>6, <2>1, <2>2, <2>3, <2>9, OneStored
<1> QED BY <1>7, <1>8

\* A request that stops half way sets its medium adrift.
LEMMA AbortStored ==
  ASSUME Inv2, Stored, NEW r \in Requests, Abort(r)
  PROVE  Stored'
<1>1. /\ req' = [req EXCEPT ![r] = Done] /\ UNCHANGED <<db, objects>> /\ Effects(r)
      /\ adrift' = adrift \cup (CASE req[r].pc \in {"insertMedia", "cleanup"} -> {req[r].new}
                                  [] req[r].pc = "dropRow" -> {req[r].row}
                                  [] OTHER -> {})
  BY NoEffects DEF Abort, Finish, Go
<1>2. MediaAt(db', objects', Done) /\ Done.pc = "done"
  BY DoneIs DEF MediaAt
<1>3. CASE req[r].pc \notin {"insertMedia", "cleanup", "dropRow"}
  BY <1>1, <1>2, <1>3, QuietStored
<1>4. CASE req[r].pc \in {"insertMedia", "cleanup", "dropRow"}
  <2>1. PICK m : m = IF req[r].pc = "dropRow" THEN req[r].row ELSE req[r].new
    OBVIOUS
  <2>2. m \in Media /\ (req[r].pc = "dropRow" => m \notin objects)
        /\ (req[r].pc # "dropRow" => m \in objects)
    BY <1>4, <2>1, InvDb DEF Inv2, Shaped, Stored, MediaAt
  <2>3. adrift' = adrift \cup {m}
    BY <1>1, <1>4, <2>1
  <2>4. \A n \in Media \ {m} : ~OutOfStep(req[r], n)
    BY <2>1 DEF OutOfStep
  <2>5. \A s \in Requests : s # r =>
           /\ m \in objects' \/ ~(req[s].pc \in {"insertMedia", "cleanup"} /\ req[s].new = m)
           /\ m \notin objects' \/ ~(req[s].pc = "dropRow" /\ req[s].row = m)
    BY <1>1 DEF Stored, MediaAt
  <2>6. {m} \in SUBSET Media
    BY <2>2
  <2>9. Explained(Done, m) /\ Unminded(r, m) /\ \A n \in Media \ {m} : Aside(r, n)
    BY <1>1, <1>2, <2>2, <2>3, <2>4, <2>5, <2>6 DEF Explained, Unminded, Aside
  <2> QED BY <1>1, <1>2, <2>2, <2>3, <2>4, <2>5, <2>6, <2>9, OneStored
<1> QED BY <1>3, <1>4

\* Every step of a request accounts for its media.
LEMMA StepStored ==
  ASSUME Inv2, Stored, NEW r \in Requests, Step(r) \/ Abort(r)
  PROVE  Stored'
<1>1. Effects(r) /\ Inv1 /\ req[r] \in Request
  BY StepEffects, InvDb DEF Inv2
<1>2. CASE StoreUpload(r)
  BY <1>2, UploadStored
<1>3. CASE InsertMedia(r) \/ InsertMediaFails(r) \/ Cleanup(r)
  BY <1>3, NamedStored
<1>4. CASE DropObject(r) \/ DropRow(r)
  BY <1>4, DropStored
<1>5. CASE Abort(r)
  BY <1>5, AbortStored
<1>6. ASSUME UNCHANGED <<objects, adrift>>,
             req[r].pc \notin {"insertMedia", "cleanup", "dropRow"}, Finish(r)
      PROVE  Stored'
  BY <1>1, <1>6, DoneIs, QuietStored DEF Finish, Go
<1>7. ASSUME UNCHANGED <<objects, adrift>>,
             req[r].pc \notin {"insertMedia", "cleanup", "dropRow"}, NEW q, Go(r, q),
             q.pc \in {"item", "cloneCards", "insertShare"}
      PROVE  Stored'
  BY <1>1, <1>7, QuietStored DEF Go
<1>8. CASE InsertDeck(r) \/ CloneDeck(r) \/ DropShare(r)
  <2>1. req[r].pc \notin {"insertMedia", "cleanup", "dropRow"} /\ UNCHANGED <<objects, adrift>>
    BY <1>8 DEF InsertDeck, CloneDeck, DropShare, At, quiet
  <2>2. ASSUME Go(r, [req[r] EXCEPT !.pc = "item", !.new = Fresh(Decks)]) PROVE Stored'
    <3>1. PICK q : q = [req[r] EXCEPT !.pc = "item", !.new = Fresh(Decks)]
      OBVIOUS
    <3>2. q.pc = "item"
      BY <1>1, <3>1 DEF Request
    <3> QED BY <1>7, <2>1, <2>2, <3>1, <3>2
  <2>3. ASSUME Go(r, [req[r] EXCEPT !.pc = "cloneCards", !.new = Fresh(Decks)]) PROVE Stored'
    <3>1. PICK q : q = [req[r] EXCEPT !.pc = "cloneCards", !.new = Fresh(Decks)]
      OBVIOUS
    <3>2. q.pc = "cloneCards"
      BY <1>1, <3>1 DEF Request
    <3> QED BY <1>7, <2>1, <2>3, <3>1, <3>2
  <2>4. ASSUME Go(r, [req[r] EXCEPT !.pc = "insertShare"]) PROVE Stored'
    <3>1. PICK q : q = [req[r] EXCEPT !.pc = "insertShare"]
      OBVIOUS
    <3>2. q.pc = "insertShare"
      BY <1>1, <3>1 DEF Request
    <3> QED BY <1>7, <2>1, <2>4, <3>1, <3>2
  <2> QED BY <1>6, <1>8, <2>1, <2>2, <2>3, <2>4 DEF InsertDeck, CloneDeck, DropShare
<1>9. CASE Count(r)
  <2>1. PICK q : q = [req[r] EXCEPT !.pc = "item", !.count = CountQuestions(db, req[r].row)]
    OBVIOUS
  <2>2. q.pc = "item"
    BY <1>1, <2>1 DEF Request
  <2>3. /\ Go(r, q) /\ UNCHANGED <<objects, adrift>>
        /\ req[r].pc \notin {"insertMedia", "cleanup", "dropRow"}
    BY <1>9, <2>1 DEF Count, quiet, At
  <2> QED BY <1>7, <2>2, <2>3
<1>10. CASE InsertItem(r)
  <2>1. req[r].pc = "item" /\ UNCHANGED <<objects, adrift>>
    BY <1>10 DEF InsertItem, At, quiet
  <2>2. ASSUME NEW item, Go(r, [req[r] EXCEPT !.made = Append(@, item)]) PROVE Stored'
    <3>1. PICK q, made : q = [req[r] EXCEPT !.made = made] /\ made = Append(req[r].made, item)
      OBVIOUS
    <3>2. q.pc = "item" /\ Go(r, q)
      BY <1>1, <2>1, <2>2, <3>1 DEF Request
    <3> QED BY <1>7, <2>1, <3>2
  <2> QED BY <1>6, <1>10, <2>1, <2>2 DEF InsertItem
<1>11. CASE \/ Write(r) \/ DeleteRow(r) \/ SuspendRow(r) \/ ResetRow(r) \/ CloneCards(r)
            \/ InsertShare(r) \/ UnshareRow(r) \/ Create(r) \/ Commit(r)
  BY <1>6, <1>11 DEF Write, DeleteRow, SuspendRow, ResetRow, CloneCards, InsertShare, UnshareRow,
                     Create, Commit, At, quiet
<1> QED BY <1>2, <1>3, <1>4, <1>5, <1>8, <1>9, <1>10, <1>11 DEF Step

LEMMA NextStored ==
  ASSUME Inv2, Stored, [Next]_vars
  PROVE  Stored'
<1>1. ASSUME NEW r \in Requests, NEW u \in Users, Arrive(r, u) PROVE Stored'
  <2>1. PICK q : Admitted(r, q) /\ Start(r, q)
    BY <1>1, InvDb, Admission DEF Inv2
  <2>2. /\ q.pc \in Entries /\ (q.pc = "dropObject" => q.row \in LiveMedia(db))
        /\ req[r].pc = "new" /\ req' = [req EXCEPT ![r] = q] /\ UNCHANGED <<db, objects, adrift>>
    BY <2>1 DEF Admitted, Start, quiet
  <2>3. Effects(r)
    BY <2>2, NoEffects
  <2>4. q.pc \notin {"insertMedia", "cleanup", "dropRow"}
    BY <2>2 DEF Entries
  <2> QED BY <2>2, <2>3, <2>4, QuietStored
<1>2. CASE UNCHANGED vars
  <2>1. req' = req /\ db' = db /\ objects' = objects /\ adrift' = adrift
    BY <1>2 DEF vars
  <2> QED BY <2>1 DEF Stored, Accounted
<1> QED BY <1>1, <1>2, StepStored DEF Next

LEMMA InitStored ==
  ASSUME Init
  PROVE  Stored
<1>1. PICK m : m = One(Media)
  OBVIOUS
<1>2. /\ db.media = [x \in Media |-> IF x # m THEN FreeMedium
                       ELSE [life |-> "live", owner |-> One(Users), card |-> One(Cards)]]
      /\ objects = {m} /\ \A r \in Requests : req[r] = NewRequest
  BY <1>1 DEF Init
<1>3. \A x \in Media : x \in objects <=> x \in LiveMedia(db)
  BY <1>2 DEF LiveMedia, FreeMedium
<1>4. \A r \in Requests : MediaAt(db, objects, req[r])
  BY <1>2, NewIs DEF MediaAt
<1> QED BY <1>3, <1>4 DEF Stored, Accounted

\* What is accounted for is in step.
LEMMA StoredInStep ==
  ASSUME Stored
  PROVE  MediaInStep
<1>1. ASSUME NEW m, NEW r \in Requests, OutOfStep(req[r], m) PROVE Touching(m)
  BY <1>1 DEF OutOfStep, Touching, UnderWay, Steps
<1> QED BY <1>1 DEF Stored, Accounted, MediaInStep

\* MediaInStep: but for requests under way and those that failed half way, an
\* object is stored exactly when its row is, whatever InsertMedia, Cleanup,
\* DropObject and DropRow of other requests do in between.
THEOREM MediaStayInStep == Spec => []MediaInStep
<1>1. Init => Stored
  BY InitStored
<1>2. Inv2 /\ Stored /\ [Next]_vars => Stored'
  BY NextStored
<1>3. Stored => MediaInStep
  BY StoredInStep
<1> QED BY <1>1, <1>2, <1>3, Inductive2, PTL DEF Spec

(***************************************************************************)
(* What is inserted together.                                              *)
(***************************************************************************)
LEMMA Counted ==
  ASSUME NEW S, IsFiniteSet(S), NEW T, NEW g \in [S -> T], T = Image(g, S),
         \A x, y \in S : g[x] = g[y] => x = y
  PROVE  Cardinality(T) = Cardinality(S)
<1>1. \A y \in T : \E x \in S : g[x] = y
  BY DEF Image
<1>2. g \in Bijection(S, T)
  BY <1>1 DEF Bijection, Injection, Surjection, IsInjective
<1>3. ExistsBijection(S, T)
  BY <1>2 DEF ExistsBijection
<1> QED BY <1>3, FS_Bijection

\* A step that the tables see is one request's.
LEMMA Actor ==
  ASSUME Inv2, [Next]_vars, db' # db
  PROVE  \E a \in Requests : Step(a) /\ Effects(a)
<1>1. ASSUME NEW r \in Requests, NEW u \in Users, Arrive(r, u) PROVE db' = db
  BY <1>1, InvDb, Admission DEF Inv2, Start
<1>2. ASSUME NEW r \in Requests, Abort(r) PROVE db' = db
  BY <1>2 DEF Abort
<1>3. CASE UNCHANGED vars
  BY <1>3 DEF vars
<1> QED BY <1>1, <1>2, <1>3, StepEffects DEF Next, Inv2

\* The step that is taken is the one the request is at.
LEMMA StepAt ==
  ASSUME NEW r \in Requests, Step(r)
  PROVE  /\ At(r, "suspend") => SuspendRow(r)
         /\ At(r, "resetFSRS") => ResetRow(r)
         /\ At(r, "cloneCards") => CloneCards(r)
         /\ At(r, "item") => Commit(r) \/ db' = db
         /\ At(r, "write") => Write(r)
         /\ At(r, "delete") => DeleteRow(r)
  BY DEF Step, At, Write, DeleteRow, SuspendRow, ResetRow, InsertDeck, CloneDeck, CloneCards,
         DropShare, InsertShare, UnshareRow, Create, Count, InsertItem, Commit, StoreUpload,
         InsertMedia, InsertMediaFails, Cleanup, DropObject, DropRow

\* An unused name is no row that stands.
LEMMA UnusedIsFree ==
  ASSUME Inv2
  PROVE  /\ \A d \in Unused(Decks) : d \notin LiveDecks(db)
         /\ \A c \in Unused(Cards) : c \notin LiveCards(db)
<1>1. \A d \in Unused(Decks) : d \in FreeIn(db) /\ d \in Decks
  BY Unclaimed DEF Unused
<1>2. \A c \in Unused(Cards) : c \in FreeIn(db) /\ c \in Cards
  BY Unclaimed DEF Unused
<1> QED BY <1>1, <1>2, FreeIs, Lives

\* Nor is one that a request has drawn.
LEMMA PendingIsFree ==
  ASSUME Inv2, NEW r \in Requests
  PROVE  /\ \A c \in Cards : Carries(req[r].made, c) => c \notin LiveCards(db)
         /\ \A i \in DOMAIN req[r].made : NameOf(req[r].made[i]) \in FreeIn(db)
         /\ req[r].new \in Decks => req[r].new \notin LiveDecks(db)
<1>1. Pending(req[r]) \subseteq FreeIn(db)
  BY DEF Inv2, Claims
<1>2. \A i \in DOMAIN req[r].made : NameOf(req[r].made[i]) \in FreeIn(db)
  BY <1>1 DEF Pending
<1>3. \A c \in Cards : Carries(req[r].made, c) => c \in FreeIn(db)
  BY <1>2 DEF Carries, NameOf
<1>4. req[r].new \in Decks => req[r].new \in FreeIn(db)
  BY <1>1, BoundsOK DEF Pending, Rows
<1> QED BY <1>2, <1>3, <1>4, FreeIs, Lives

\* Suspension and FSRS state.
LEMMA EditsOwn ==
  ASSUME Inv2, [Next]_vars, NEW c \in LiveCards(db) \cap LiveCards(db')
  PROVE  /\ db'.cards[c].suspended # db.cards[c].suspended
              => \E r \in Requests : At(r, "suspend") /\ req'[r].pc = "done"
         /\ db'.cards[c].fsrs # db.cards[c].fsrs
              => \E r \in Requests : At(r, "resetFSRS") /\ req'[r].pc = "done"
<1>1. CASE db' = db
  BY <1>1
<1>2. CASE db' # db
  <2>1. PICK a \in Requests : Step(a) /\ Effects(a)
    BY <1>2, Actor
  <2>2. c \in Cards /\ CardEffect(a, c)
    BY <2>1, Lives DEF Effects
  <2>3. c \notin Unused(Cards) /\ ~Carries(req[a].made, c)
    BY <2>2, UnusedIsFree, PendingIsFree
  <2>4. db'.cards[c] # GoneCard
    BY DEF LiveCards, GoneCard, CardRow
  <2>5. \/ db'.cards[c] = db.cards[c]
        \/ At(a, "suspend") /\ db'.cards[c].fsrs = db.cards[c].fsrs
        \/ At(a, "resetFSRS") /\ db'.cards[c].suspended = db.cards[c].suspended
    BY <2>2, <2>3, <2>4 DEF CardEffect
  <2>6. At(a, "suspend") \/ At(a, "resetFSRS") => req'[a].pc = "done"
    <3>1. At(a, "suspend") \/ At(a, "resetFSRS") => Finish(a)
      BY <2>1, StepAt DEF SuspendRow, ResetRow
    <3>2. Finish(a) => req'[a].pc = "done"
      BY InvDb, DoneIs DEF Finish, Go, Inv2
    <3> QED BY <3>1, <3>2
  <2> QED BY <2>5, <2>6
<1> QED BY <1>1, <1>2

\* EditsApart: a card's suspension changes by SuspendRow only and its progress by
\* ResetRow only, whatever the edits beside them have read before.
THEOREM EditsKeepApart == Spec => EditsApart
<1>1. Inv2 /\ [Next]_vars =>
        [\A c \in LiveCards(db) \cap LiveCards(db') :
           /\ db'.cards[c].suspended # db.cards[c].suspended
                => \E r \in Requests : At(r, "suspend") /\ req'[r].pc = "done"
           /\ db'.cards[c].fsrs # db.cards[c].fsrs
                => \E r \in Requests : At(r, "resetFSRS") /\ req'[r].pc = "done"]_vars
  BY EditsOwn
<1> QED BY <1>1, Inductive2, PTL DEF Spec, EditsApart

News(r) == InsertedBy(db', r) \ InsertedBy(db, r)

LEMMA DistinctCards ==
  /\ Cards \cap Questions = {} /\ None \notin Decks \cup Quizzes /\ Decks \cap Quizzes = {}
  BY BoundsOK, UuidsOK DEF Rows

\* A COMMIT inserts as many rows as the batch has items.
LEMMA CommitInserts ==
  ASSUME Inv2, NEW r \in Requests, Commit(r)
  PROVE  Cardinality(News(r)) = Wanted(r)
<1>1. PICK made, row : made = req[r].made /\ row = req[r].row
  OBVIOUS
<1>2. /\ Len(made) = Wanted(r) /\ made \in Seq(Made) /\ Distinct(req[r])
  BY <1>1, InvDb DEF Commit, Inv2, Claims, Request
<1>3. PICK g : g = [i \in DOMAIN made |-> NameOf(made[i])]
  OBVIOUS
<1>4. \A i, j \in DOMAIN made : g[i] = g[j] => i = j
  BY <1>1, <1>2, <1>3 DEF Distinct
<1>5. \A i \in DOMAIN made : g[i] \in FreeIn(db)
  BY <1>1, <1>3, PendingIsFree
<1>6. PICK T : T = Image(g, DOMAIN made)
  OBVIOUS
<1>7. Cardinality(T) = Wanted(r)
  <2>1. PICK n, S : n = Len(made) /\ S = 1..n
    OBVIOUS
  <2>2. n \in Nat /\ DOMAIN made = S /\ n = Wanted(r)
    BY <1>2, <2>1
  <2>3. IsFiniteSet(S) /\ Cardinality(S) = n
    <3>1. n > 0 => IsFiniteSet(1..n) /\ Cardinality(1..n) = n - 1 + 1
      BY <2>2, FS_Interval
    <3>2. n = 0 => IsFiniteSet(1..n) /\ Cardinality(1..n) = 0
      BY <2>2, FS_Interval
    <3> QED BY <2>1, <2>2, <3>1, <3>2
  <2>4. T = Image(g, S) /\ g \in [S -> T]
    BY <1>3, <1>6, <2>2 DEF Image
  <2>5. \A i, j \in S : g[i] = g[j] => i = j
    BY <1>4, <2>2
  <2>6. Cardinality(T) = Cardinality(S)
    BY <2>3, <2>4, <2>5, Counted
  <2> QED BY <2>2, <2>3, <2>6
<1>8. \A c \in Cards : /\ c \in InsertedBy(db, r) <=> (c \in LiveCards(db) /\ db.cards[c].by = r)
                       /\ c \in InsertedBy(db', r) <=> (c \in LiveCards(db') /\ db'.cards[c].by = r)
  BY DistinctCards, Lives DEF InsertedBy
<1>9. \A q \in Questions :
        /\ q \in InsertedBy(db, r) <=> (q \in LiveQuestions(db) /\ db.questions[q].by = r)
        /\ q \in InsertedBy(db', r) <=> (q \in LiveQuestions(db') /\ db'.questions[q].by = r)
  BY DistinctCards, Lives DEF InsertedBy
<1>10. News(r) \subseteq Cards \cup Questions
  BY Lives DEF News, InsertedBy
<1>11. CASE row \in Quizzes
  <2>1. /\ made \in Seq(Pairs) /\ db'.cards = db.cards
        /\ \A q \in Questions :
             \/ \E i \in DOMAIN made :
                  /\ made[i][1] = q
                  /\ db'.questions[q] = QuestionRow(made, row, req[r].count, i, r)
             \/ /\ db'.questions[q] = db.questions[q]
                /\ \A i \in DOMAIN made : made[i][1] # q
    BY <1>1, <1>11, CommitIs DEF Inv2
  <2>2. \A i \in DOMAIN made : /\ made[i] \in Pairs /\ made[i] \notin Cards
                               /\ made[i][1] \in Questions
    BY <2>1, UuidsOK DEF Pairs
  <2>3. \A i \in DOMAIN made : g[i] = made[i][1]
    BY <1>3, <2>2 DEF NameOf
  <2>4. \A q \in Questions : q \in T <=> \E i \in DOMAIN made : made[i][1] = q
    BY <1>6, <2>3 DEF Image
  <2>5. \A q \in Questions : q \in News(r) <=> q \in T
    <3> SUFFICES ASSUME NEW q \in Questions PROVE q \in News(r) <=> q \in T
      OBVIOUS
    <3>1. CASE \E i \in DOMAIN made :
                  /\ made[i][1] = q
                  /\ db'.questions[q] = QuestionRow(made, row, req[r].count, i, r)
      <4>1. db'.questions[q].life = "live" /\ db'.questions[q].by = r
        BY <3>1 DEF QuestionRow
      <4>2. q \in FreeIn(db)
        BY <1>5, <2>3, <3>1
      <4>3. q \notin LiveQuestions(db) /\ q \in LiveQuestions(db')
        BY <4>1, <4>2, FreeIs DEF LiveQuestions
      <4> QED BY <1>9, <2>4, <3>1, <4>1, <4>3 DEF News
    <3>2. CASE db'.questions[q] = db.questions[q] /\ \A i \in DOMAIN made : made[i][1] # q
      <4>1. q \in LiveQuestions(db') <=> q \in LiveQuestions(db)
        BY <3>2 DEF LiveQuestions
      <4> QED BY <1>9, <2>4, <3>2, <4>1 DEF News
    <3> QED BY <2>1, <3>1, <3>2
  <2>6. \A c \in Cards : c \notin News(r)
    <3>1. LiveCards(db') = LiveCards(db)
      BY <2>1 DEF LiveCards
    <3> QED BY <1>8, <2>1, <3>1 DEF News
  <2>7. T \subseteq Questions
    BY <1>6, <2>2, <2>3 DEF Image
  <2>8. News(r) = T
    BY <1>10, <2>5, <2>6, <2>7
  <2> QED BY <1>7, <2>8
<1>12. CASE row \notin Quizzes
  <2>1. PICK d \in Decks : \A c \in Cards :
          db'.cards[c] = IF Carries(made, c) THEN CardRow("live", d, r) ELSE db.cards[c]
    BY <1>1, <1>12, CommitIs DEF Inv2
  <2>2. made \in Seq(Cards) /\ db'.questions = db.questions
    BY <1>1, <1>12, CommitIs DEF Inv2
  <2>3. \A i \in DOMAIN made : g[i] = made[i] /\ made[i] \in Cards
    BY <1>3, <2>2 DEF NameOf
  <2>4. \A c \in Cards : c \in T <=> Carries(made, c)
    BY <1>6, <2>3 DEF Image, Carries
  <2>5. \A c \in Cards : c \in News(r) <=> c \in T
    <3> SUFFICES ASSUME NEW c \in Cards PROVE c \in News(r) <=> c \in T
      OBVIOUS
    <3>1. CASE Carries(made, c)
      <4>1. db'.cards[c].life = "live" /\ db'.cards[c].by = r
        BY <2>1, <3>1 DEF CardRow
      <4>2. c \notin LiveCards(db) /\ c \in LiveCards(db')
        BY <1>1, <3>1, <4>1, PendingIsFree DEF LiveCards
      <4> QED BY <1>8, <2>4, <3>1, <4>1, <4>2 DEF News
    <3>2. CASE ~Carries(made, c)
      <4>1. db'.cards[c] = db.cards[c]
        BY <2>1, <3>2
      <4>2. c \in LiveCards(db') <=> c \in LiveCards(db)
        BY <4>1 DEF LiveCards
      <4> QED BY <1>8, <2>4, <3>2, <4>1, <4>2 DEF News
    <3> QED BY <3>1, <3>2
  <2>6. \A q \in Questions : q \notin News(r)
    <3>1. LiveQuestions(db') = LiveQuestions(db)
      BY <2>2 DEF LiveQuestions
    <3> QED BY <1>9, <2>2, <3>1 DEF News
  <2>7. T \subseteq Cards
    BY <1>6, <2>3 DEF Image
  <2>8. News(r) = T
    BY <1>10, <2>5, <2>6, <2>7
  <2> QED BY <1>7, <2>8
<1> QED BY <1>11, <1>12

\* Nothing else inserts for a batch, an import or a generated quiz.
LEMMA OnlyCommitInserts ==
  ASSUME Inv2, [Next]_vars, NEW r \in Requests, News(r) # {},
         req[r].op \in {"batch", "import", "generate"}
  PROVE  Commit(r)
<1>1. db' # db
  BY DEF News, InsertedBy, LiveCards, LiveQuestions
<1>2. PICK a \in Requests : Step(a) /\ Effects(a) /\ Shaped(req[a])
  BY <1>1, Actor, InvDb DEF Inv2
<1>3. PICK x : x \in News(r)
  OBVIOUS
<1>4. CASE x \in Cards
  <2>1. /\ x \in LiveCards(db') /\ db'.cards[x].by = r
        /\ ~(x \in LiveCards(db) /\ db.cards[x].by = r)
    BY <1>3, <1>4, DistinctCards, Lives DEF News, InsertedBy
  <2>2. CardEffect(a, x)
    BY <1>2, <1>4 DEF Effects
  <2>3. db'.cards[x].life = "live" /\ db'.cards[x] # GoneCard
    BY <2>1 DEF LiveCards, GoneCard, CardRow
  <2>4. db'.cards[x] # db.cards[x]
    BY <2>1 DEF LiveCards
  <2>5. PICK d \in Decks :
          /\ db'.cards[x] = CardRow("live", d, a)
          /\ \/ At(a, "create") /\ req[a].op = "create"
             \/ At(a, "cloneCards")
             \/ At(a, "item")
    BY <2>1, <2>2, <2>3, <2>4 DEF CardEffect
  <2>6. a = r
    BY <2>1, <2>5 DEF CardRow
  <2>7. At(r, "item")
    BY <1>2, <2>5, <2>6 DEF Shaped, At
  <2> QED BY <1>1, <1>2, <2>6, <2>7, StepAt
<1>5. CASE x \in Questions
  <2>1. /\ x \in LiveQuestions(db') /\ db'.questions[x].by = r
        /\ ~(x \in LiveQuestions(db) /\ db.questions[x].by = r)
    BY <1>3, <1>5, DistinctCards, Lives DEF News, InsertedBy
  <2>2. QuestionEffect(a, x)
    BY <1>2, <1>5 DEF Effects
  <2>3. db'.questions[x] # GoneQuestion
    BY <2>1 DEF LiveQuestions, GoneQuestion
  <2>4. ~(db'.questions[x].life = db.questions[x].life /\ db'.questions[x].by = db.questions[x].by)
    BY <2>1 DEF LiveQuestions
  <2>5. At(a, "item") /\ \E i : db'.questions[x] = QuestionRow(req[a].made, req[a].row, req[a].count, i, a)
    BY <2>2, <2>3, <2>4 DEF QuestionEffect
  <2>6. a = r
    BY <2>1, <2>5 DEF QuestionRow
  <2> QED BY <1>1, <1>2, <2>5, <2>6, StepAt
<1>6. x \in Cards \cup Questions
  BY <1>3, Lives DEF News, InsertedBy
<1> QED BY <1>4, <1>5, <1>6

\* A deck that is new is its request's, which is at one of three steps.
LEMMA NewDeckIs ==
  ASSUME Inv2, [Next]_vars, NEW d \in LiveDecks(db') \ LiveDecks(db)
  PROVE  \E a \in Requests :
           /\ Step(a) /\ db'.decks[d].by = a
           /\ \/ At(a, "insertDeck") /\ req[a].op = "create"
              \/ CloneCards(a) /\ d = req[a].new
              \/ Commit(a) /\ req[a].op = "import"
<1>1. db' # db
  BY DEF LiveDecks
<1>2. PICK a \in Requests : Step(a) /\ Effects(a)
  BY <1>1, Actor
<1>3. d \in Decks /\ DeckEffect(a, d)
  BY <1>2, Lives DEF Effects
<1>4. db'.decks[d] # db.decks[d] /\ db'.decks[d] # GoneDeck
  BY DEF LiveDecks, GoneDeck
<1>5. /\ db'.decks[d].by = a
      /\ \/ At(a, "insertDeck") /\ req[a].op = "create"
         \/ At(a, "cloneCards") /\ d = req[a].new
         \/ At(a, "item") /\ req[a].op = "import"
  BY <1>3, <1>4 DEF DeckEffect
<1> QED BY <1>1, <1>2, <1>5, StepAt

\* What a step inserts for a batch is the batch.
LEMMA BatchInserts ==
  ASSUME Inv2, [Next]_vars, NEW r \in Requests
  PROVE  /\ News(r) # {} /\ req[r].op \in {"batch", "import", "generate"}
              => Cardinality(News(r)) = Wanted(r)
         /\ \A d \in LiveDecks(db') \ LiveDecks(db) :
              db'.decks[d].by = r /\ req[r].op = "import" => News(r) # {}
<1>1. News(r) # {} /\ req[r].op \in {"batch", "import", "generate"}
        => Cardinality(News(r)) = Wanted(r)
  BY OnlyCommitInserts, CommitInserts
<1>2. ASSUME NEW d \in LiveDecks(db') \ LiveDecks(db), db'.decks[d].by = r, req[r].op = "import"
      PROVE  News(r) # {}
  <2>1. PICK a \in Requests :
          /\ db'.decks[d].by = a
          /\ \/ At(a, "insertDeck") /\ req[a].op = "create"
             \/ CloneCards(a)
             \/ Commit(a)
    BY NewDeckIs
  <2>2. CloneCards(r) => req[r].op = "clone"
    BY InvDb DEF Inv2, Shaped, CloneCards, At
  <2>3. Commit(r)
    BY <1>2, <2>1, <2>2
  <2>4. Cardinality(News(r)) = BatchItems
    BY <1>2, <2>3, CommitInserts DEF Wanted
  <2> QED BY <2>4, BoundsOK, FS_EmptySet
<1> QED BY <1>1, <1>2

\* The new deck has a copy of each card, and each is new.
LEMMA ClonedWhole ==
  ASSUME Inv2, NEW r \in Requests, CloneCards(r), NEW d, d = req[r].new
  PROVE  /\ Cardinality(CardsOf(db', d)) = Cardinality(CardsOf(db, req[r].row))
         /\ \A c \in CardsOf(db', d) : db'.cards[c].fsrs = "new" /\ ~db'.cards[c].suspended
<1>1. PICK S : S = CardsOf(db, req[r].row)
  OBVIOUS
<1>2. PICK copies \in [S -> Unused(Cards)] :
        /\ \A c, e \in S : copies[c] = copies[e] => c = e
        /\ \A c \in Cards : db'.cards[c] = IF c \in Image(copies, S) THEN CardRow("live", d, r)
                                                                     ELSE db.cards[c]
  BY <1>1, CloneIs DEF Inv2
<1>3. PICK T : T = Image(copies, S)
  OBVIOUS
<1>4. T \subseteq Cards
  BY <1>2, <1>3 DEF Image, Unused
<1>5. \A c \in T : /\ db'.cards[c].life = "live" /\ db'.cards[c].deck = d
                   /\ db'.cards[c].fsrs = "new" /\ ~db'.cards[c].suspended
  BY <1>2, <1>3, <1>4 DEF CardRow
<1>6. d \in Decks /\ d \notin LiveDecks(db)
  <2>1. d \in Decks
    BY InvDb DEF CloneCards, At, Inv2, Shaped
  <2> QED BY <2>1, PendingIsFree
<1>7. \A c \in Cards : c \in CardsOf(db', d) <=> c \in T
  <2> SUFFICES ASSUME NEW c \in Cards PROVE c \in CardsOf(db', d) <=> c \in T
    OBVIOUS
  <2>1. c \in T => c \in CardsOf(db', d)
    BY <1>5 DEF CardsOf, LiveCards
  <2>2. ASSUME c \notin T, c \in CardsOf(db', d) PROVE FALSE
    <3>1. db'.cards[c] = db.cards[c]
      BY <1>2, <1>3, <2>2
    <3>2. c \in LiveCards(db) /\ db.cards[c].deck = d
      BY <2>2, <3>1 DEF CardsOf, LiveCards
    <3>3. db.cards[c].deck \in LiveDecks(db)
      BY <3>2, InvDb DEF Inv2, Sound, Refers
    <3> QED BY <1>6, <3>2, <3>3
  <2> QED BY <2>1, <2>2
<1>8. CardsOf(db', d) = T
  BY <1>4, <1>7 DEF CardsOf, LiveCards
<1>9. IsFiniteSet(S)
  <2>1. S \subseteq Cards
    BY <1>1 DEF CardsOf, LiveCards
  <2> QED BY <2>1, FS_Subset, UuidsOK
<1>10. copies \in [S -> T]
  BY <1>2, <1>3 DEF Image
<1>11. Cardinality(T) = Cardinality(S)
  BY <1>2, <1>3, <1>9, <1>10, Counted
<1> QED BY <1>1, <1>5, <1>8, <1>11

\* What a step inserts for a clone is its source's content.
LEMMA CloneInserts ==
  ASSUME Inv2, [Next]_vars, NEW d \in LiveDecks(db') \ LiveDecks(db), NEW r \in Requests,
         db'.decks[d].by = r, req[r].op = "clone"
  PROVE  /\ Cardinality(CardsOf(db', d)) = Cardinality(CardsOf(db, req[r].row))
         /\ \A c \in CardsOf(db', d) : db'.cards[c].fsrs = "new" /\ ~db'.cards[c].suspended
<1>1. CloneCards(r) /\ d = req[r].new
  BY NewDeckIs
<1> QED BY <1>1, ClonedWhole

\* InsertedWhole: a batch, an import, a generated quiz or a clone appears at its
\* commit with every row it was to have, and at no other step.
THEOREM InsertsAreWhole == Spec => InsertedWhole
<1>1. Inv2 /\ [Next]_vars =>
        [\A r \in Requests :
           LET news == InsertedBy(db', r) \ InsertedBy(db, r) IN
           /\ news # {} /\ req[r].op \in {"batch", "import", "generate"}
                => Cardinality(news) = Wanted(r)
           /\ \A d \in LiveDecks(db') \ LiveDecks(db) :
                db'.decks[d].by = r /\ req[r].op = "import" => news # {}]_vars
  BY BatchInserts DEF News
<1>2. Inv2 /\ [Next]_vars =>
        [\A d \in LiveDecks(db') \ LiveDecks(db), r \in Requests :
           db'.decks[d].by = r /\ req[r].op = "clone" =>
             /\ Cardinality(CardsOf(db', d)) = Cardinality(CardsOf(db, req[r].row))
             /\ \A c \in CardsOf(db', d) : db'.cards[c].fsrs = "new" /\ ~db'.cards[c].suspended]_vars
  BY CloneInserts
<1>3. Spec => BatchesWhole
  BY <1>1, Inductive2, PTL DEF Spec, BatchesWhole
<1>4. Spec => ClonesWhole
  BY <1>2, Inductive2, PTL DEF Spec, ClonesWhole
<1> QED BY <1>3, <1>4 DEF InsertedWhole

(***************************************************************************)
(* Requests that do not overlap.                                           *)
(***************************************************************************)
Idle(r) == req[r].pc \notin Steps
Serial == ~overlapped => \A r, s \in Requests : UnderWay(r) /\ UnderWay(s) => r = s
Reread(r, q) == q.pc = "write" =>
  \A c \in Columns : q.read[c] = IF c \in q.cols THEN r ELSE db.values[q.row][c]
Inv3 == Inv2 /\ Serial /\ (~overlapped => \A r \in Requests : Reread(r, req[r]))

\* What a request goes on with.
GoesOn(r, q) ==
  /\ q.pc # "write"
  /\ q.pc = "insertShare" => DropShare(r) /\ q.row = req[r].row
  /\ q.pc = "item" /\ q.row \in Quizzes =>
       /\ db' = db
       /\ \/ q.count = CountQuestions(db, q.row)
          \/ At(r, "item") /\ q.row = req[r].row /\ q.count = req[r].count
Onward(r) == /\ UnderWay(r) /\ overlapped' = overlapped
             /\ \E q : req' = [req EXCEPT ![r] = q] /\ GoesOn(r, q)

\* What each step leaves of its request.
LEMMA StepsOn ==
  ASSUME Inv1, NEW r \in Requests, Step(r) \/ Abort(r)
  PROVE  Onward(r)
<1>1. req[r] \in Request /\ Shaped(req[r]) /\ None \notin Quizzes
  BY InvDb, BoundsOK DEF Rows
<1>2. CASE Finish(r)
  <2>1. UnderWay(r)
    BY <1>2 DEF Step, Abort, UnderWay, Steps, At, Write, DeleteRow, SuspendRow, ResetRow, InsertDeck,
         CloneDeck, CloneCards, DropShare, InsertShare, UnshareRow, Create, Count, InsertItem,
         Commit, StoreUpload, InsertMedia, InsertMediaFails, Cleanup, DropObject, DropRow
  <2> QED BY <1>2, <2>1, DoneIs DEF Finish, Go, Onward, GoesOn
<1>3. ASSUME NEW pc, NEW new, UnderWay(r), Go(r, [req[r] EXCEPT !.pc = pc, !.new = new]),
             pc \in {"cloneCards", "insertMedia"} \/ (pc = "item" /\ req[r].row = None)
      PROVE  Onward(r)
  <2>1. PICK q : q = [req[r] EXCEPT !.pc = pc, !.new = new]
    OBVIOUS
  <2>2. q.pc = pc /\ q.row = req[r].row
    BY <1>1, <2>1 DEF Request
  <2> QED BY <1>1, <1>3, <2>1, <2>2 DEF Go, Onward, GoesOn
<1>4. ASSUME NEW pc, UnderWay(r), Go(r, [req[r] EXCEPT !.pc = pc]),
             pc \in {"cleanup", "dropRow"} \/ (pc = "insertShare" /\ DropShare(r))
      PROVE  Onward(r)
  <2>1. PICK q : q = [req[r] EXCEPT !.pc = pc]
    OBVIOUS
  <2>2. q.pc = pc /\ q.row = req[r].row
    BY <1>1, <2>1 DEF Request
  <2> QED BY <1>4, <2>1, <2>2 DEF Go, Onward, GoesOn
<1>5. CASE InsertDeck(r) \/ CloneDeck(r) \/ StoreUpload(r)
  <2>1. UnderWay(r) /\ (InsertDeck(r) => req[r].row = None)
    BY <1>1, <1>5 DEF InsertDeck, CloneDeck, StoreUpload, UnderWay, Steps, At, Shaped
  <2> QED BY <1>2, <1>3, <1>5, <2>1 DEF InsertDeck, CloneDeck, StoreUpload
<1>6. CASE DropShare(r) \/ InsertMedia(r) \/ InsertMediaFails(r) \/ DropObject(r)
  <2>1. UnderWay(r)
    BY <1>6 DEF DropShare, InsertMedia, InsertMediaFails, DropObject, UnderWay, Steps, At
  <2> QED BY <1>2, <1>4, <1>6, <2>1 DEF DropShare, InsertMedia, InsertMediaFails, DropObject
<1>7. CASE Count(r)
  <2>1. PICK n, q : /\ n = CountQuestions(db, req[r].row)
                    /\ q = [req[r] EXCEPT !.pc = "item", !.count = n]
    OBVIOUS
  <2>2. q.pc = "item" /\ q.row = req[r].row /\ q.count = n
    BY <1>1, <2>1 DEF Request
  <2> QED BY <1>7, <2>1, <2>2 DEF Count, Go, UnderWay, Steps, At, Onward, GoesOn
<1>8. CASE InsertItem(r)
  <2>1. At(r, "item") /\ UnderWay(r) /\ db' = db
    BY <1>8 DEF InsertItem, UnderWay, Steps, At
  <2>2. ASSUME NEW item, Go(r, [req[r] EXCEPT !.made = Append(@, item)])
        PROVE  Onward(r)
    <3>1. PICK q, made : q = [req[r] EXCEPT !.made = made] /\ made = Append(req[r].made, item)
      OBVIOUS
    <3>2. q.pc = "item" /\ q.row = req[r].row /\ q.count = req[r].count /\ Go(r, q)
      BY <1>1, <2>1, <2>2, <3>1 DEF Request, At
    <3> QED BY <2>1, <3>2 DEF Go, Onward, GoesOn
  <2> QED BY <1>2, <1>8, <2>1, <2>2 DEF InsertItem
<1>9. CASE Abort(r) \/ Cleanup(r) \/ DropRow(r) \/ Write(r) \/ DeleteRow(r) \/ SuspendRow(r) \/ ResetRow(r)
            \/ CloneCards(r) \/ InsertShare(r) \/ UnshareRow(r) \/ Create(r) \/ Commit(r)
  BY <1>2, <1>9 DEF Abort, Cleanup, DropRow, Write, DeleteRow, SuspendRow, ResetRow, CloneCards,
                    InsertShare, UnshareRow, Create, Commit
<1> QED BY <1>5, <1>6, <1>7, <1>8, <1>9 DEF Step

\* While no two requests overlap, one acts alone.
LEMMA Solo ==
  ASSUME Inv1, Serial, [Next]_vars, ~overlapped'
  PROVE  \/ UNCHANGED vars
         \/ \E r \in Requests : \E q :
              /\ Admitted(r, q) /\ Start(r, q) /\ req' = [req EXCEPT ![r] = q]
              /\ \A s \in Requests : Idle(s)
         \/ \E r \in Requests : \E q :
              /\ Step(r) \/ Abort(r)
              /\ ~overlapped /\ req' = [req EXCEPT ![r] = q] /\ GoesOn(r, q)
              /\ \A s \in Requests : s # r => Idle(s)
<1>1. ASSUME NEW r \in Requests, NEW u \in Users, Arrive(r, u)
      PROVE  \E q : /\ Admitted(r, q) /\ Start(r, q) /\ req' = [req EXCEPT ![r] = q]
                    /\ \A s \in Requests : Idle(s)
  <2>1. PICK q : Admitted(r, q) /\ Start(r, q)
    BY <1>1, InvDb, Admission
  <2>2. req' = [req EXCEPT ![r] = q] /\ \A s \in Requests : Idle(s)
    BY <2>1 DEF Start, Idle, UnderWay
  <2> QED BY <2>1, <2>2
<1>2. ASSUME NEW r \in Requests, Step(r) \/ Abort(r)
      PROVE  /\ ~overlapped /\ \E q : req' = [req EXCEPT ![r] = q] /\ GoesOn(r, q)
             /\ \A s \in Requests : s # r => Idle(s)
  <2>1. /\ UnderWay(r) /\ overlapped' = overlapped
        /\ \E q : req' = [req EXCEPT ![r] = q] /\ GoesOn(r, q)
    BY <1>2, StepsOn DEF Onward
  <2> QED BY <2>1 DEF Serial, Idle, UnderWay
<1> QED BY <1>1, <1>2 DEF Next

\* Requests that did not overlap do not overlap, but for one that begins beside
\* another.
LEMMA SerialStays ==
  ASSUME Inv1, Serial, [Next]_vars
  PROVE  Serial'
<1>1. SUFFICES ASSUME ~overlapped', NEW r \in Requests, NEW s \in Requests,
                      UnderWay(r)', UnderWay(s)'
               PROVE  r = s
  BY DEF Serial
<1>2. req \in [Requests -> Request]
  BY InvDb
<1>3. CASE UNCHANGED vars
  BY <1>1, <1>3 DEF vars, Serial, UnderWay
<1>4. ASSUME NEW t \in Requests, NEW q, req' = [req EXCEPT ![t] = q],
             \A x \in Requests : x # t => Idle(x)
      PROVE  r = s
  <2>1. \A x \in Requests : x # t => req'[x] = req[x]
    BY <1>2, <1>4
  <2>2. \A x \in Requests : UnderWay(x)' => x = t
    BY <1>4, <2>1 DEF UnderWay, Idle
  <2> QED BY <1>1, <2>2
<1> QED BY <1>1, <1>3, <1>4, Solo

\* What an edit alone has read is not written by another.
LEMMA RereadStays ==
  ASSUME Inv3, [Next]_vars
  PROVE  ~overlapped' => \A r \in Requests : Reread(r, req[r])'
<1>1. SUFFICES ASSUME ~overlapped', NEW r \in Requests PROVE Reread(r, req[r])'
  OBVIOUS
<1>2. req \in [Requests -> Request] /\ Inv1 /\ Serial
  BY InvDb DEF Inv3, Inv2
<1>3. CASE UNCHANGED vars
  BY <1>1, <1>3 DEF vars, Inv3, Reread
<1>4. ASSUME NEW t \in Requests, NEW q, req' = [req EXCEPT ![t] = q],
             \A x \in Requests : x # t => Idle(x),
             q.pc # "write" \/ (Admitted(t, q) /\ db' = db)
      PROVE  Reread(r, req[r])'
  <2>1. CASE r # t
    <3>1. req'[r] = req[r] /\ req[r].pc # "write"
      BY <1>2, <1>4, <2>1 DEF Idle, Steps
    <3> QED BY <3>1 DEF Reread
  <2>2. CASE r = t
    <3>1. req'[r] = q
      BY <1>2, <1>4, <2>2
    <3> QED BY <1>4, <2>2, <3>1 DEF Reread, Admitted
  <2> QED BY <2>1, <2>2
<1>5. ASSUME NEW t \in Requests, NEW q, Start(t, q) PROVE db' = db
  BY <1>5 DEF Start
<1> QED BY <1>1, <1>2, <1>3, <1>4, <1>5, Solo DEF GoesOn

\* While requests have not overlapped, one is under way at a time, and what an edit
\* is about to write back is what stands but for the columns it was sent.
THEOREM Inductive3 == Spec => []Inv3
<1>1. Init => Serial /\ \A r \in Requests : Reread(r, req[r])
  <2> SUFFICES ASSUME Init PROVE \A r \in Requests : req[r].pc = "new"
    BY DEF Serial, Reread, UnderWay, Steps
  <2>1. \A r \in Requests : req[r] = NewRequest
    BY DEF Init
  <2> QED BY <2>1, NewIs
<1> DEFINE P == Serial /\ (~overlapped => \A r \in Requests : Reread(r, req[r]))
<1>2. Init => P
  BY <1>1
<1>3. Inv2 /\ P /\ [Next]_vars => P'
  BY SerialStays, RereadStays DEF Inv3, Inv2
<1>4. Inv3 <=> Inv2 /\ P
  BY DEF Inv3
<1> HIDE DEF P
<1> QED BY <1>2, <1>3, <1>4, Inductive2, PTL DEF Spec

\* Of a request alone, the row it writes is what it read, but for its columns.
LEMMA WritesOwn ==
  ASSUME Inv3, [Next]_vars, ~overlapped', NEW x \in Rows, NEW c \in Columns, Exists(x),
         db'.values[x][c] # db.values[x][c]
  PROVE  \E r \in Requests : At(r, "write") /\ c \in req[r].cols /\ db'.values[x][c] = r
<1>1. PICK a \in Requests : Step(a) /\ Effects(a)
  BY Actor DEF Inv3
<1>2. ~overlapped /\ req[a] \in Request /\ db \in Database
  BY <1>1, StepsOn, InvDb DEF Inv3, Inv2, Onward
<1>3. ValuesEffect(a, x)
  BY <1>1 DEF Effects
<1>4. x \notin Unused(Cards)
  <2>1. x \in Cards => x \in LiveCards(db)
    BY ExistsIn
  <2> QED BY <2>1, UnusedIsFree DEF Unused, Inv3
<1>5. /\ At(a, "write") /\ x = req[a].row
      /\ \/ db'.values[x] = req[a].read
         \/ db'.values[x] = Coalesced(db.values[x], req[a].read)
  BY <1>3, <1>4 DEF ValuesEffect
<1>6. req[a].read[c] = IF c \in req[a].cols THEN a ELSE db.values[x][c]
  BY <1>2, <1>5 DEF Inv3, Reread, At
<1>7. a # None
  BY BoundsOK
<1>8. db.values[x] \in Values /\ req[a].read \in Values
  BY <1>2 DEF Database, Request
<1>9. db'.values[x][c] = req[a].read[c] \/ db'.values[x][c] = db.values[x][c]
  <2>1. PICK old, new : old = db.values[x] /\ new = req[a].read
    OBVIOUS
  <2>2. Coalesced(old, new)[c] = new[c] \/ Coalesced(old, new)[c] = old[c]
    BY <1>8, <2>1, CoalescedIs DEF Columns
  <2> QED BY <1>5, <2>1, <2>2
<1> QED BY <1>5, <1>6, <1>9

\* EditsTouchTheirOwn: an edit alone changes the columns it was sent only, and no
\* edit the suspension or the progress of a card that is another's to change.
THEOREM EditsTouchOnlyTheirOwn == Spec => EditsTouchTheirOwn
<1>1. Inv3 /\ [Next]_vars =>
        [~overlapped' => \A x \in Rows, c \in Columns :
           Exists(x) /\ db'.values[x][c] # db.values[x][c]
             => \E r \in Requests : At(r, "write") /\ c \in req[r].cols /\ db'.values[x][c] = r]_vars
  BY WritesOwn
<1>2. Spec => OnlySentColumns
  BY <1>1, Inductive3, PTL DEF Spec, OnlySentColumns
<1> QED BY <1>2, EditsKeepApart DEF EditsTouchTheirOwn

(***************************************************************************)
(* One share for each deck.                                                *)
(***************************************************************************)
Few(d) == Cardinality(SharesOf(db, d)) <= 1 + faults
FewShares == /\ IsFiniteSet(db.shares)
             /\ ~overlapped =>
                  /\ \A d \in Decks : Few(d)
                  /\ \A r \in Requests : req[r].pc = "insertShare" =>
                       Cardinality(SharesOf(db, req[r].row)) <= faults

\* Which shares the statements leave.
LEMMA SharesOfTables ==
  ASSUME NEW D \in Database
  PROVE  /\ \A d, u, n, r : CreateDeck(D, d, u, n, r).shares = D.shares
         /\ \A S : DropCards(D, S).shares = D.shares /\ DropQuestions(D, S).shares = D.shares
         /\ \A c, d, r : CreateCard(D, c, d, r).shares = D.shares
         /\ \A c, on : SetSuspended(D, c, on).shares = D.shares
         /\ \A c : ResetFSRS(D, c).shares = D.shares
         /\ \A z, u, d : CreateQuiz(D, z, u, d).shares = D.shares
         /\ \A m, u, c : CreateMedium(D, m, u, c).shares = D.shares
         /\ \A m : DeleteMedium(D, m).shares = D.shares
         /\ \A copies, d, r : CopyCards(D, copies, d, r).shares = D.shares
         /\ \A made, d, r : CreateCards(D, made, d, r).shares = D.shares
         /\ \A made, z, from, r : BulkCreateQuestions(D, made, z, from, r).shares = D.shares
<1>1. \A d, u, n, r : CreateDeck(D, d, u, n, r).shares = D.shares
  BY DEF CreateDeck, Database
<1>2. \A S : DropCards(D, S).shares = D.shares /\ DropQuestions(D, S).shares = D.shares
  BY DEF DropCards, DropQuestions, Database
<1>3. \A c, d, r : CreateCard(D, c, d, r).shares = D.shares
  BY DEF CreateCard, Database
<1>4. \A c, on : SetSuspended(D, c, on).shares = D.shares
  BY DEF SetSuspended, Database
<1>5. \A c : ResetFSRS(D, c).shares = D.shares
  BY DEF ResetFSRS, Database
<1>6. \A z, u, d : CreateQuiz(D, z, u, d).shares = D.shares
  BY DEF CreateQuiz, Database
<1>7. /\ \A m, u, c : CreateMedium(D, m, u, c).shares = D.shares
      /\ \A m : DeleteMedium(D, m).shares = D.shares
  BY DEF CreateMedium, DeleteMedium, Database
<1>8. \A copies, d, r : CopyCards(D, copies, d, r).shares = D.shares
  BY DEF CopyCards, Database
<1>9. \A made, d, r : CreateCards(D, made, d, r).shares = D.shares
  BY DEF CreateCards, Database
<1>10. \A made, z, from, r : BulkCreateQuestions(D, made, z, from, r).shares = D.shares
  BY DEF BulkCreateQuestions, Database
<1> QED BY <1>1, <1>2, <1>3, <1>4, <1>5, <1>6, <1>7, <1>8, <1>9, <1>10

\* No other statement adds a share.
LEMMA SharesShrink ==
  ASSUME Inv1, NEW r \in Requests, Step(r), ~At(r, "insertShare")
  PROVE  db'.shares \subseteq db.shares
<1>1. db \in Database /\ Shaped(req[r]) /\ req[r] \in Request
  BY InvDb
<1>2. PICK x, d, u, n : /\ x = req[r].row /\ d = req[r].new /\ u = req[r].user /\ n = req[r].name
  OBVIOUS
<1>3. CASE db' = db
  BY <1>3
<1>4. CASE Write(r)
  <2>1. x \in Rows /\ req[r].read \in Values
    BY <1>1, <1>2, <1>4 DEF Write, At, Shaped, Request
  <2>2. db' = Written(x, req[r].read) \/ db' = db
    BY <1>2, <1>4 DEF Write
  <2> QED BY <1>1, <2>1, <2>2, WrittenIs
<1>5. CASE DeleteRow(r)
  <2>1. x \in Decks \cup Cards \cup Quizzes \cup Questions
    BY <1>1, <1>2, <1>5 DEF DeleteRow, At, Shaped
  <2>2. \/ db' = db
        \/ x \in Decks /\ db' = DeleteDeck(db, x)
        \/ x \in Cards /\ db' = DropCards(db, {x})
        \/ x \in Quizzes /\ db' = DeleteQuiz(db, x)
        \/ db' = DropQuestions(db, {x})
    BY <1>2, <1>5, <2>1, DeleteIs, Lives DEF DeleteCard, DeleteQuestion
  <2>3. ASSUME x \in Decks, db' = DeleteDeck(db, x) PROVE db'.shares \subseteq db.shares
    <3>1. PICK S : S = CardsOf(db, x)
      OBVIOUS
    <3>2. db'.shares = {s \in db.shares : s.deck # x}
      BY <1>1, <2>3, <3>1, DeleteDeckIs
    <3> QED BY <3>2
  <2>4. ASSUME x \in Quizzes, db' = DeleteQuiz(db, x) PROVE db'.shares \subseteq db.shares
    BY <1>1, <2>4, DeleteQuizIs
  <2> QED BY <1>1, <2>2, <2>3, <2>4, SharesOfTables
<1>6. CASE SuspendRow(r) \/ ResetRow(r)
  BY <1>1, <1>6, SharesOfTables DEF SuspendRow, ResetRow
<1>7. CASE InsertDeck(r) \/ CloneDeck(r)
  BY <1>1, <1>7, SharesOfTables DEF InsertDeck, CloneDeck
<1>8. CASE CloneCards(r)
  <2>1. /\ d \in Decks /\ u \in Users \cup {None} /\ n \in Names \cup {None}
    BY <1>1, <1>2, <1>8 DEF CloneCards, At, Shaped, Request
  <2>2. PICK D : D = CreateDeck(db, d, u, n, r)
    OBVIOUS
  <2>3. CreateDeck(db, d, u, n, r) \in Database
    BY <1>1, <2>1, CreateDeckIs
  <2>4. CreateDeck(db, d, u, n, r).shares = db.shares
    BY <1>1, SharesOfTables
  <2>5. D \in Database /\ D.shares = db.shares
    BY <2>2, <2>3, <2>4
  <2>6. PICK copies : db' = CopyCards(D, copies, d, r)
    BY <1>2, <1>8, <2>2 DEF CloneCards
  <2> QED BY <2>5, <2>6, SharesOfTables
<1>9. CASE DropShare(r) \/ UnshareRow(r)
  <2>1. db'.shares = db.shares \/ db' = DeleteShare(db, x)
    BY <1>2, <1>9 DEF DropShare, UnshareRow
  <2> QED BY <1>1, <2>1 DEF DeleteShare, Database
<1>10. CASE Create(r)
  BY <1>1, <1>10, SharesOfTables DEF Create
<1>11. CASE Commit(r)
  <2>1. CASE x \in Quizzes
    BY <1>1, <1>2, <1>11, <2>1, SharesOfTables DEF Commit
  <2>2. CASE x \in Decks /\ x \notin Quizzes
    BY <1>1, <1>2, <1>11, <2>2, SharesOfTables DEF Commit
  <2>3. CASE x \notin Decks /\ x \notin Quizzes
    <3>1. PICK D : D = CreateDeck(db, d, u, n, r)
      OBVIOUS
    <3>2. /\ d \in Decks /\ u \in Users \cup {None} /\ n \in Names \cup {None}
      BY <1>1, <1>2, <1>11, <2>3 DEF Commit, At, Shaped, Request
    <3>3. CreateDeck(db, d, u, n, r) \in Database
      BY <1>1, <3>2, CreateDeckIs
    <3>4. CreateDeck(db, d, u, n, r).shares = db.shares
      BY <1>1, SharesOfTables
    <3>5. D \in Database /\ D.shares = db.shares
      BY <3>1, <3>3, <3>4
    <3>6. db' = CreateCards(D, req[r].made, d, r)
      BY <1>2, <1>11, <2>3, <3>1 DEF Commit
    <3> QED BY <3>5, <3>6, SharesOfTables
  <2> QED BY <2>1, <2>2, <2>3
<1>12. CASE InsertMedia(r) \/ DropRow(r)
  BY <1>1, <1>12, SharesOfTables DEF InsertMedia, DropRow
<1>13. CASE Count(r) \/ InsertItem(r) \/ StoreUpload(r) \/ InsertMediaFails(r) \/ Cleanup(r)
            \/ DropObject(r)
  BY <1>13 DEF Count, InsertItem, StoreUpload, InsertMediaFails, Cleanup, DropObject
<1>14. ~InsertShare(r)
  BY DEF InsertShare
<1> QED BY <1>4, <1>5, <1>6, <1>7, <1>8, <1>9, <1>10, <1>11, <1>12, <1>13, <1>14 DEF Step

\* The only shares that a step adds are those that InsertShare adds.
LEMMA SharesMove ==
  ASSUME Inv1, NEW r \in Requests, Step(r)
  PROVE  \/ db'.shares \subseteq db.shares
         \/ /\ InsertShare(r)
            /\ db'.shares = db.shares \cup {[code |-> r, deck |-> req[r].row]}
<1>1. CASE At(r, "insertShare")
  <2>1. InsertShare(r)
    BY <1>1 DEF Step, At, Write, DeleteRow, SuspendRow, ResetRow, InsertDeck, CloneDeck, CloneCards,
         DropShare, InsertShare, UnshareRow, Create, Count, InsertItem, Commit, StoreUpload,
         InsertMedia, InsertMediaFails, Cleanup, DropObject, DropRow
  <2>2. db' = db \/ db' = CreateShare(db, r, req[r].row)
    BY <2>1 DEF InsertShare
  <2>3. db \in Database
    BY InvDb
  <2> QED BY <2>1, <2>2, <2>3 DEF CreateShare, Database
<1>2. CASE ~At(r, "insertShare")
  BY <1>2, SharesShrink
<1> QED BY <1>1, <1>2

\* Failures are only ever counted up.
LEMMA FaultsGrow ==
  ASSUME Inv1, [Next]_vars
  PROVE  faults \in Nat /\ faults' \in Nat /\ faults <= faults'
<1>1. faults \in Nat
  BY InvDb, BoundsOK DEF Typed
<1>2. faults' = faults \/ faults' = faults + 1
  <2>1. ASSUME NEW r \in Requests, NEW u \in Users, Arrive(r, u) PROVE faults' = faults
    <3>1. PICK q : Start(r, q)
      BY <2>1, InvDb, Admission
    <3> QED BY <3>1 DEF Start, quiet
  <2>2. ASSUME NEW r \in Requests, Step(r) PROVE faults' = faults \/ faults' = faults + 1
    BY <2>2 DEF Step, quiet, Write, DeleteRow, SuspendRow, ResetRow, InsertDeck, CloneDeck,
         CloneCards, DropShare, InsertShare, UnshareRow, Create, Count, InsertItem, Commit,
         StoreUpload, InsertMedia, InsertMediaFails, Cleanup, DropObject, DropRow
  <2>3. ASSUME NEW r \in Requests, Abort(r) PROVE faults' = faults
    BY <2>3 DEF Abort
  <2> QED BY <2>1, <2>2, <2>3 DEF Next, vars
<1> QED BY <1>1, <1>2

\* What a step of a request alone leaves of a deck's shares.
LEMMA FewOnward ==
  ASSUME Inv1, [Next]_vars, NEW r \in Requests, Step(r), IsFiniteSet(db.shares),
         \A d \in Decks : Few(d),
         req[r].pc = "insertShare" => Cardinality(SharesOf(db, req[r].row)) <= faults
  PROVE  /\ IsFiniteSet(db'.shares)
         /\ \A d \in Decks : Few(d)'
<1>1. CASE db'.shares \subseteq db.shares
  <2>1. IsFiniteSet(db'.shares)
    BY <1>1, FS_Subset
  <2>2. ASSUME NEW d \in Decks PROVE Few(d)'
    <3>1. PICK S, T : S = SharesOf(db, d) /\ T = SharesOf(db', d)
      OBVIOUS
    <3>2. T \subseteq S /\ S \subseteq db.shares
      BY <1>1, <3>1 DEF SharesOf
    <3>3. IsFiniteSet(S)
      BY <3>2, FS_Subset
    <3>4. IsFiniteSet(T) /\ Cardinality(T) <= Cardinality(S)
      BY <3>2, <3>3, FS_Subset
    <3>5. Cardinality(S) \in Nat /\ Cardinality(T) \in Nat
      BY <3>3, <3>4, FS_CardinalityType
    <3>6. Cardinality(S) <= 1 + faults
      BY <3>1 DEF Few
    <3>7. Cardinality(T) <= 1 + faults'
      BY <3>4, <3>5, <3>6, FaultsGrow
    <3> QED BY <3>1, <3>7 DEF Few
  <2> QED BY <2>1, <2>2
<1>2. CASE InsertShare(r) /\ db'.shares = db.shares \cup {[code |-> r, deck |-> req[r].row]}
  <2>1. PICK s, x : s = [code |-> r, deck |-> req[r].row] /\ x = req[r].row
    OBVIOUS
  <2>2. db'.shares = db.shares \cup {s} /\ s.deck = x
    BY <1>2, <2>1
  <2>3. IsFiniteSet(db'.shares)
    BY <2>2, FS_AddElement
  <2>4. ASSUME NEW d \in Decks PROVE Few(d)'
    <3>1. PICK S, T : S = SharesOf(db, d) /\ T = SharesOf(db', d)
      OBVIOUS
    <3>2. S \subseteq db.shares /\ T = IF d = x THEN S \cup {s} ELSE S
      BY <2>2, <3>1 DEF SharesOf
    <3>3. IsFiniteSet(S) /\ Cardinality(S) \in Nat
      BY <3>2, FS_Subset, FS_CardinalityType
    <3>4. Cardinality(S \cup {s}) = IF s \in S THEN Cardinality(S) ELSE Cardinality(S) + 1
      BY <3>3, FS_AddElement
    <3>5. Cardinality(S) <= 1 + faults
      BY <3>1 DEF Few
    <3>6. d = x => Cardinality(S) <= faults
      BY <1>2, <2>1, <3>1 DEF InsertShare, At
    <3>7. Cardinality(T) <= 1 + faults'
      <4>1. CASE d = x
        BY <3>2, <3>3, <3>4, <3>6, <4>1, FaultsGrow
      <4>2. CASE d # x
        BY <3>2, <3>3, <3>5, <4>2, FaultsGrow
      <4> QED BY <4>1, <4>2
    <3> QED BY <3>1, <3>7 DEF Few
  <2> QED BY <2>3, <2>4
<1> QED BY <1>1, <1>2, SharesMove

\* A share is inserted after the others went, or failed to.
LEMMA FewSharesStay ==
  ASSUME Inv1, Serial, FewShares, [Next]_vars
  PROVE  FewShares'
<1>1. IsFiniteSet(db'.shares)
  <2>1. ASSUME NEW r \in Requests, Step(r) PROVE IsFiniteSet(db'.shares)
    BY <2>1, SharesMove, FS_Subset, FS_AddElement DEF FewShares
  <2>2. ASSUME NEW r \in Requests, NEW u \in Users, Arrive(r, u) PROVE db' = db
    BY <2>2, InvDb, Admission DEF Start
  <2>3. ASSUME NEW r \in Requests, Abort(r) PROVE db' = db
    BY <2>3 DEF Abort
  <2> QED BY <2>1, <2>2, <2>3 DEF Next, vars, FewShares
<1>2. SUFFICES ASSUME ~overlapped'
               PROVE  /\ \A d \in Decks : Few(d)'
                      /\ \A r \in Requests : req'[r].pc = "insertShare" =>
                           Cardinality(SharesOf(db', req'[r].row)) <= faults'
  BY <1>1 DEF FewShares
<1>3. /\ req \in [Requests -> Request]
      /\ \A r \in Requests : req[r].pc = "insertShare" => req[r].row \in Decks
  BY InvDb DEF Shaped
<1>4. CASE UNCHANGED vars
  BY <1>2, <1>4 DEF vars, FewShares, Few
<1>5. ASSUME NEW r \in Requests, NEW q, req' = [req EXCEPT ![r] = q], ~overlapped,
             \A s \in Requests : s # r => Idle(s), db' = db,
             q.pc = "insertShare" => faults' = faults + 1 /\ q.row \in Decks
      PROVE  /\ \A d \in Decks : Few(d)'
             /\ \A s \in Requests : req'[s].pc = "insertShare" =>
                  Cardinality(SharesOf(db', req'[s].row)) <= faults'
  <2>1. \A d \in Decks : Few(d)
    BY <1>5 DEF FewShares
  <2>2. ASSUME NEW d \in Decks PROVE Few(d)'
    <3>1. Cardinality(SharesOf(db, d)) \in Nat
      <4>1. SharesOf(db, d) \subseteq db.shares
        BY DEF SharesOf
      <4> QED BY <4>1, FS_Subset, FS_CardinalityType DEF FewShares
    <3>2. Cardinality(SharesOf(db, d)) <= 1 + faults
      BY <2>1 DEF Few
    <3>3. Cardinality(SharesOf(db, d)) <= 1 + faults'
      BY <3>1, <3>2, FaultsGrow
    <3> QED BY <1>5, <3>3 DEF Few
  <2>3. ASSUME NEW s \in Requests, req'[s].pc = "insertShare"
        PROVE  Cardinality(SharesOf(db', req'[s].row)) <= faults'
    <3>1. s = r
      <4>1. s # r => req'[s] = req[s] /\ Idle(s)
        BY <1>3, <1>5
      <4> QED BY <2>3, <4>1 DEF Idle, Steps
    <3>2. req'[s] = q
      BY <1>3, <1>5, <3>1
    <3>3. q.row \in Decks /\ faults' = faults + 1
      BY <1>5, <2>3, <3>2
    <3>4. Cardinality(SharesOf(db, q.row)) <= 1 + faults
      BY <2>1, <3>3 DEF Few
    <3> QED BY <1>5, <3>2, <3>3, <3>4, FaultsGrow
  <2> QED BY <2>2, <2>3
<1>6. ASSUME NEW r \in Requests, NEW q, Start(r, q), Admitted(r, q),
             req' = [req EXCEPT ![r] = q], \A s \in Requests : Idle(s)
      PROVE  /\ \A d \in Decks : Few(d)'
             /\ \A s \in Requests : req'[s].pc = "insertShare" =>
                  Cardinality(SharesOf(db', req'[s].row)) <= faults'
  <2>1. db' = db /\ ~overlapped
    BY <1>2, <1>6 DEF Start
  <2>2. q.pc # "insertShare"
    BY <1>6 DEF Admitted, Entries
  <2> QED BY <1>5, <1>6, <2>1, <2>2
<1>7. ASSUME NEW r \in Requests, NEW q, Step(r) \/ Abort(r), ~overlapped,
             req' = [req EXCEPT ![r] = q], GoesOn(r, q), \A s \in Requests : s # r => Idle(s)
      PROVE  /\ \A d \in Decks : Few(d)'
             /\ \A s \in Requests : req'[s].pc = "insertShare" =>
                  Cardinality(SharesOf(db', req'[s].row)) <= faults'
  <2>1. CASE Abort(r)
    <3>1. db' = db /\ q.pc # "insertShare"
      <4>1. req'[r] = q /\ req'[r] = Done
        BY <1>3, <1>7, <2>1 DEF Abort, Finish, Go
      <4> QED BY <2>1, <4>1, DoneIs DEF Abort
    <3> QED BY <1>5, <1>7, <3>1
  <2>2. CASE Step(r)
    <3>1. \A d \in Decks : Few(d)'
      BY <1>7, <2>2, FewOnward DEF FewShares
    <3>2. ASSUME NEW s \in Requests, req'[s].pc = "insertShare"
          PROVE  Cardinality(SharesOf(db', req'[s].row)) <= faults'
      <4>1. s = r
        <5>1. s # r => req'[s] = req[s] /\ Idle(s)
          BY <1>3, <1>7
        <5> QED BY <3>2, <5>1 DEF Idle, Steps
      <4>2. req'[s] = q
        BY <1>3, <1>7, <4>1
      <4>3. DropShare(r) /\ q.row = req[r].row
        BY <1>7, <3>2, <4>2 DEF GoesOn
      <4>4. PICK x : x = req[r].row
        OBVIOUS
      <4>5. x \in Decks
        BY <4>3, <4>4, InvDb DEF DropShare, At, Shaped
      <4>6. CASE db' = DeleteShare(db, x)
        <5>1. db'.shares = {t \in db.shares : t.deck # x}
          BY <4>5, <4>6, InvDb, SharesAre
        <5>2. SharesOf(db', x) = {}
          BY <5>1 DEF SharesOf
        <5> QED BY <4>2, <4>3, <4>4, <5>2, FS_EmptySet, FaultsGrow
      <4>7. CASE db' = db /\ faults' = faults + 1
        BY <1>5, <1>7, <3>2, <4>2, <4>3, <4>4, <4>5, <4>7
      <4> QED BY <4>3, <4>4, <4>6, <4>7 DEF DropShare
    <3> QED BY <3>1, <3>2
  <2> QED BY <1>7, <2>1, <2>2
<1>8. \/ \E r \in Requests : \E q :
           /\ Start(r, q) /\ Admitted(r, q) /\ req' = [req EXCEPT ![r] = q]
           /\ \A s \in Requests : Idle(s)
      \/ \E r \in Requests : \E q :
           /\ Step(r) \/ Abort(r)
           /\ ~overlapped /\ req' = [req EXCEPT ![r] = q] /\ GoesOn(r, q)
           /\ \A s \in Requests : s # r => Idle(s)
      \/ UNCHANGED vars
  BY <1>2, Solo
<1> QED BY <1>4, <1>6, <1>7, <1>8

\* The first state has one question, the first of its quiz, and a share or none.
LEMMA InitOne ==
  ASSUME Init
  PROVE  /\ \E s : db.shares = {} \/ db.shares = {s}
         /\ \E q \in Questions : LiveQuestions(db) = {q} /\ db.questions[q].position = 0
         /\ faults = 0 /\ \A r \in Requests : req[r].pc = "new"
<1> DEFINE d == One(Decks)  c == One(Cards)  z == One(Quizzes)  q == One(Questions)
           m == One(Media)  u == One(Users)  name == One(Names)
<1>1. q \in Questions
  BY OneIs, BoundsOK
<1> DEFINE deck == [life |-> "live", owner |-> u, name |-> name, by |-> None]
           quiz == [life |-> "live", owner |-> u, deck |-> d]
           question == [life |-> "live", quiz |-> z, card |-> c, position |-> 0, by |-> None]
           medium == [life |-> "live", owner |-> u, card |-> c]
           card == [CardRow("live", d, None) EXCEPT !.fsrs = "studied"]
           share == [code |-> Old, deck |-> d]
           free == FreeCard
<1>2. PICK shared \in BOOLEAN :
        /\ db = [decks |-> [x \in Decks |-> IF x # d THEN FreeDeck ELSE deck],
             cards |-> [x \in Cards |-> IF x # c THEN free ELSE card],
             quizzes |-> [x \in Quizzes |-> IF x # z THEN FreeQuiz ELSE quiz],
             questions |-> [x \in Questions |-> IF x # q THEN FreeQuestion ELSE question],
             media |-> [x \in Media |-> IF x # m THEN FreeMedium ELSE medium],
             shares |-> IF shared THEN {share} ELSE {},
             values |-> [x \in Rows |-> Blank]]
        /\ req = [r \in Requests |-> NewRequest] /\ faults = 0
  BY DEF Init
<1>3. question.life = "live" /\ question.position = 0 /\ FreeQuestion.life = "free"
  BY DEF FreeQuestion
<1> HIDE DEF deck, quiz, question, medium, card, free, share, d, c, z, q, m, u, name
<1>4. /\ db.shares = {share} \/ db.shares = {}
      /\ db.questions = [x \in Questions |-> IF x # q THEN FreeQuestion ELSE question]
  BY <1>2
<1>5. LiveQuestions(db) = {q} /\ db.questions[q].position = 0
  BY <1>1, <1>3, <1>4, Lives
<1>6. \A r \in Requests : req[r].pc = "new"
  BY <1>2, NewIs
<1> QED BY <1>1, <1>2, <1>4, <1>5, <1>6

LEMMA InitFew ==
  ASSUME Init
  PROVE  FewShares
<1>1. PICK s : db.shares = {} \/ db.shares = {s}
  BY InitOne
<1>2. IsFiniteSet({s}) /\ Cardinality({s}) = 1 /\ IsFiniteSet({}) /\ Cardinality({}) = 0
  BY FS_Singleton, FS_EmptySet
<1>3. faults = 0 /\ \A r \in Requests : req[r].pc = "new"
  BY InitOne
<1>4. ASSUME NEW d \in Decks PROVE Few(d)
  <2>1. SharesOf(db, d) = {} \/ SharesOf(db, d) = {s}
    BY <1>1 DEF SharesOf
  <2> QED BY <1>2, <1>3, <2>1 DEF Few
<1> QED BY <1>1, <1>2, <1>3, <1>4 DEF FewShares

(***************************************************************************)
(* The positions of a quiz's questions.                                    *)
(***************************************************************************)
Numbered(D) ==
  /\ \A p \in LiveQuestions(D) : D.questions[p].position < CountQuestions(D, D.questions[p].quiz)
  /\ \A p, q \in LiveQuestions(D) :
       D.questions[p].quiz = D.questions[q].quiz
         /\ D.questions[p].position = D.questions[q].position => p = q
CountHeld(D, q) == q.pc = "item" /\ q.row \in Quizzes => q.count = CountQuestions(D, q.row)
Ordered == ~overlapped /\ ~pruned =>
             Numbered(db) /\ \A r \in Requests : CountHeld(db, req[r])

\* What a step does to the questions of the quizzes, when none is deleted by name.
Unmoved(D, E) == \A q \in Questions : /\ E.questions[q].life = D.questions[q].life
                                      /\ E.questions[q].quiz = D.questions[q].quiz
                                      /\ E.questions[q].position = D.questions[q].position
Emptied(D, E, z) == \A q \in Questions :
  E.questions[q] = IF q \in QuestionsOf(D, z) THEN GoneQuestion ELSE D.questions[q]

\* Questions are left where they are, go with their quiz, or are appended.
LEMMA QuestionsMove ==
  ASSUME Inv2, NEW r \in Requests, Step(r), ~pruned'
  PROVE  \/ Unmoved(db, db')
         \/ \E z \in Quizzes : Emptied(db, db', z)
         \/ Commit(r) /\ req[r].row \in Quizzes
<1>1. db \in Database /\ Shaped(req[r]) /\ Inv1
  BY InvDb DEF Inv2
<1>2. CASE db' = db
  BY <1>2 DEF Unmoved
<1>3. CASE At(r, "delete")
  <2>1. DeleteRow(r)
    BY <1>3, StepAt
  <2>2. PICK x : x = req[r].row
    OBVIOUS
  <2>3. x \in Decks \cup Cards \cup Quizzes \cup Questions
    BY <1>1, <1>3, <2>2 DEF At, Shaped
  <2>4. \/ db' = db
        \/ x \in LiveDecks(db) /\ db' = DeleteDeck(db, x)
        \/ x \in LiveCards(db) /\ db' = DeleteCard(db, x)
        \/ x \in LiveQuizzes(db) /\ db' = DeleteQuiz(db, x)
        \/ x \in LiveQuestions(db) /\ db' = DeleteQuestion(db, x)
    BY <2>1, <2>2, <2>3, DeleteIs
  <2>5. ASSUME x \in LiveDecks(db), db' = DeleteDeck(db, x) PROVE Unmoved(db, db')
    <3>1. PICK S : S = CardsOf(db, x)
      OBVIOUS
    <3>2. x \in Decks
      BY <2>5, Lives
    <3>3. \A q \in Questions : /\ db'.questions[q].life = db.questions[q].life
                                /\ db'.questions[q].quiz = db.questions[q].quiz
                                /\ db'.questions[q].position = db.questions[q].position
      BY <1>1, <2>5, <3>1, <3>2, DeleteDeckIs
    <3> QED BY <3>3 DEF Unmoved
  <2>6. ASSUME x \in LiveCards(db), db' = DeleteCard(db, x) PROVE Unmoved(db, db')
    <3>1. {x} \in SUBSET Cards /\ db' = DropCards(db, {x})
      BY <2>6, Lives DEF DeleteCard
    <3>2. \A q \in Questions : /\ db'.questions[q].life = db.questions[q].life
                                /\ db'.questions[q].quiz = db.questions[q].quiz
                                /\ db'.questions[q].position = db.questions[q].position
      BY <1>1, <3>1, DropCardsIs
    <3> QED BY <3>2 DEF Unmoved
  <2>7. ASSUME x \in LiveQuizzes(db), db' = DeleteQuiz(db, x)
        PROVE  \E z \in Quizzes : Emptied(db, db', z)
    <3>1. x \in Quizzes
      BY <2>7, Lives
    <3>2. Emptied(db, db', x)
      BY <1>1, <2>7, <3>1, DeleteQuizIs DEF Emptied
    <3> QED BY <3>1, <3>2
  <2>8. x \notin LiveQuestions(db)
    <3>1. x \in Questions => pruned'
      BY <2>1, <2>2 DEF DeleteRow
    <3> QED BY <3>1, Lives
  <2> QED BY <1>2, <2>4, <2>5, <2>6, <2>7, <2>8
<1>4. CASE ~At(r, "delete") /\ db' # db
  <2>1. \A q \in Questions : QuestionEffect(r, q)
    BY <1>1, StepEffects DEF Effects
  <2>2. CASE At(r, "item") /\ req[r].row \in Quizzes
    BY <1>4, <2>2, StepAt
  <2>3. CASE ~(At(r, "item") /\ req[r].row \in Quizzes)
    BY <1>4, <2>1, <2>3 DEF QuestionEffect, Unmoved
  <2> QED BY <2>2, <2>3
<1> QED BY <1>2, <1>3, <1>4

\* The questions of a quiz can be counted.
LEMMA CountIs ==
  ASSUME NEW D, NEW z
  PROVE  /\ IsFiniteSet(QuestionsOf(D, z)) /\ CountQuestions(D, z) \in Nat
         /\ \A q : q \in QuestionsOf(D, z) <=> q \in LiveQuestions(D) /\ D.questions[q].quiz = z
<1>1. QuestionsOf(D, z) \subseteq Questions
  BY Lives DEF QuestionsOf
<1>2. IsFiniteSet(QuestionsOf(D, z))
  BY <1>1, UuidsOK, FS_Subset
<1> QED BY <1>2, FS_CardinalityType DEF CountQuestions, QuestionsOf

\* Positions are kept when no question moves,
LEMMA UnmovedNumbers ==
  ASSUME NEW D, NEW E, Unmoved(D, E)
  PROVE  /\ \A z : CountQuestions(E, z) = CountQuestions(D, z)
         /\ Numbered(D) => Numbered(E)
<1>1. LiveQuestions(E) = LiveQuestions(D)
  BY DEF LiveQuestions, Unmoved
<1>2. \A q \in LiveQuestions(D) : /\ E.questions[q].quiz = D.questions[q].quiz
                                  /\ E.questions[q].position = D.questions[q].position
  BY Lives DEF Unmoved
<1>3. \A z : QuestionsOf(E, z) = QuestionsOf(D, z)
  BY <1>1, <1>2 DEF QuestionsOf
<1>4. \A z : CountQuestions(E, z) = CountQuestions(D, z)
  BY <1>3 DEF CountQuestions
<1> QED BY <1>1, <1>2, <1>4 DEF Numbered

\* when a quiz is emptied,
LEMMA EmptiedNumbers ==
  ASSUME NEW D, NEW E, NEW z, Emptied(D, E, z), Numbered(D)
  PROVE  Numbered(E)
<1>1. \A q : q \in LiveQuestions(E) <=> q \in LiveQuestions(D) /\ D.questions[q].quiz # z
  BY CountIs, Lives DEF Emptied, GoneQuestion
<1>2. \A q \in LiveQuestions(E) : E.questions[q] = D.questions[q]
  BY <1>1, CountIs, Lives DEF Emptied
<1>3. ASSUME NEW y, y # z PROVE CountQuestions(E, y) = CountQuestions(D, y)
  <2>1. ASSUME NEW q PROVE q \in QuestionsOf(E, y) <=> q \in QuestionsOf(D, y)
    BY <1>1, <1>2, <1>3, CountIs
  <2>2. QuestionsOf(E, y) = QuestionsOf(D, y)
    BY <2>1
  <2> QED BY <2>2 DEF CountQuestions
<1> QED BY <1>1, <1>2, <1>3 DEF Numbered

\* A COMMIT appends: its questions come after those that were counted.
Nth(from, i) == from + i - 1
Firsts(made, T) == \A q : q \in T <=> \E i \in DOMAIN made : made[i][1] = q
OneEach(made) == \A i, j \in DOMAIN made : made[i][1] = made[j][1] => i = j

Appended(D, E, z, made, from) ==
  /\ \A q : q \in LiveQuestions(E) <=>
        q \in LiveQuestions(D) \/ \E i \in DOMAIN made : made[i][1] = q
  /\ \A q \in LiveQuestions(D) : E.questions[q] = D.questions[q]
  /\ \A i \in DOMAIN made : /\ made[i][1] \in Questions \ LiveQuestions(D)
                           /\ E.questions[made[i][1]].quiz = z
                           /\ E.questions[made[i][1]].position = Nth(from, i)
  /\ OneEach(made)

LEMMA CommitAppends ==
  ASSUME Inv2, NEW r \in Requests, Commit(r), NEW z \in Quizzes, z = req[r].row,
         NEW made, made = req[r].made, NEW from, from = req[r].count
  PROVE  Appended(db, db', z, made, from)
<1>1. /\ made \in Seq(Pairs)
      /\ \A q \in Questions :
           \/ \E i \in DOMAIN made :
                /\ made[i][1] = q
                /\ db'.questions[q] = QuestionRow(made, z, from, i, r)
           \/ /\ db'.questions[q] = db.questions[q]
              /\ \A i \in DOMAIN made : made[i][1] # q
  BY CommitIs DEF Inv2
<1>2. \A i \in DOMAIN made : /\ made[i] \in Pairs /\ made[i] \notin Cards
                             /\ made[i][1] \in Questions
  BY <1>1, UuidsOK DEF Pairs
<1>3. \A i \in DOMAIN made : NameOf(made[i]) = made[i][1]
  BY <1>2 DEF NameOf
<1>4. \A i, j \in DOMAIN made : made[i][1] = made[j][1] => i = j
  BY <1>3 DEF Inv2, Claims, Distinct
<1>5. \A i \in DOMAIN made : made[i][1] \in FreeIn(db)
  BY <1>3, PendingIsFree
<1>6. \A i \in DOMAIN made : made[i][1] \notin LiveQuestions(db)
  BY <1>2, <1>5, FreeIs DEF LiveQuestions
<1>7. ASSUME NEW i \in DOMAIN made
      PROVE  db'.questions[made[i][1]] = QuestionRow(made, z, from, i, r)
  BY <1>1, <1>2, <1>4
<1>8. \A i : /\ QuestionRow(made, z, from, i, r).quiz = z
             /\ QuestionRow(made, z, from, i, r).position = Nth(from, i)
             /\ QuestionRow(made, z, from, i, r).life = "live"
  BY DEF QuestionRow, Nth
<1>9. \A i \in DOMAIN made : /\ db'.questions[made[i][1]].quiz = z
                             /\ db'.questions[made[i][1]].position = Nth(from, i)
                             /\ made[i][1] \in LiveQuestions(db')
  BY <1>2, <1>7, <1>8, Lives
<1>10. \A q \in LiveQuestions(db) : q \in Questions /\ db'.questions[q] = db.questions[q]
  BY <1>1, <1>6, Lives
<1>11. ASSUME NEW q
       PROVE  q \in LiveQuestions(db') <=>
                q \in LiveQuestions(db) \/ \E i \in DOMAIN made : made[i][1] = q
  BY <1>1, <1>9, <1>10, Lives
<1> QED BY <1>2, <1>4, <1>6, <1>9, <1>10, <1>11 DEF OneEach, Appended

\* As many as there are items.
LEMMA BatchCounted ==
  ASSUME NEW made, NEW n \in Nat, DOMAIN made = 1..n, NEW T,
         Firsts(made, T), OneEach(made)
  PROVE  IsFiniteSet(T) /\ Cardinality(T) = n
<1>1. PICK S, g : S = 1..n /\ g = [i \in S |-> made[i][1]]
  OBVIOUS
<1>2. IsFiniteSet(S) /\ Cardinality(S) = n
  <2>1. n > 0 => IsFiniteSet(1..n) /\ Cardinality(1..n) = n - 1 + 1
    BY FS_Interval
  <2>2. n = 0 => IsFiniteSet(1..n) /\ Cardinality(1..n) = 0
    BY FS_Interval
  <2> QED BY <1>1, <2>1, <2>2
<1>3. g \in Bijection(S, T)
  BY <1>1 DEF Bijection, Injection, Surjection, IsInjective, Firsts, OneEach
<1>4. ExistsBijection(S, T)
  BY <1>3 DEF ExistsBijection
<1> QED BY <1>2, <1>4, FS_Bijection

\* and when questions are appended to as many as were counted.
LEMMA CommitNumbers ==
  ASSUME Inv2, NEW r \in Requests, Commit(r), req[r].row \in Quizzes,
         Numbered(db), CountHeld(db, req[r])
  PROVE  Numbered(db')
<1>1. PICK z, made, n, from : z = req[r].row /\ made = req[r].made /\ n = Len(made) /\ from = req[r].count
  OBVIOUS
<1>2. /\ z \in Quizzes /\ made \in Seq(Made) /\ n \in Nat /\ DOMAIN made = 1..n
      /\ from = CountQuestions(db, z) /\ from \in Nat
  <2>1. made \in Seq(Made) /\ At(r, "item")
    BY <1>1, InvDb DEF Inv2, Request, Commit
  <2> QED BY <1>1, <2>1, CountIs DEF CountHeld, At
<1>3. /\ \A q : q \in LiveQuestions(db') <=>
            q \in LiveQuestions(db) \/ \E i \in DOMAIN made : made[i][1] = q
      /\ \A q \in LiveQuestions(db) : db'.questions[q] = db.questions[q]
      /\ \A i \in DOMAIN made : /\ made[i][1] \in Questions \ LiveQuestions(db)
                               /\ db'.questions[made[i][1]].quiz = z
                               /\ db'.questions[made[i][1]].position = Nth(from, i)
      /\ OneEach(made)
  <2>1. z = req[r].row /\ made = req[r].made /\ from = req[r].count /\ z \in Quizzes
    BY <1>1, <1>2
  <2>2. Appended(db, db', z, made, from)
    BY <2>1, CommitAppends
  <2> QED BY <2>2 DEF Appended
<1>4. PICK T : T = {q \in Questions : \E i \in DOMAIN made : made[i][1] = q}
  OBVIOUS
<1>5. \A q : q \in T <=> \E i \in DOMAIN made : made[i][1] = q
  BY <1>3, <1>4
<1>6. IsFiniteSet(T) /\ Cardinality(T) = n
  BY <1>2, <1>3, <1>5, BatchCounted DEF Firsts
<1>7. CountQuestions(db', z) = from + n
  <2>1. PICK S : S = QuestionsOf(db, z)
    OBVIOUS
  <2>2. ASSUME NEW q PROVE q \in QuestionsOf(db', z) <=> q \in S \cup T
    BY <1>3, <1>5, <2>1, CountIs
  <2>3. QuestionsOf(db', z) = S \cup T
    BY <2>2
  <2>4. S \cap T = {} /\ IsFiniteSet(S) /\ Cardinality(S) = from
    BY <1>2, <1>3, <1>5, <2>1, CountIs DEF CountQuestions
  <2>5. Cardinality(S \cup T) = from + n - Cardinality(S \cap T)
    BY <1>6, <2>4, FS_Union
  <2>6. Cardinality(S \cap T) = 0
    BY <2>4, FS_EmptySet
  <2> QED BY <1>2, <2>3, <2>5, <2>6 DEF CountQuestions
<1>8. ASSUME NEW y, y # z PROVE CountQuestions(db', y) = CountQuestions(db, y)
  <2>1. ASSUME NEW q PROVE q \in QuestionsOf(db', y) <=> q \in QuestionsOf(db, y)
    BY <1>3, <1>8, CountIs
  <2>2. QuestionsOf(db', y) = QuestionsOf(db, y)
    BY <2>1
  <2> QED BY <2>2 DEF CountQuestions
<1>9. \A p \in LiveQuestions(db) : db.questions[p].position \in Nat
  BY InvDb, Lives DEF Inv2, Database, Question
<1>10. ASSUME NEW p \in LiveQuestions(db')
       PROVE  db'.questions[p].position < CountQuestions(db', db'.questions[p].quiz)
  <2>1. CASE p \in LiveQuestions(db)
    <3>1. /\ db'.questions[p] = db.questions[p]
          /\ db.questions[p].position < CountQuestions(db, db.questions[p].quiz)
      BY <1>3, <2>1 DEF Numbered
    <3>2. CASE db.questions[p].quiz = z
      BY <1>2, <1>7, <1>9, <2>1, <3>1, <3>2
    <3>3. CASE db.questions[p].quiz # z
      BY <1>8, <3>1, <3>3
    <3> QED BY <3>2, <3>3
  <2>2. CASE \E i \in DOMAIN made : made[i][1] = p
    <3>1. PICK i \in 1..n : /\ db'.questions[p].quiz = z
                            /\ db'.questions[p].position = Nth(from, i)
      BY <1>2, <1>3, <2>2
    <3> QED BY <1>2, <1>7, <3>1 DEF Nth
  <2> QED BY <1>3, <2>1, <2>2
<1>11. ASSUME NEW p \in LiveQuestions(db), NEW i \in 1..n,
              db.questions[p].quiz = z
       PROVE  db.questions[p].position # Nth(from, i)
  <2>1. db.questions[p].position < from
    BY <1>2, <1>11 DEF Numbered
  <2> QED BY <1>2, <1>9, <2>1 DEF Nth
<1>12. ASSUME NEW p \in LiveQuestions(db'), NEW q \in LiveQuestions(db'),
              db'.questions[p].quiz = db'.questions[q].quiz,
              db'.questions[p].position = db'.questions[q].position
       PROVE  p = q
  <2>1. CASE p \in LiveQuestions(db) /\ q \in LiveQuestions(db)
    BY <1>3, <1>12, <2>1 DEF Numbered
  <2>2. ASSUME NEW i \in 1..n, NEW j \in 1..n, made[i][1] = p, made[j][1] = q PROVE p = q
    <3>1. db'.questions[p].position = Nth(from, i) /\ db'.questions[q].position = Nth(from, j)
      BY <1>2, <1>3, <2>2
    <3>2. Nth(from, i) = Nth(from, j)
      BY <1>12, <3>1
    <3>3. i = j
      BY <1>2, <3>2 DEF Nth
    <3> QED BY <2>2, <3>3
  <2>3. ASSUME NEW i \in 1..n, made[i][1] = q, p \in LiveQuestions(db) PROVE FALSE
    <3>1. /\ db'.questions[p] = db.questions[p] /\ db'.questions[q].quiz = z
          /\ db'.questions[q].position = Nth(from, i)
      BY <1>2, <1>3, <2>3
    <3> QED BY <1>11, <1>12, <2>3, <3>1
  <2>4. ASSUME NEW i \in 1..n, made[i][1] = p, q \in LiveQuestions(db) PROVE FALSE
    <3>1. /\ db'.questions[q] = db.questions[q] /\ db'.questions[p].quiz = z
          /\ db'.questions[p].position = Nth(from, i)
      BY <1>2, <1>3, <2>4
    <3> QED BY <1>11, <1>12, <2>4, <3>1
  <2> QED BY <1>2, <1>3, <2>1, <2>2, <2>3, <2>4
<1> QED BY <1>10, <1>12 DEF Numbered

\* Whether a question was deleted is remembered.
LEMMA PrunedGrows ==
  ASSUME Inv1, [Next]_vars, ~pruned'
  PROVE  ~pruned
<1>1. ASSUME NEW r \in Requests, NEW u \in Users, Arrive(r, u) PROVE pruned' = pruned
  <2>1. PICK q : Start(r, q)
    BY <1>1, InvDb, Admission
  <2> QED BY <2>1 DEF Start, quiet
<1>2. ASSUME NEW r \in Requests, Step(r) PROVE ~pruned
  BY <1>2 DEF Step, quiet, Write, DeleteRow, SuspendRow, ResetRow, InsertDeck, CloneDeck,
       CloneCards, DropShare, InsertShare, UnshareRow, Create, Count, InsertItem, Commit,
       StoreUpload, InsertMedia, InsertMediaFails, Cleanup, DropObject, DropRow
<1>3. ASSUME NEW r \in Requests, Abort(r) PROVE pruned' = pruned
  BY <1>3 DEF Abort
<1> QED BY <1>1, <1>2, <1>3 DEF Next, vars

\* A count that a request goes on with is the count there is.
LEMMA CountStays ==
  ASSUME Inv1, NEW r \in Requests, NEW q, req' = [req EXCEPT ![r] = q],
         \A s \in Requests : s # r => Idle(s),
         q.pc = "item" /\ q.row \in Quizzes => CountHeld(db', q)
  PROVE  \A s \in Requests : CountHeld(db', req'[s])
<1>1. req \in [Requests -> Request]
  BY InvDb
<1>2. \A s \in Requests : s # r => req'[s] = req[s] /\ req[s].pc # "item"
  BY <1>1 DEF Idle, Steps
<1>3. req'[r] = q
  BY <1>1
<1> QED BY <1>2, <1>3 DEF CountHeld

\* Every step keeps the positions in order.
LEMMA OrderedStays ==
  ASSUME Inv3, Ordered, [Next]_vars
  PROVE  Ordered'
<1>1. SUFFICES ASSUME ~overlapped', ~pruned'
               PROVE  Numbered(db') /\ \A r \in Requests : CountHeld(db', req'[r])
  BY DEF Ordered
<1>2. Inv1 /\ Inv2 /\ Serial /\ ~pruned
  BY <1>1, PrunedGrows DEF Inv3, Inv2
<1>3. CASE UNCHANGED vars
  BY <1>1, <1>3 DEF vars, Ordered
<1>4. ASSUME NEW r \in Requests, NEW q, Start(r, q), Admitted(r, q),
             req' = [req EXCEPT ![r] = q], \A s \in Requests : Idle(s)
      PROVE  Numbered(db') /\ \A s \in Requests : CountHeld(db', req'[s])
  <2>1. db' = db /\ ~overlapped
    BY <1>1, <1>4 DEF Start
  <2>2. Numbered(db')
    BY <1>2, <2>1 DEF Ordered
  <2>3. ~(q.pc = "item" /\ q.row \in Quizzes)
    BY <1>4, DistinctCards DEF Admitted
  <2> QED BY <1>2, <1>4, <2>2, <2>3, CountStays
<1>5. ASSUME NEW r \in Requests, NEW q, Step(r) \/ Abort(r), ~overlapped,
             req' = [req EXCEPT ![r] = q], GoesOn(r, q), \A s \in Requests : s # r => Idle(s)
      PROVE  Numbered(db') /\ \A s \in Requests : CountHeld(db', req'[s])
  <2>1. Numbered(db) /\ CountHeld(db, req[r])
    BY <1>2, <1>5 DEF Ordered
  <2>2. q.pc = "item" /\ q.row \in Quizzes => CountHeld(db', q)
    BY <1>5, <2>1 DEF GoesOn, CountHeld, At
  <2>3. \A s \in Requests : CountHeld(db', req'[s])
    BY <1>2, <1>5, <2>2, CountStays
  <2>4. CASE Abort(r)
    <3>1. db' = db
      BY <2>4 DEF Abort
    <3> QED BY <2>1, <2>3, <3>1
  <2>5. CASE Step(r)
    <3>1. CASE Unmoved(db, db')
      BY <2>1, <2>3, <3>1, UnmovedNumbers
    <3>2. CASE \E z \in Quizzes : Emptied(db, db', z)
      BY <2>1, <2>3, <3>2, EmptiedNumbers
    <3>3. CASE Commit(r) /\ req[r].row \in Quizzes
      BY <1>2, <2>1, <2>3, <3>3, CommitNumbers
    <3> QED BY <1>1, <1>2, <2>5, <3>1, <3>2, <3>3, QuestionsMove
  <2> QED BY <1>5, <2>4, <2>5
<1>6. \/ \E r \in Requests : \E q :
           /\ Start(r, q) /\ Admitted(r, q) /\ req' = [req EXCEPT ![r] = q]
           /\ \A s \in Requests : Idle(s)
      \/ \E r \in Requests : \E q :
           /\ Step(r) \/ Abort(r)
           /\ ~overlapped /\ req' = [req EXCEPT ![r] = q] /\ GoesOn(r, q)
           /\ \A s \in Requests : s # r => Idle(s)
      \/ UNCHANGED vars
  BY <1>1, <1>2, Solo
<1> QED BY <1>3, <1>4, <1>5, <1>6

LEMMA InitOrdered ==
  ASSUME Init
  PROVE  Ordered
<1>1. PICK q \in Questions : LiveQuestions(db) = {q} /\ db.questions[q].position = 0
  BY InitOne
<1>2. \A r \in Requests : req[r].pc = "new"
  BY InitOne
<1>3. PICK z : z = db.questions[q].quiz
  OBVIOUS
<1>4. QuestionsOf(db, z) = {q}
  BY <1>1, <1>3 DEF QuestionsOf
<1>5. CountQuestions(db, z) = 1
  BY <1>4, FS_Singleton DEF CountQuestions
<1>6. Numbered(db)
  BY <1>1, <1>3, <1>5 DEF Numbered
<1> QED BY <1>2, <1>6 DEF Ordered, CountHeld

\* KeysDistinct: of requests that do not overlap, a deck has one share more than
\* there were failures to delete one, and the questions of a quiz, until one is
\* deleted, have positions of their own.
THEOREM KeysStayDistinct == Spec => []KeysDistinct
<1>1. Init => FewShares /\ Ordered
  BY InitFew, InitOrdered
<1>2. Inv3 /\ FewShares /\ Ordered /\ [Next]_vars => FewShares' /\ Ordered'
  BY FewSharesStay, OrderedStays DEF Inv3, Inv2
<1>3. FewShares /\ Ordered => KeysDistinct
  BY DEF FewShares, Ordered, Few, Numbered, KeysDistinct, OneShare, PositionsDistinct
<1> QED BY <1>1, <1>2, <1>3, Inductive3, PTL DEF Spec

===============================================================================
