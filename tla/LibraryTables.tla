--------------------------- MODULE LibraryTables ---------------------------
(***************************************************************************)
(* Decks, their shares and cards, media, quizzes and their questions: the  *)
(* tables, and the statements the repositories send to them as operators   *)
(* from one state of the database to the next.  Of the columns that are    *)
(* edited together, two stand for all: one that is never null and one that *)
(* may be; their values are the requests that wrote them.                  *)
(***************************************************************************)
EXTENDS Naturals, FiniteSets, Sequences

CONSTANTS Users, Decks, Names, Cards, Quizzes, Questions, Media, Requests,
          Old,    \* the share code that precedes every request
          None    \* SQL NULL

\* Rows are named by uuids, 128 bits that no two rows share, of one table or of two.
ASSUME UuidsOK ==
  /\ Users \cap Decks = {} /\ Cards \cap (Users \cup Decks) = {}
  /\ Quizzes \cap (Users \cup Decks \cup Cards) = {}
  /\ Questions \cap (Users \cup Decks \cup Cards \cup Quizzes) = {}
  /\ Media \cap (Users \cup Decks \cup Cards \cup Quizzes \cup Questions) = {}
  /\ Cards \cap (Questions \X (Cards \cup {None})) = {}   \* a name is not a pair
  /\ IsFiniteSet(Cards) /\ IsFiniteSet(Questions)

Rows    == Users \cup Decks \cup Cards \cup Quizzes \cup Questions
Columns == {"plain", "nullable"}
Values  == [Columns -> Requests \cup {None}]
Blank   == [c \in Columns |-> None]
Life    == {"free", "live", "gone"}
By      == Requests \cup {None}   \* the request that inserted a row

Deck     == [life: Life, owner: Users \cup {None}, name: Names \cup {None}, by: By]
Card     == [life: Life, deck: Decks \cup {None}, suspended: BOOLEAN,
             fsrs: {"new", "studied"}, by: By]
Quiz     == [life: Life, owner: Users \cup {None}, deck: Decks \cup {None}]
Question == [life: Life, quiz: Quizzes \cup {None}, card: Cards \cup {None},
             position: Nat, by: By]
Medium   == [life: Life, owner: Users \cup {None}, card: Cards \cup {None}]
Share    == [code: Requests \cup {Old}, deck: Decks]

Database == [decks: [Decks -> Deck], cards: [Cards -> Card],
             quizzes: [Quizzes -> Quiz], questions: [Questions -> Question],
             media: [Media -> Medium], shares: SUBSET Share,
             values: [Rows -> Values]]

FreeDeck     == [life |-> "free", owner |-> None, name |-> None, by |-> None]
CardRow(life, d, r) == [life |-> life, deck |-> d, suspended |-> FALSE, fsrs |-> "new",
                        by |-> r]
FreeCard     == CardRow("free", None, None)
FreeQuiz     == [life |-> "free", owner |-> None, deck |-> None]
FreeQuestion == [life |-> "free", quiz |-> None, card |-> None, position |-> 0,
                 by |-> None]
FreeMedium   == [life |-> "free", owner |-> None, card |-> None]

LiveDecks(db)     == {d \in Decks : db.decks[d].life = "live"}
LiveCards(db)     == {c \in Cards : db.cards[c].life = "live"}
LiveQuizzes(db)   == {z \in Quizzes : db.quizzes[z].life = "live"}
LiveQuestions(db) == {q \in Questions : db.questions[q].life = "live"}
LiveMedia(db)     == {m \in Media : db.media[m].life = "live"}
----------------------------------------------------------------------------
\* decks and deck_shares
CreateDeck(db, d, u, name, r) ==
  [db EXCEPT !.decks[d] = [life |-> "live", owner |-> u, name |-> name, by |-> r]]
DecksNamed(db, u, name) ==
  {d \in LiveDecks(db) : db.decks[d].owner = u /\ db.decks[d].name = name}
CardsOf(db, d) == {c \in LiveCards(db) : db.cards[c].deck = d}

SharesOf(db, d) == {s \in db.shares : s.deck = d}
GetShareByCode(db, code) == {s \in db.shares : s.code = code}
CreateShare(db, code, d) == [db EXCEPT !.shares = @ \cup {[code |-> code, deck |-> d]}]
DeleteShare(db, d) == [db EXCEPT !.shares = @ \ SharesOf(db, d)]

\* ON DELETE CASCADE and SET NULL
DropCards(db, S) ==
  [db EXCEPT
    !.cards = [c \in Cards |-> IF c \in S THEN CardRow("gone", None, None) ELSE @[c]],
    !.questions = [q \in Questions |-> IF @[q].card \in S THEN [@[q] EXCEPT !.card = None]
                                                          ELSE @[q]],
    !.media = [m \in Media |-> IF @[m].card \in S THEN [@[m] EXCEPT !.card = None]
                                                  ELSE @[m]]]
DropQuestions(db, S) ==
  [db EXCEPT !.questions = [q \in Questions |->
    IF q \in S THEN [FreeQuestion EXCEPT !.life = "gone"] ELSE @[q]]]

DeleteCard(db, c) == DropCards(db, {c})
DeleteDeck(db, d) ==
  [DropCards(DeleteShare(db, d), CardsOf(db, d)) EXCEPT
    !.decks[d] = [FreeDeck EXCEPT !.life = "gone"],
    !.quizzes = [z \in Quizzes |-> IF @[z].deck = d THEN [@[z] EXCEPT !.deck = None]
                                                    ELSE @[z]]]

\* cards
CreateCard(db, c, d, r) ==
  [db EXCEPT !.cards[c] = CardRow("live", d, r)]
CreateCards(db, made, d, r) ==
  [db EXCEPT !.cards = [c \in Cards |->
    IF \E i \in DOMAIN made : made[i] = c
      THEN CardRow("live", d, r) ELSE @[c]]]
SetSuspended(db, c, how) ==
  IF c \in LiveCards(db) THEN [db EXCEPT !.cards[c].suspended = how] ELSE db
ResetFSRS(db, c) ==
  IF c \in LiveCards(db) THEN [db EXCEPT !.cards[c].fsrs = "new"] ELSE db

\* CloneDeck copies the cards' content: neither their FSRS state, nor that
\* they are suspended.
CopyCards(db, copies, d, r) ==
  LET source(c) == CHOOSE x \in DOMAIN copies : copies[x] = c
      new == {copies[x] : x \in DOMAIN copies} IN
  [db EXCEPT
    !.cards = [c \in Cards |-> IF c \in new
                THEN CardRow("live", d, r) ELSE @[c]],
    !.values = [x \in Rows |-> IF x \in new THEN @[source(x)] ELSE @[x]]]

\* quizzes and quiz_questions
CreateQuiz(db, z, u, d) ==
  [db EXCEPT !.quizzes[z] = [life |-> "live", owner |-> u, deck |-> d]]
QuestionsOf(db, z) == {q \in LiveQuestions(db) : db.questions[q].quiz = z}
CountQuestions(db, z) == Cardinality(QuestionsOf(db, z))
DeleteQuiz(db, z) ==
  [DropQuestions(db, QuestionsOf(db, z)) EXCEPT
    !.quizzes[z] = [FreeQuiz EXCEPT !.life = "gone"]]
DeleteQuestion(db, q) == DropQuestions(db, {q})

MutOnePosition(db, made, z, from, r) ==   \* the loop forgets to add its index
  [db EXCEPT !.questions = [q \in Questions |->
    IF \E i \in DOMAIN made : made[i][1] = q
      THEN LET i == CHOOSE j \in DOMAIN made : made[j][1] = q IN
           [life |-> "live", quiz |-> z, card |-> made[i][2],
            position |-> from, by |-> r]
      ELSE @[q]]]

\* made is the sequence of <<question, card>>, the first at position from.
BulkCreateQuestions(db, made, z, from, r) ==
  [db EXCEPT !.questions = [q \in Questions |->
    IF \E i \in DOMAIN made : made[i][1] = q
      THEN LET i == CHOOSE j \in DOMAIN made : made[j][1] = q IN
           [life |-> "live", quiz |-> z, card |-> made[i][2],
            position |-> from + i - 1, by |-> r]
      ELSE @[q]]]

\* media
CreateMedium(db, m, u, c) ==
  [db EXCEPT !.media[m] = [life |-> "live", owner |-> u, card |-> c]]
DeleteMedium(db, m) == [db EXCEPT !.media[m] = [FreeMedium EXCEPT !.life = "gone"]]

(***************************************************************************)
(* The whole-row updates.  updateDeck and updateUser keep a column they    *)
(* are given NULL for (COALESCE); the others write what they are given.    *)
(***************************************************************************)
Coalesced(old, new) ==
  [new EXCEPT !["nullable"] = IF @ = None THEN old["nullable"] ELSE @]
UpdateDeck(db, d, new)     == [db EXCEPT !.values[d] = Coalesced(@, new)]
UpdateUser(db, u, new)     == [db EXCEPT !.values[u] = Coalesced(@, new)]
UpdateCard(db, c, new)     == [db EXCEPT !.values[c] = new]
UpdateQuiz(db, z, new)     == [db EXCEPT !.values[z] = new]
UpdateQuestion(db, q, new) == [db EXCEPT !.values[q] = new]
============================================================================
