------------------------------ MODULE Library ------------------------------
(***************************************************************************)
(* Writing decks and quizzes: internal/service/deck.go, card.go, media.go, *)
(* the authoring half of quiz.go and UpdateProfile of auth.go, behind      *)
(* their handlers, as concurrent HTTP requests against one PostgreSQL      *)
(* database and one object store.  One request is one value of Requests    *)
(* and is served once.  A check that the caller owns a row is one action   *)
(* with the read before it: owners and parents never change.               *)
(***************************************************************************)
EXTENDS LibraryTables

CONSTANTS BatchItems,   \* the items of a batch or an import
          MaxFaults     \* bound on the failures that the code ignores

ASSUME BoundsOK ==
  /\ BatchItems \in Nat /\ BatchItems > 0 /\ MaxFaults \in Nat
  /\ None \notin Rows \cup Media \cup Names \cup Requests
  /\ {} \notin {Users, Decks, Names, Cards, Quizzes, Questions, Media}   \* Init has one of each

VARIABLES
  db,          \* the tables
  objects,     \* the keys of the object store
  req,         \* the requests, what each has read and is about to commit
  adrift,      \* history: the media whose request failed half way
  pruned,      \* history: a question was deleted
  faults,      \* how many failures were ignored
  overlapped   \* history: two requests have been under way at a time

vars == <<db, objects, req, adrift, pruned, faults, overlapped>>
quiet == UNCHANGED <<adrift, pruned, faults>>

Steps == {"write", "delete", "create", "insertDeck", "item", "dropShare",
          "insertShare", "unshare", "cloneDeck", "cloneCards", "suspend",
          "resetFSRS", "count", "upload", "insertMedia", "cleanup",
          "dropObject", "dropRow"}
Ops == {"none", "update", "delete", "create", "batch", "import", "share",
        "clone", "suspend", "reset", "add", "generate", "upload", "unlink"}
Made == Cards \cup (Questions \X (Cards \cup {None}))

NewRequest ==
  [pc |-> "new", op |-> "none", user |-> None, row |-> None, new |-> None,
   cols |-> {}, read |-> Blank, made |-> <<>>, links |-> {}, count |-> 0,
   name |-> None, on |-> FALSE]
Request ==
  [pc: {"new", "done"} \cup Steps, op: Ops, user: Users \cup {None},
   row: Rows \cup Media \cup {None},          \* the row it is about
   new: Decks \cup Media \cup {None},         \* one it is going to insert
   cols: SUBSET Columns, read: Values,        \* an edit: columns sent, row to write
   made: Seq(Made), links: SUBSET Cards,      \* a batch: inserted, and to be linked
   count: Nat, name: Names \cup {None}, on: BOOLEAN]

\* One deck with a card somebody has studied, a quiz with a question about it
\* and a recording of it; the deck may be shared.
One(S) == CHOOSE x \in S : TRUE

Init ==
  LET d == One(Decks)  c == One(Cards)  z == One(Quizzes)  q == One(Questions)
      m == One(Media)  u == One(Users)  name == One(Names) IN
  \E shared \in BOOLEAN :
    /\ db = [decks |-> [x \in Decks |-> IF x # d THEN FreeDeck
                         ELSE [life |-> "live", owner |-> u, name |-> name, by |-> None]],
             cards |-> [x \in Cards |-> IF x # c THEN FreeCard
                         ELSE [CardRow("live", d, None) EXCEPT !.fsrs = "studied"]],
             quizzes |-> [x \in Quizzes |-> IF x # z THEN FreeQuiz
                           ELSE [life |-> "live", owner |-> u, deck |-> d]],
             questions |-> [x \in Questions |-> IF x # q THEN FreeQuestion
                             ELSE [life |-> "live", quiz |-> z, card |-> c, position |-> 0,
                                   by |-> None]],
             media |-> [x \in Media |-> IF x # m THEN FreeMedium
                         ELSE [life |-> "live", owner |-> u, card |-> c]],
             shares |-> IF shared THEN {[code |-> Old, deck |-> d]} ELSE {},
             values |-> [x \in Rows |-> Blank]]
    /\ objects = {m}
    /\ req = [r \in Requests |-> NewRequest]
    /\ adrift = {} /\ pruned = FALSE /\ faults = 0 /\ overlapped = FALSE
----------------------------------------------------------------------------
UnderWay(r) == req[r].pc \in Steps
At(r, pc) == req[r].pc = pc
Go(r, new) == req' = [req EXCEPT ![r] = new] /\ UNCHANGED overlapped
Done == [NewRequest EXCEPT !.pc = "done"]
Finish(r) == Go(r, Done)

Start(r, new) ==
  /\ req[r].pc = "new"
  /\ req' = [req EXCEPT ![r] = new]
  /\ overlapped' = (overlapped \/ \E s \in Requests : UnderWay(s))
  /\ UNCHANGED <<db, objects>> /\ quiet

\* Rows are named by uuids: a fresh one is any that was never used.
Reserved == {req[s].new : s \in Requests}
  \cup UNION {{IF req[s].made[i] \in Cards THEN req[s].made[i] ELSE req[s].made[i][1] :
               i \in DOMAIN req[s].made} : s \in Requests}
FreeRows == {x \in Decks : db.decks[x].life = "free"}
       \cup {x \in Cards : db.cards[x].life = "free"}
       \cup {x \in Quizzes : db.quizzes[x].life = "free"}
       \cup {x \in Questions : db.questions[x].life = "free"}
       \cup {x \in Media : db.media[x].life = "free" /\ x \notin objects}
Unused(S) == (S \cap FreeRows) \ Reserved
Fresh(S) == One(Unused(S))

Exists(x) == \/ x \in Users \/ x \in LiveDecks(db) \/ x \in LiveCards(db)
             \/ x \in LiveQuizzes(db) \/ x \in LiveQuestions(db) \/ x \in LiveMedia(db)
Owner(x) == CASE x \in Users -> x
              [] x \in Decks -> db.decks[x].owner
              [] x \in Cards -> db.decks[db.cards[x].deck].owner
              [] x \in Quizzes -> db.quizzes[x].owner
              [] x \in Questions -> db.quizzes[db.questions[x].quiz].owner
              [] x \in Media -> db.media[x].owner

\* The handlers' common beginning: the row is read, not found, or another's.
Owning(r, u, x, new) ==
  IF Exists(x) /\ Owner(x) = u THEN Start(r, new) ELSE Start(r, Done)

\* A transaction that has inserted a row referring to x keeps x.
Keeps(s, x) == /\ At(s, "item") /\ req[s].made # <<>>
               /\ \/ x = req[s].row /\ req[s].op # "import"
                  \/ \E i \in DOMAIN req[s].made :
                       req[s].made[i] \notin Cards /\ req[s].made[i][2] = x
KeptBelow(x) == \E s \in Requests, y \in Rows : Keeps(s, y)
                  /\ (y = x \/ (y \in LiveCards(db) /\ db.cards[y].deck = x))
----------------------------------------------------------------------------
(***************************************************************************)
(* Update of a deck, a card, a quiz, a question or a profile: the row is   *)
(* read, the columns sent are replaced, and the whole row is written.      *)
(***************************************************************************)
MutEdit(r, u, x) ==   \* the columns that are not sent are null
  \E cols \in SUBSET Columns \ {{}} :
    Owning(r, u, x, [NewRequest EXCEPT
      !.pc = "write", !.op = "update", !.row = x, !.cols = cols,
      !.read = [c \in Columns |-> IF c \in cols THEN r ELSE None]])

Edit(r, u, x) ==
  \E cols \in SUBSET Columns \ {{}} :
    Owning(r, u, x, [NewRequest EXCEPT
      !.pc = "write", !.op = "update", !.row = x, !.cols = cols,
      !.read = IF x \in Rows
                 THEN [c \in Columns |-> IF c \in cols THEN r ELSE db.values[x][c]]
                 ELSE Blank])

Written(x, new) == CASE x \in Decks -> UpdateDeck(db, x, new)
                     [] x \in Users -> UpdateUser(db, x, new)
                     [] x \in Cards -> UpdateCard(db, x, new)
                     [] x \in Quizzes -> UpdateQuiz(db, x, new)
                     [] x \in Questions -> UpdateQuestion(db, x, new)

Write(r) ==
  /\ At(r, "write")
  /\ db' = IF Exists(req[r].row) THEN Written(req[r].row, req[r].read) ELSE db
  /\ Finish(r)
  /\ UNCHANGED objects /\ quiet

Delete(r, u, x) ==
  Owning(r, u, x, [NewRequest EXCEPT !.pc = "delete", !.op = "delete", !.row = x])

\* A DELETE waits for transactions whose rows refer to the row, or to one
\* that goes with it.
DeleteRow(r) ==
  LET x == req[r].row IN
  /\ At(r, "delete") /\ ~KeptBelow(x)
  /\ db' = IF ~Exists(x) THEN db
           ELSE CASE x \in Decks -> DeleteDeck(db, x)
                  [] x \in Cards -> DeleteCard(db, x)
                  [] x \in Quizzes -> DeleteQuiz(db, x)
                  [] x \in Questions -> DeleteQuestion(db, x)
  /\ pruned' = (pruned \/ x \in Questions)
  /\ Finish(r)
  /\ UNCHANGED <<objects, adrift, faults>>

Suspend(r, u, c) ==
  \E on \in BOOLEAN :
    Owning(r, u, c, [NewRequest EXCEPT !.pc = "suspend", !.op = "suspend", !.row = c,
                                       !.on = on])
SuspendRow(r) ==
  /\ At(r, "suspend")
  /\ db' = SetSuspended(db, req[r].row, req[r].on)
  /\ Finish(r)
  /\ UNCHANGED objects /\ quiet

ResetCard(r, u, c) ==
  Owning(r, u, c, [NewRequest EXCEPT !.pc = "resetFSRS", !.op = "reset", !.row = c])
ResetRow(r) ==
  /\ At(r, "resetFSRS")
  /\ db' = ResetFSRS(db, req[r].row)
  /\ Finish(r)
  /\ UNCHANGED objects /\ quiet
----------------------------------------------------------------------------
(***************************************************************************)
(* New decks.  UNIQUE (user_id, name): an INSERT waits for transactions    *)
(* that are inserting the name, and fails if it is taken.                  *)
(***************************************************************************)
Inserting(s, u, name) == /\ req[s].pc \in {"item", "cloneCards"} /\ req[s].new \in Decks
                         /\ req[s].user = u /\ req[s].name = name
NameFree(u, name)  == \A s \in Requests : ~Inserting(s, u, name)
NameTaken(u, name) == DecksNamed(db, u, name) # {}

NewDeck(r, u, op) ==
  \E name \in Names :
    Start(r, [NewRequest EXCEPT !.pc = "insertDeck", !.op = op, !.user = u, !.name = name])

InsertDeck(r) ==
  LET u == req[r].user  name == req[r].name IN
  /\ At(r, "insertDeck") /\ NameFree(u, name)
  /\ \/ /\ NameTaken(u, name)
        /\ Finish(r) /\ UNCHANGED db
     \/ /\ ~NameTaken(u, name) /\ req[r].op = "create" /\ Unused(Decks) # {}
        /\ db' = CreateDeck(db, Fresh(Decks), u, name, r)
        /\ Finish(r)
     \/ /\ ~NameTaken(u, name) /\ req[r].op = "import" /\ Unused(Decks) # {}
        /\ Go(r, [req[r] EXCEPT !.pc = "item", !.new = Fresh(Decks)])
        /\ UNCHANGED db
  /\ UNCHANGED objects /\ quiet

(***************************************************************************)
(* Clone: the share, then its deck, then a transaction that inserts the    *)
(* deck and, by a second statement, copies of the cards there are then.    *)
(***************************************************************************)
Clone(r, u, code) ==
  \/ \E s \in GetShareByCode(db, code) :
       /\ s.deck \in LiveDecks(db)
       /\ Start(r, [NewRequest EXCEPT !.pc = "cloneDeck", !.op = "clone", !.user = u,
                                      !.row = s.deck, !.name = db.decks[s.deck].name])
  \/ GetShareByCode(db, code) = {} /\ Start(r, Done)

CloneDeck(r) ==
  LET u == req[r].user  name == req[r].name IN
  /\ At(r, "cloneDeck") /\ NameFree(u, name)
  /\ IF ~Exists(req[r].row) \/ NameTaken(u, name) THEN Finish(r)
     ELSE /\ Unused(Decks) # {}
          /\ Go(r, [req[r] EXCEPT !.pc = "cloneCards", !.new = Fresh(Decks)])
  /\ UNCHANGED <<db, objects>> /\ quiet

Copyable(d) == CardsOf(db, d)

\* Which fresh rows become the copies of which cards makes no difference.
Copies(d) ==
  LET all == {f \in [Copyable(d) -> Unused(Cards)] :
                \A c, e \in DOMAIN f : f[c] = f[e] => c = e} IN
  IF all = {} THEN {} ELSE {One(all)}

CloneCards(r) ==
  LET new == CreateDeck(db, req[r].new, req[r].user, req[r].name, r) IN
  /\ At(r, "cloneCards")
  /\ \E copies \in Copies(req[r].row) : db' = CopyCards(new, copies, req[r].new, r)
  /\ Finish(r)
  /\ UNCHANGED objects /\ quiet

\* Share: the shares there are go first, and that they do not is ignored.
ShareDeck(r, u, d) ==
  Owning(r, u, d, [NewRequest EXCEPT !.pc = "dropShare", !.op = "share", !.row = d])

DropShare(r) ==
  /\ At(r, "dropShare")
  /\ \/ db' = DeleteShare(db, req[r].row) /\ UNCHANGED faults
     \/ faults < MaxFaults /\ faults' = faults + 1 /\ UNCHANGED db
  /\ Go(r, [req[r] EXCEPT !.pc = "insertShare"])
  /\ UNCHANGED <<objects, adrift, pruned>>

InsertShare(r) ==
  /\ At(r, "insertShare")
  /\ db' = IF Exists(req[r].row) THEN CreateShare(db, r, req[r].row) ELSE db
  /\ Finish(r)
  /\ UNCHANGED objects /\ quiet

Unshare(r, u, d) ==
  Owning(r, u, d, [NewRequest EXCEPT !.pc = "unshare", !.op = "share", !.row = d])
UnshareRow(r) ==
  /\ At(r, "unshare")
  /\ db' = DeleteShare(db, req[r].row)
  /\ Finish(r)
  /\ UNCHANGED objects /\ quiet
----------------------------------------------------------------------------
(***************************************************************************)
(* New cards, quizzes and questions.  Batches, imports and generated       *)
(* questions are inserted one by one in one transaction.                   *)
(***************************************************************************)
NewCard(r, u, d) ==
  Owning(r, u, d, [NewRequest EXCEPT !.pc = "create", !.op = "create", !.row = d])
NewCards(r, u, d) ==
  Owning(r, u, d, [NewRequest EXCEPT !.pc = "item", !.op = "batch", !.row = d])
NewQuiz(r, u, d) ==
  IF d = None THEN Start(r, [NewRequest EXCEPT !.pc = "create", !.op = "add", !.user = u])
  ELSE Owning(r, u, d, [NewRequest EXCEPT !.pc = "create", !.op = "add", !.user = u,
                                          !.row = d])

MutCreate(r) ==   \* no foreign key from a card to its deck
  /\ At(r, "create") /\ req[r].op = "create" /\ Unused(Cards) # {}
  /\ db' = CreateCard(db, Fresh(Cards), req[r].row, r)
  /\ Finish(r)
  /\ UNCHANGED objects /\ quiet

Create(r) ==
  LET d == req[r].row IN
  /\ At(r, "create")
  /\ \/ /\ req[r].op = "create" /\ Unused(Cards) # {}
        /\ db' = IF Exists(d) THEN CreateCard(db, Fresh(Cards), d, r) ELSE db
     \/ /\ req[r].op = "add" /\ Unused(Quizzes) # {}
        /\ db' = IF d = None \/ Exists(d) THEN CreateQuiz(db, Fresh(Quizzes), req[r].user, d)
                                          ELSE db
  /\ Finish(r)
  /\ UNCHANGED objects /\ quiet

\* The caller's card of a question is not looked at.
AddQuestion(r, u, z) ==
  \E card \in LiveCards(db) \cup {None} :
    Owning(r, u, z, [NewRequest EXCEPT !.pc = "count", !.op = "add", !.row = z,
                                       !.links = {card} \ {None}])
BatchAddQuestions(r, u, z) ==
  Owning(r, u, z, [NewRequest EXCEPT !.pc = "count", !.op = "batch", !.row = z])

\* GenerateFromDeck and GenerateAyatQuiz: from a deck of the caller's with
\* cards enough, which it reads before it counts the questions.
Generate(r, u, z, d) ==
  \E links \in SUBSET CardsOf(db, d) \ {{}} :
    IF Exists(d) /\ Owner(d) = u
      THEN Owning(r, u, z, [NewRequest EXCEPT !.pc = "count", !.op = "generate", !.row = z,
                                              !.links = links])
      ELSE Start(r, Done)

Count(r) ==
  /\ At(r, "count")
  /\ Go(r, [req[r] EXCEPT !.pc = "item", !.count = CountQuestions(db, req[r].row)])
  /\ UNCHANGED <<db, objects>> /\ quiet

\* How many rows the transaction inserts, and the next of them.
Wanted(r) == CASE req[r].op \in {"batch", "import"} -> BatchItems
               [] req[r].op = "generate" -> Cardinality(req[r].links)
               [] OTHER -> 1
Unlinked(r) == req[r].links \ {req[r].made[i][2] : i \in DOMAIN req[r].made}
Items(r) ==
  IF req[r].row \in Quizzes
    THEN (IF Unused(Questions) = {} THEN {} ELSE {Fresh(Questions)})
           \X (IF req[r].links = {} THEN {None} ELSE Unlinked(r))
    ELSE IF Unused(Cards) = {} THEN {} ELSE {Fresh(Cards)}

RefersToNothing(r, item) ==   \* the foreign keys of the row
  \/ req[r].op # "import" /\ ~Exists(req[r].row)
  \/ item \notin Cards /\ item[2] # None /\ ~Exists(item[2])

MutInsertItem(r) ==   \* a statement on the pool, not on the transaction
  /\ At(r, "item") /\ Len(req[r].made) < Wanted(r)
  /\ \E item \in Items(r) :
       IF RefersToNothing(r, item) THEN Finish(r) /\ UNCHANGED db
       ELSE /\ Go(r, [req[r] EXCEPT !.made = Append(@, item)])
            /\ db' = IF item \in Cards /\ req[r].op = "batch"
                       THEN CreateCard(db, item, req[r].row, r) ELSE db
  /\ UNCHANGED objects /\ quiet

InsertItem(r) ==
  /\ At(r, "item") /\ Len(req[r].made) < Wanted(r)
  /\ \E item \in Items(r) :
       IF RefersToNothing(r, item) THEN Finish(r)
       ELSE Go(r, [req[r] EXCEPT !.made = Append(@, item)])
  /\ UNCHANGED <<db, objects>> /\ quiet

Commit(r) ==
  LET x == req[r].row  made == req[r].made IN
  /\ At(r, "item") /\ Len(made) = Wanted(r)
  /\ db' = IF x \in Quizzes THEN BulkCreateQuestions(db, made, x, req[r].count, r)
           ELSE IF x \in Decks THEN CreateCards(db, made, x, r)
           ELSE CreateCards(CreateDeck(db, req[r].new, req[r].user, req[r].name, r),
                            made, req[r].new, r)
  /\ Finish(r)
  /\ UNCHANGED objects /\ quiet

----------------------------------------------------------------------------
(***************************************************************************)
(* Upload stores the object and inserts its row, and deletes the object if *)
(* that fails; Delete deletes the object and then the row.                 *)
(***************************************************************************)
Upload(r, u, c) ==
  \/ Owning(r, u, c, [NewRequest EXCEPT !.pc = "upload", !.op = "upload", !.row = c,
                                        !.user = u])
  \/ Start(r, Done)   \* too large, or of a type that is not allowed

StoreUpload(r) ==
  /\ At(r, "upload") /\ Unused(Media) # {}
  /\ objects' = objects \cup {Fresh(Media)}
  /\ Go(r, [req[r] EXCEPT !.pc = "insertMedia", !.new = Fresh(Media)])
  /\ UNCHANGED db /\ quiet

InsertMedia(r) ==
  /\ At(r, "insertMedia")
  /\ IF Exists(req[r].row)
       THEN db' = CreateMedium(db, req[r].new, req[r].user, req[r].row) /\ Finish(r)
       ELSE Go(r, [req[r] EXCEPT !.pc = "cleanup"]) /\ UNCHANGED db
  /\ UNCHANGED objects /\ quiet

\* Any other failure of the INSERT.
InsertMediaFails(r) ==
  /\ At(r, "insertMedia") /\ faults < MaxFaults
  /\ faults' = faults + 1
  /\ Go(r, [req[r] EXCEPT !.pc = "cleanup"])
  /\ UNCHANGED <<db, objects, adrift, pruned>>

MutCleanup(r) ==   \* nothing is cleaned up
  /\ At(r, "cleanup")
  /\ Finish(r)
  /\ UNCHANGED <<db, objects>> /\ quiet

Cleanup(r) ==
  /\ At(r, "cleanup")
  /\ objects' = objects \ {req[r].new}
  /\ Finish(r)
  /\ UNCHANGED db /\ quiet

DeleteMedia(r, u, m) ==
  Owning(r, u, m, [NewRequest EXCEPT !.pc = "dropObject", !.op = "unlink", !.row = m])

DropObject(r) ==
  /\ At(r, "dropObject")
  /\ objects' = objects \ {req[r].row}
  /\ Go(r, [req[r] EXCEPT !.pc = "dropRow"])
  /\ UNCHANGED db /\ quiet

DropRow(r) ==
  /\ At(r, "dropRow")
  /\ db' = IF Exists(req[r].row) THEN DeleteMedium(db, req[r].row) ELSE db
  /\ Finish(r)
  /\ UNCHANGED objects /\ quiet
----------------------------------------------------------------------------
\* A statement or a call of the store fails, the client goes away, or the
\* server stops: the handler returns, and its transaction is rolled back.
Abort(r) ==
  /\ UnderWay(r)
  /\ adrift' = adrift \cup (CASE req[r].pc \in {"insertMedia", "cleanup"} -> {req[r].new}
                              [] req[r].pc = "dropRow" -> {req[r].row}
                              [] OTHER -> {})
  /\ Finish(r)
  /\ UNCHANGED <<db, objects, pruned, faults>>

(***************************************************************************)
(* The handlers: what each takes from a request of user u.                 *)
(***************************************************************************)
HandleCreateDeck(r, u)     == NewDeck(r, u, "create")
HandleImport(r, u)         == NewDeck(r, u, "import")
HandleUpdateDeck(r, u)     == \E d \in Decks : Edit(r, u, d)
HandleDeleteDeck(r, u)     == \E d \in Decks : Delete(r, u, d)
HandleShare(r, u)          == \E d \in Decks : ShareDeck(r, u, d)
HandleUnshare(r, u)        == \E d \in Decks : Unshare(r, u, d)
HandleClone(r, u)          == \E code \in Requests \cup {Old} : Clone(r, u, code)
HandleCreateCard(r, u)     == \E d \in Decks : NewCard(r, u, d)
HandleBatchCreate(r, u)    == \E d \in Decks : NewCards(r, u, d)
HandleUpdateCard(r, u)     == \E c \in Cards : Edit(r, u, c)
HandleDeleteCard(r, u)     == \E c \in Cards : Delete(r, u, c)
HandleSuspend(r, u)        == \E c \in Cards : Suspend(r, u, c)
HandleResetFSRS(r, u)      == \E c \in Cards : ResetCard(r, u, c)
HandleCreateQuiz(r, u)     == \E d \in Decks \cup {None} : NewQuiz(r, u, d)
HandleUpdateQuiz(r, u)     == \E z \in Quizzes : Edit(r, u, z)
HandleDeleteQuiz(r, u)     == \E z \in Quizzes : Delete(r, u, z)
HandleAddQuestion(r, u)    == \E z \in Quizzes : AddQuestion(r, u, z)
HandleBatchAdd(r, u)       == \E z \in Quizzes : BatchAddQuestions(r, u, z)
HandleGenerate(r, u)       == \E z \in Quizzes, d \in Decks : Generate(r, u, z, d)
HandleUpdateQuestion(r, u) == \E q \in Questions : Edit(r, u, q)
HandleDeleteQuestion(r, u) == \E q \in Questions : Delete(r, u, q)
HandleUpload(r, u)         == \E c \in Cards : Upload(r, u, c)
HandleDeleteMedia(r, u)    == \E m \in Media : DeleteMedia(r, u, m)
HandleUpdateProfile(r, u)  == Edit(r, u, u)

Arrive(r, u) ==
  \/ HandleCreateDeck(r, u) \/ HandleImport(r, u) \/ HandleUpdateDeck(r, u)
  \/ HandleDeleteDeck(r, u) \/ HandleShare(r, u) \/ HandleUnshare(r, u)
  \/ HandleClone(r, u) \/ HandleCreateCard(r, u) \/ HandleBatchCreate(r, u)
  \/ HandleUpdateCard(r, u) \/ HandleDeleteCard(r, u) \/ HandleSuspend(r, u)
  \/ HandleResetFSRS(r, u) \/ HandleCreateQuiz(r, u) \/ HandleUpdateQuiz(r, u)
  \/ HandleDeleteQuiz(r, u) \/ HandleAddQuestion(r, u) \/ HandleBatchAdd(r, u)
  \/ HandleGenerate(r, u) \/ HandleUpdateQuestion(r, u) \/ HandleDeleteQuestion(r, u)
  \/ HandleUpload(r, u) \/ HandleDeleteMedia(r, u) \/ HandleUpdateProfile(r, u)

Step(r) ==
  \/ Write(r) \/ DeleteRow(r) \/ SuspendRow(r) \/ ResetRow(r)
  \/ InsertDeck(r) \/ CloneDeck(r) \/ CloneCards(r)
  \/ DropShare(r) \/ InsertShare(r) \/ UnshareRow(r)
  \/ Create(r) \/ Count(r) \/ InsertItem(r) \/ Commit(r)
  \/ StoreUpload(r) \/ InsertMedia(r) \/ InsertMediaFails(r) \/ Cleanup(r)
  \/ DropObject(r) \/ DropRow(r)

Next == \E r \in Requests : (\E u \in Users : Arrive(r, u)) \/ Step(r) \/ Abort(r)

Spec == Init /\ [][Next]_vars
----------------------------------------------------------------------------
TypeOK ==
  /\ db \in Database /\ objects \subseteq Media /\ adrift \subseteq Media
  /\ \A r \in Requests :
       /\ DOMAIN req[r] = DOMAIN NewRequest
       /\ req[r].pc \in {"new", "done"} \cup Steps /\ req[r].op \in Ops
       /\ req[r].user \in Users \cup {None} /\ req[r].row \in Rows \cup Media \cup {None}
       /\ req[r].cols \subseteq Columns /\ req[r].read \in Values
       /\ \A i \in DOMAIN req[r].made : req[r].made[i] \in Made
  /\ pruned \in BOOLEAN /\ faults \in 0..MaxFaults /\ overlapped \in BOOLEAN

(***************************************************************************)
(* Nothing refers to a row that is gone, though every parent is looked up  *)
(* before, and outside, the statement that inserts a child of it.          *)
(***************************************************************************)
NoOrphans ==
  /\ \A c \in LiveCards(db) : db.cards[c].deck \in LiveDecks(db)
  /\ \A s \in db.shares : s.deck \in LiveDecks(db)
  /\ \A z \in LiveQuizzes(db) : db.quizzes[z].deck \in LiveDecks(db) \cup {None}
  /\ \A q \in LiveQuestions(db) : /\ db.questions[q].quiz \in LiveQuizzes(db)
                                  /\ db.questions[q].card \in LiveCards(db) \cup {None}
  /\ \A m \in LiveMedia(db) : db.media[m].card \in LiveCards(db) \cup {None}

\* A user has no two decks of one name, though they are inserted by three
\* operations that do not look first.
DeckNamesDistinct ==
  \A d, e \in LiveDecks(db) :
    db.decks[d].owner = db.decks[e].owner /\ db.decks[d].name = db.decks[e].name => d = e

\* The declarations of the tables hold: types, unique names, foreign keys.
SchemaKept == TypeOK /\ NoOrphans /\ DeckNamesDistinct

(***************************************************************************)
(* A batch, an import or a generated quiz is stored whole or not at all,   *)
(* and an imported deck only with its cards.                               *)
(***************************************************************************)
InsertedBy(d, r) == {c \in LiveCards(d) : d.cards[c].by = r}
                      \cup {q \in LiveQuestions(d) : d.questions[q].by = r}
BatchesWhole ==
  [][\A r \in Requests :
       LET news == InsertedBy(db', r) \ InsertedBy(db, r) IN
       /\ news # {} /\ req[r].op \in {"batch", "import", "generate"}
            => Cardinality(news) = Wanted(r)
       /\ \A d \in LiveDecks(db') \ LiveDecks(db) :
            db'.decks[d].by = r /\ req[r].op = "import" => news # {}]_vars

(***************************************************************************)
(* A clone has every card its source has at that moment, unless the source *)
(* went in between, and none of its reader's progress.                     *)
(***************************************************************************)
ClonesWhole ==
  [][\A d \in LiveDecks(db') \ LiveDecks(db), r \in Requests :
       db'.decks[d].by = r /\ req[r].op = "clone" =>
         /\ Cardinality(CardsOf(db', d)) = Cardinality(CardsOf(db, req[r].row))
         /\ \A c \in CardsOf(db', d) : db'.cards[c].fsrs = "new" /\ ~db'.cards[c].suspended]_vars

\* No reader ever finds half of what one request inserts.
InsertedWhole == BatchesWhole /\ ClonesWhole

\* Of a deck's content, suspension and FSRS state, an edit touches its own,
\* whatever it has read of the others before.
EditsApart ==
  [][\A c \in LiveCards(db) \cap LiveCards(db') :
       /\ db'.cards[c].suspended # db.cards[c].suspended
            => \E r \in Requests : At(r, "suspend") /\ req'[r].pc = "done"
       /\ db'.cards[c].fsrs # db.cards[c].fsrs
            => \E r \in Requests : At(r, "resetFSRS") /\ req'[r].pc = "done"]_vars

(***************************************************************************)
(* The object store and the media table agree, but for the requests under  *)
(* way and those that failed half way.                                     *)
(***************************************************************************)
Touching(m) == \E r \in Requests : UnderWay(r) /\ (req[r].new = m \/ req[r].row = m)
MediaInStep ==
  \A m \in Media : Touching(m) \/ m \in adrift \/ (m \in objects <=> m \in LiveMedia(db))

(***************************************************************************)
(* The following hold for requests that do not overlap; the README says    *)
(* which interleavings break each.                                         *)
(***************************************************************************)

\* A deck has one share, but for those whose deletion failed unnoticed.
OneShare ==
  ~overlapped => \A d \in Decks : Cardinality(SharesOf(db, d)) <= 1 + faults

\* The questions of a quiz have distinct positions until one is deleted.
PositionsDistinct ==
  ~overlapped /\ ~pruned =>
    \A p, q \in LiveQuestions(db) :
      db.questions[p].quiz = db.questions[q].quiz
        /\ db.questions[p].position = db.questions[q].position => p = q

\* What the code keeps apart without an index: shares and positions.
KeysDistinct == OneShare /\ PositionsDistinct

\* An edit changes the columns that were sent and no others.
OnlySentColumns ==
  [][~overlapped' => \A x \in Rows, c \in Columns :
       Exists(x) /\ db'.values[x][c] # db.values[x][c]
         => \E r \in Requests : At(r, "write") /\ c \in req[r].cols /\ db'.values[x][c] = r]_vars

\* An edit touches what it was sent, and nothing a request beside it owns.
EditsTouchTheirOwn == OnlySentColumns /\ EditsApart
=============================================================================
