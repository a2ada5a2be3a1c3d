# Verification of the Surau Quiz API

TLA+ models of backend-quiz, the Go service behind a flashcard and quiz
application: what its handlers do to the database when many requests run at
once, and what its algorithms compute. TLC checks them on small instances, and
TLAPS proves the central invariants for every number of users, quizzes, cards
and requests. The models are translated from the source; where a comment, an
error or a test of the source says something the code does not do, a run shows
how (see *Findings*).

## The system

`cmd/api` serves HTTP. A handler decodes and validates one request and calls one
method of `internal/service`, in a goroutine of its own. A service reads rows
through `internal/repository`, decides, changes the structs it has read, and
writes them back, often as whole rows. All state is in PostgreSQL, at READ
COMMITTED: a statement sees what was committed before it began, an UPDATE waits
for the lock of the row it changes, and nothing else orders the handlers. Some
groups of writes run in `UnitOfWork.Do`, one transaction that is committed if
the function passed to it returns nil. Beside the database there are an object
store for media, a Python service (`rag-service`) that answers questions over
books and stores its conversations in the same database, a mail service, and a
worker process whose tasks are stubs.

| Component | State | Operations | What is hard | What makes it correct |
|---|---|---|---|---|
| Quiz attempts (`service/quiz.go` 778-1091) | `quiz_attempts`, `quiz_answers` | StartAttempt, SubmitAnswer (with applyFSRSFromQuiz), CompleteAttempt | the attempt is read before the transaction and written back as a whole; check of an earlier answer, then insert; errors swallowed inside a transaction | scores count each answer at most once and stay within the quiz; acknowledged answers are stored; completed is final; card state and log go together |
| Study sessions (`service/study.go`) | `study_sessions`, `review_logs` | StartSession, SubmitReview, BatchReview, EndSession | the same read-then-write; a batch is one transaction in which items may fail; batches deadlock over cards | no review is counted that was not committed; ended is final; logs, card states and counters agree |
| Unit of work (`repository/uow.go`) | the open transaction in the context | Do | a statement that failed aborts the transaction even if the Go code goes on | nil means committed, an error means nothing was written |
| Cards (`service/card.go`, `repository/card.go`) | `cards` | Create, BulkCreate, Update, Suspend, ResetFSRS, Delete, due queue | whole-row updates; one limit for new and due cards | a suspension or reset is not undone by a review; the queue is fair |
| Quiz authoring (`service/quiz.go` 50-301) | `quizzes`, `quiz_questions` | Create/Update/DeleteQuiz, Add/Update/Delete/ReorderQuestion | position taken from a count; whole-row updates; deletions cascade into attempts | positions stay a permutation; edits of different fields do not undo each other |
| Quiz generation, grading (`service/quiz.go` 303-776, 1053-1158) | none | GenerateFromDeck, GenerateAyatQuiz, gradeAnswer, validateQuestionOptions | boundary cases of small decks; a `break` where another type is to be tried | generated questions are valid and contain their answer |
| Decks, sharing (`service/deck.go`) | `decks`, `deck_shares` | Create, Update, Share, Unshare, Clone, Import, Export | share is delete then insert; a clone copies while the source is edited | one share per deck; a clone is one deck's cards at one time |
| RAG conversations (`service/rag.go`, `rag-service`) | `conversations`, `messages` | query, streamed query, title job | limit checked in one service, message stored in the other; one half of a request outlives the other; a coroutine that holds the event loop | the limit is exceeded by races only; `message_count` equals the messages; answers have their questions; what was replied is stored |
| Account lifecycle (`service/auth.go`) | `users`, `email_verifications`, `password_reset_tokens`, `login_attempts` | register, login, verify, resend, forgot, reset, change, delete, cancel, purge | a code is replaced by a delete and an insert; attempts are counted after they were checked; the purge lists, then deletes | one account per email; the last code sent is the only one that works; guesses are bounded |
| Refresh tokens (`service/auth.go`) | `refresh_tokens` | issue, rotate, logout, logout all, revoke | rotation checks a token outside its transaction and revokes it without a look; a sweep revokes what it saw | a token is exchanged once; a closed session stays closed; a new password ends the old sessions |
| OAuth accounts (`service/auth.go`) | `oauth_accounts` | FindOrCreateOAuthUser | two unique keys and three reads before one transaction | an identity has one account, which goes with it |
| Media (`service/media.go`) | `media`, the object store | upload, delete | two stores without a common transaction | a row has its object and an object its row, unless a request failed half way |
| Statistics, goals (`service/stats.go`, `goal.go`) | `study_goals`; they read `review_logs`, `cards`, `quiz_attempts` | SetGoal, ListWithProgress, Mastery, WeakAreas, TestComparison | rounding, ends of periods, bounded lists, ties | a goal shows 100% when it is met; weak areas and comparisons rest on the right rows |
| Rate limiting (`middleware/ratelimit.go`, `user_ratelimit.go`) | a map of token buckets | getVisitor, Middleware, cleanup | a visitor is forgotten between two steps of its request | forgetting never gives back more than waiting would; nobody is refused who keeps to the rate |
| Pagination (`pkg/pagination`) | none | NewParams, NewResponse, the pairs of queries of a list | rows and their number come from two queries; limits out of range | following the pages gives each row once |
| Worker, mail, captcha, export, ingestion, retrieval | none of their own | | pure I/O or stubs | not modelled |

Components meet in shared rows. A quiz answer and a review both write a card's
FSRS columns and its review log. Deleting a quiz, question or card cascades
along foreign keys (`ON DELETE CASCADE`, and `SET NULL` for a question's card)
into rows that requests under way have already read. Publishing a quiz decides
who may start it. `hazards` in `PROJECT.json` lists what all this exposes, line
by line.

## What is modelled

### How a model is made

A request is one value of `Requests`, served at most once. `req[r]` holds its
program point and what it has read. Each statement it sends is one action, so
that other requests, authors and owners come between any two. What a
transaction has written waits in the request: nobody sees it before the commit,
which publishes all of it in one action, and `End` drops it, which is the
rollback of `PgxUnitOfWork.Do`. The row locks a transaction holds are read off
its program point (`AttemptLocked`, `CardLocked`, `Locks`). A failed statement,
a client that went away and a server that stopped look alike to the database:
`Fail` may strike at every program point and rolls back. Requests are lost and
retried by clients; a retry is another request with the same content, which is
always allowed.

The models start with any set of rows the program can be in at rest: sessions
and attempts may be under way, quizzes published or not, cards suspended or not,
an account made by registration or through Google. `Accounts` and `Library` take
their statements from a module of tables each, which holds the SQL as operators
from one state of the tables to the next, with unique keys and cascades.

### QuizAttempt

| Model | Code |
|---|---|
| `StartLoadQuiz`, `StartListQuestions`, `StartCreate` | `StartAttempt`: three statements; the totals are kept as the points listed per question, since only their sum and number are stored |
| `SubmitLoadAttempt`, `SubmitLoadQuestion`, `SubmitLookup` / `SubmitLookupError` | `SubmitAnswer` up to grading; a lookup that fails is taken for no answer |
| `SubmitWrite` | the answer's INSERT and the attempt's UPDATE; they wait for the attempt's lock, and the foreign keys refuse a deleted attempt or question |
| `FSRSLoadCard`, `FSRSApply` | `applyFSRSFromQuiz`; an error in it makes the transaction `doomed` |
| `SubmitCommit`, `SubmitCommitFSRS`, `SubmitCommitAborted` | the COMMIT, with or without the card and its log, or of an aborted transaction |
| `CompleteLoadAttempt`, `CompleteWrite` | `CompleteAttempt` |
| `SetPublished`, `DeleteQuiz`, `CreateQuestion`, `UpdateQuestion`, `DeleteQuestion`, `SetSuspended`, `ResetFSRS`, `DeleteCard` | the statements of `UpdateQuiz`, `AddQuestion` and so on that a request can notice, with their cascades; deleting a deck is deleting its cards |

An answer and a log are named by the request that inserted them. Grading is a
choice of right or wrong. `counted` and `edited` are history variables: which
questions the stored `correct_count` stands for, and which quizzes were changed
after they might have been started. `duration_ms` is left out.

`AttemptLedger` says what taking a quiz promises: open, answer each question at
most once and add its points, close, and no change after that. An author may
withdraw a question or remove the quiz.

### StudySession

| Model | Code |
|---|---|
| `StartSession` | the INSERT of `StartSession` |
| `SubmitLoadSession`, `SubmitLoadCard` | `SubmitReview` up to its transaction; `Reviewing` keeps the state to be logged |
| `BatchLoadSession`, `BatchLoadCard`, `BatchSkipItem` | `BatchReview`'s loop; a card is read inside the transaction and so with its own writes |
| `ReviewWrite` with `Reviewed` / `ReviewFailed` | `UpdateFSRS` and the log's INSERT, which wait for the card's lock; on a deleted card they fail |
| `InDeadlock`, `DeadlockAbort` | PostgreSQL's deadlock detector, which fails the UPDATE of one request of a cycle |
| `BatchAborted` | the rest of a batch after a failed statement, down to its error |
| `CommitReviews` | the session's UPDATE and the COMMIT |
| `EndLoadSession`, `EndWrite` | `EndSession` |
| `SetSuspended`, `ResetFSRS`, `DeleteCard` | the owners' statements, which wait for row locks |

`sessions[s].count` are the three counters `new_count`, `review_count` and
`relearn_count`; `KindOf` maps a card's state to one of them. Of a card's FSRS
columns its state is kept, since counters and logs depend on it. `reviews` is a
history variable: every log ever committed, whatever was deleted since.

`SessionLedger` says what a session promises: open, add a review's increments,
close, and no change after that.

### RagConversation

A request has two halves with a program point each: `go` of the handler of the
Go API, `rag` of the handler of `rag-service`, which may outlive the first.

| Model | Code |
|---|---|
| `CheckDailyLimit`, `VerifyConversationOwner`, `Send` | `RAGService.Query` and `RAGHandler.QueryStream` up to the call of `rag-service` |
| `GiveUp` | the stream's timeout, the HTTP client's, or a client that went away |
| `Begin`, `CreateConversation` | `_ensure_conversation`; a conversation of one who was purged is refused by its foreign key |
| `InsertQuestion` and `StoreQuestion`, `InsertAnswer` and `StoreAnswer` | `save_user_message`, `save_assistant_message`: the INSERT, whose time is `created_at`, and the UPDATE with the COMMIT |
| `LoadHistory` | `load_history`, and the loss of its last row if that is a question |
| `Retrieve`, `Chat`, `Reply` | the retrieval, which may find nothing, the model's answer, the reply |
| `Resume`, `LoopBusy` | `event_gen` from one `yield` to the next, in which it holds the event loop; a run of yields with nothing between them is one |
| `StreamCut`, `Fail` | a stream that is closed, at a yield; an exception, a lost connection, or the end of a process |
| `RegenTitle` | `_regen_title_job` in the executor; it may do nothing |
| `Purge` | `PurgeExpiredAccounts`: the DELETE of a user and its cascade, which waits for transactions that hold a key |
| `TimePasses` | a message becomes older than 24 hours |

A message is named by its request and role; a title by the request it sums up.
`Send` takes the upstream request to have arrived, since one that does not fails
without an effect. `peak` is a history variable: the most questions of a user
that were at once past the limit's check and not yet stored. `IdsLeft` keeps a
request from running out of conversations.

### Accounts and AccountTables

| Model | Code |
|---|---|
| `Register`, `InsertUser`, `CommitRegister` | `Register`: the email is looked up, then one transaction inserts the user, a code and a token; an INSERT waits for another of the same email |
| `Login`, `LoginPasses`, `LoginFails`, `IssueToken` | `Login` with its lockout; a failure whose record is lost is only logged (`Logged`) |
| `Refresh`, `RefreshRevoke`, `Rotate` | `RefreshToken`: the token is read, then one transaction revokes it, without another look, and inserts its child; a revoked token that comes back leads to `Sweep` |
| `Logout`, `RevokeSession`, `RevokeOne`, `LogoutAll` | the handlers of those names |
| `Sweep`, `CommitSweep` | `RevokeAllForUser`, alone or last in the transaction of `ResetPassword`, `ChangePassword` or `RequestAccountDeletion`: the UPDATE sees the active tokens, waits for those that are locked, and revokes what is still active of them |
| `ResendVerification`, `DropCodes`, `InsertCode`; `ForgotPassword`, `DropResets`, `InsertReset` | a DELETE and an INSERT, a transaction each |
| `VerifyEmail`, `WrongCode`, `RightCode`, `UpdateUser` | the code is read and its attempts compared; then the increment, or the consumption, and then the user |
| `RequestAccountDeletion`, `CancelAccountDeletion`, `Cancel`, `Purge`, `PurgeUser`, `PurgeSkips` | the grace period and its end; a purge lists the accounts and deletes them one by one |
| `FindOrCreateOAuthUser`, `OAuthEmail`, `LinkAccount`, `CommitLink`, `CommitOAuthUser` | the login through Google, both unique keys included |
| `WindowPasses`, `Abort` | failures grow old; a handler returns early and its transaction is rolled back |

A code, a reset token and a refresh token are named by the request that inserted
them, or `Old`. A password is its version, 0 the empty hash of an account made by
OAuth. Which locks are held is read off the program points (`LocksUser`,
`RefersTo`, `LocksToken`, `Inserting`, `Linking`). History variables: `root` and
`knows` (the login a token descends from, and the password it knew), `guesses`,
`uses` (the passwords set with a reset token), `faults`, and `overlapped`: two
requests have been under way at a time.

### Library and LibraryTables

| Model | Code |
|---|---|
| `Edit`, `Write` | the updates of decks, cards, quizzes, questions and profiles: the row is read, the columns sent are replaced, the whole row is written. Two columns stand for all: one that is never null and one that may be, since `updateDeck` and `updateUser` keep a column they are given NULL for and the others do not |
| `Delete`, `DeleteRow` | the deletions, with their cascades and `SET NULL`; a DELETE waits for transactions that refer to the row |
| `Suspend`, `SuspendRow`, `ResetCard`, `ResetRow` | `Suspend`, `ResetFSRS` |
| `NewDeck`, `InsertDeck` | the creation and import of a deck, `UNIQUE (user_id, name)` |
| `Clone`, `CloneDeck`, `CloneCards` | the share is read, then its deck, then a transaction inserts the deck and copies the cards there are by then |
| `ShareDeck`, `DropShare`, `InsertShare`, `Unshare`, `UnshareRow` | a share is a DELETE whose error is ignored, and an INSERT |
| `NewCard`, `NewQuiz`, `Create` | one INSERT after its parent was looked up |
| `NewCards`, `AddQuestion`, `BatchAddQuestions`, `Generate`, `Count`, `InsertItem`, `Commit` | batches, imports and generated questions, inserted one by one in a transaction; a question's position is the number of questions there were |
| `Upload`, `StoreUpload`, `InsertMedia`, `InsertMediaFails`, `Cleanup` | the object, its row, and the removal of the object when the row fails |
| `DeleteMedia`, `DropObject`, `DropRow` | the object, then its row |

History variables: `adrift` (the media whose request failed half way), `pruned`
(a question was deleted), `faults`, `overlapped`.

### The algorithms

`Calculations` puts them together: a behaviour takes up one *problem*, which is
an input of one of them, and the invariants compare what the code computes for
it with a definition that says what it is to be. The problem `Limiter` sets the
rate limiter going, which is a state machine.

| Module | Code |
|---|---|
| `QuizQuestions` | `GenerateFromDeck`, `GenerateAyatQuiz` and their generators, `validateQuestionOptions`, `gradeAnswer`. A text is its words, each letters and a case, and whether it has space around it: what `EqualFold` and `TrimSpace` tell apart. A generator is the set of the questions that it may return |
| `StudyQueue` | `GetDueCards` with the limits of query and repository, `countCards`, `DeckStats`, `GetReminders` and their queries |
| `Statistics` | `SetGoal`, `ListWithProgress`, `Mastery`, `WeakAreas`, `TestComparison`; a percentage is counted in hundredths |
| `Pages` | `NewParams`, `NewResponse` and the list of a deck's cards with its three filters. Rows that share `position` and `created_at` come in any order, anew in each query, so a page is a set of possible answers |
| `Listing` | the rows of a query in its order, and the elements that a loop keeps: what the modules above share |
| `RateLimiter` | `getVisitor`, `Middleware`, `cleanup`, over the bucket of `golang.org/x/time/rate`. A request takes its bucket from the map in one step and draws a token in a later one; in between the visitor may be forgotten and made again. `UserRateLimiter` is the same code with another key |

## What is checked

| Run | Shows |
|---|---|
| `attempt_conc` | two requests of two users on one attempt, an edit and a failed lookup: `correct_count` and `score` never exceed the quiz's totals unless that lookup failed, card states have their logs, acknowledged answers are stored, nothing refers to a deleted row, and every handler that began ends |
| `attempt_serial` | a client that waits for replies: `AttemptLedger` is implemented and the score is the sum of the stored answers |
| `study_conc` | two requests, batches among them, on one session and two cards: counters never exceed committed reviews, logs and card states agree, ended stays ended, and every handler ends, deadlocked batches too |
| `study_serial` | a client that waits for replies: `SessionLedger` is implemented and the counters are exact |
| `rag_conversation` | two questions, of one user or two, plain or streamed, with a limit of one a day: the limit is exceeded by races only, counts, answers and replies agree with what is stored, and both halves of every request end |
| `accounts` | three requests out of fifteen handlers: unique emails, foreign keys and rotation hold through every interleaving; the promises about codes, passwords, sessions and guesses hold for requests that do not overlap |
| `library` | two requests out of twenty-four handlers: foreign keys, unique names, whole batches and clones, the object store and the owners' suspensions hold through every interleaving; shares, positions and columns for requests that do not overlap |
| `calculations` | every algorithm over every bounded input, and the rate limiter with two requests over ten units of time |
| `attempt_reopened`, `attempt_twice`, `study_batch`, `mastery` | the findings below |

Why `CorrectWithinTotal` is worth a run: requests do lose each other's
additions, and two answers to one question can both be stored. The bound holds
all the same, because each request reads the attempt before it looks for an
earlier answer: what it adds to was counted without the question it adds. With
an incrementing UPDATE (`MutCommitAdding`), the repair that first comes to mind
for the lost additions, the bound breaks until the table has a unique index.

`LimitExceededByRacesOnly` is the promise of `CheckDailyLimit` that survives the
distance between the check and the INSERT. It depends on the other service: on
ownership being verified (a question in another user's conversation would count
against that user), and on nothing but a checked request storing a question.
`QuestionNotInItsHistory` has an exception because the code has one: the row
dropped from the history is the last one, which another request may have stored.

**What overlapping requests break.** Some promises of `Accounts` and `Library`
have `~overlapped` in them: the code keeps them for a client that sends one
request at a time, and an interleaving breaks each otherwise. TLC finds these
when the condition is taken away:

- `OneTokenPerSession`: two refreshes read one token before either revokes it;
  `auth.go:313` revokes it without looking again, and both insert a child.
- `ClosedStaysClosed`, `SessionsKnowPassword`: a refresh has read its token, or
  revoked it, when a logout revokes it or a reset or a change of password sweeps
  (`auth.go:517`, "Revoke all active sessions.", and `auth.go:552`); the child it
  inserts afterwards was not there to be swept. Likewise a login that compared
  the password, or found its identity, before a change of it issues its token after.
- `OneActiveCode`: two resends, or two requests for a reset token, each delete
  before either inserts.
- `ResetOnce`: two resets with one token both find it unused.
- `GuessesBounded`: two guesses read the number of attempts before either adds
  to it, for a code as for a password.
- `OneShare`: two shares each delete before either inserts.
- `PositionsDistinct`: two additions count the same questions. A deletion has
  the same effect on the next addition, without any overlap (`pruned`).
- `OnlySentColumns`: two edits of different columns; the second writes back the
  column of the first as it read it.

What holds without the condition is the more interesting half: `ReplacedIsRevoked`
(a token that has been exchanged is never active again, whatever refreshes,
sweeps and logouts cross), `SchemaKept`, `InsertedWhole` (a clone made while its
source is edited still has the cards of one moment, since they are copied by one
statement), `EditsApart` (`UpdateCard` names no column of FSRS and no suspension)
and `MediaInStep`.

**Bounds.** The instances are small and the sets of starting states large.
`attempt_conc`: two users, a quiz with two questions of which one is made from a
card, one attempt, two requests, one edit, one failed lookup (`MaxEdits`,
`MaxLookupErrors`): the races below need two requests and one question, the
second tells a sum from a count; `attempt_serial` has three requests and two
edits, which allow an edit of what an earlier one created. `study_conc`: two
requests, batches of two items (`MaxItems`; the API takes 500) on two cards,
which is what a deadlock takes. `RowIdsLeft` and `IdsLeft` keep a request from
running out of row ids. `rag_conversation`: two requests race for a limit of one
in the one conversation there is, which either may have to create; a history of
two rows is shorter than the conversation, so that its limit shows.
`accounts`: three requests of two users, two emails and one identity, one guess
before the limits (`OTPMaxAttempts`, `LoginLockoutMaxFails`), one lost write
(`MaxFaults`): the promises above take one request that makes something, and two
that use or replace it. `library`: two requests around a deck with a card, a quiz
with a question, a medium; three decks and four cards are as many as two clones
or batches of two (`BatchItems`) take. `calculations`: decks of two and of four
cards (the least a quiz takes, and the least a multiple choice) over backs that
differ in text, case or space; clozes of one to six words; five tagged cards of
three surats, a few of which share an ayat; four cards for the queue with limits
up to two; pages of two or three among up to five rows that were added one by one,
in two batches, or as a clone, whose rows share two places; questions of all seven
types, their answers with and without space; for the limiter a burst of two in
a period of two, forgotten after five, up to `MaxTime` 10. The proofs do not
depend on any of these.

**Symmetry** is used in safety runs only, over sets whose elements are
interchangeable.

**Deadlock checking is off**: each request is served once, and when all have
ended and the edits are used up the system stops, and so it does when the one
problem has been looked at, or the clock has run out.

**Fairness** is weak fairness of `Step(r)` for every request: goroutines,
threads and the event loop are scheduled, calls of the model return or time out,
statements return, PostgreSQL wakes a waiter when the lock it waits for is
released and breaks a cycle of waits after `deadlock_timeout`. No fairness is
assumed of arrivals, failures or edits. Weak fairness suffices because a lock is
held only by a transaction that itself takes finitely many steps, and no arrival
can overtake a waiter for ever. `EveryRequestEnds` is part of the concurrent runs
of attempts, sessions and conversations. A handler of `rag-service` waits for the event
loop only while a stream holds it between two yields, which is finitely long;
asyncio runs what is ready in its order of arrival.

**Mutants.** Operators named `Mut...` are variants of the definition after them
with a plausible bug: a missing check, a row written back whole, an error
ignored. For every property one of them makes the run fail.

## Findings

1. **A completed attempt can become open again.** `SubmitAnswer` writes back
   `completed_at` as it read it (`quiz.go:911`; `quiz_attempts.sql:9` has no
   COALESCE, unlike `study_sessions.sql:11`). `attempt_reopened`.
2. **Two answers to one question.** The duplicate check and the insert are
   separate statements and there is no unique index. `attempt_twice`.
3. **A failing item takes its batch with it.** The tests, which run without a
   transaction, count it in `Errors`. `study_batch`.
4. **Mastery is never above 20.8%.** The comment says 40%, 40%, 20%; the factor
   100 of the rounding multiplies the last term only (`stats.go:207`), so that
   every deck is a beginner's. `mastery`.

What the models also show, and no run is spent on:

- *Attempts.* `applyFSRSFromQuiz` swallows a foreign key error that has aborted
  the transaction; the COMMIT fails and the answer is lost, though the function
  passed to `Do` returned nil (`quiz.go:1043`, against `uow.go:6`). Concurrent
  answers lose each other's counts. When the lookup of an earlier answer fails,
  the answer counts again (`quiz.go:874`): the bounds of `attempt_conc` are about
  attempts without such a failure.
- *Sessions.* A review lands in a session that has ended since its check
  (`study.go:92`, `study.go:153`); the end itself is not undone. Concurrent
  reviews lose each other's counts, while `IncrementSessionCounters` exists and
  is not used. The state a review logs, read before its transaction, may be one
  the card has left since.
- *RAG.* A user with several questions on their way passes the daily limit with
  all of them. A question counts from when it is stored, answered or not. While
  another request answers in the same conversation, the history may hold the
  question that is also in the prompt. A conversation may stay empty.
- *Accounts.* The interleavings listed above. A purge may delete an account whose
  cancellation committed after the list was read (`auth.go:692`).
  `PurgeExpiredAccounts` and `RevokeChildren` have no caller.
- *Decks and quizzes.* A deck's name that is taken gives an internal error:
  `ErrDeckNameTaken` is never returned. `StartAttempt`'s comment "Strip correct
  answers" is true of multiple choices only.
- *Lists.* A card added by itself has position 0, a batch starts at 0 again
  (`card.go:43`), and a clone copies positions in one transaction, hence with one
  `created_at` (`repository/deck.go:207-211`): the clone of a deck that was filled
  card by card is all ties under `ORDER BY position, created_at`. PostgreSQL may
  order them differently for each page, so that one row comes twice and another
  never; `has_more` ends the walk all the same, and the number of rows is right.
  `PagesCoverPlaces` has just that much, and a row alone at its place exactly once.
- *Generation.* `quiz.go:567-570` stops at the first type it cannot generate,
  where the comment has it try another: a mixed quiz may be short, which
  `AyatQuizWhole` excepts, and a quiz of one type that cannot be generated has no
  question at all. Two surats whose names differ in case or space only are both
  options, and both graded right: `OneRightSurah` has one option marked right of
  every deck, and one graded right where no surats are so alike. A deck whose backs are all the same
  yields a choice of one option. Distractors are compared exactly and answers
  without regard to case and space, hence the condition in `ChoicesFair`. The
  right option of a surat question is not validated. `generateOrdering` misses
  runs when two cards hold one ayat, hence `single` in `OrderingRight`.
- *Grading.* The answer given to an ordering is trimmed and the stored one is not,
  and their case matters (`quiz.go:1085-1087`): an ordering that was accepted with
  space around its answer can never be answered. `AcceptedIsAnswerable` says so of
  those, and of every other question that its own answer is right. Orderings that
  are generated have no such space.
- *Queue.* The review limit is enforced only as part of the sum: when there are
  few new cards, more reviews are served, and cards being learned can take the
  place of new ones.
- *Statistics.* The streak and the leaderboard read `daily_stats`, which nothing
  in production writes (`UpsertDailyStats` has no caller), and the streak's SQL
  subtracts a descending row number, so that it is never above one. Weekly goals
  look at eight days, the overview at thirty-one. Mastery's retention counts all
  the user's reviews where the comment has "this deck's cards". The best attempt
  is the one with the highest score, not the highest percentage. A tag that a
  card has twice counts twice.

## What is proved

For every value of the constants; `ConstantsOK` of each module is all that is
assumed of them, and says that the schema's references are functions into the
right sets, that bounds are natural numbers and that NULL is none of the
values. `Library` says so in `BoundsOK`, which also gives the initial state a row
of each kind, and in `UuidsOK` of `LibraryTables`: no two tables share a uuid,
and there are finitely many cards and questions. `Calculations` says in `ProblemsOK`
what its inputs are: slices, whose cards have ids of their own; one of four states
and a time of being due for each card; limits, scores and durations that are not
negative, and a target that `SetGoalRequest` lets through. `PagingOK` and `RowsOK`
are about the sizes of pages and listings. TLC checks them in every run.

`QuizAttemptProofs`, of `Spec`, any number of requests at once: `Inductive`,
`TypeCorrect`, `CorrectNeverExceedsTotal`, `CardStateAlwaysLogged`,
`AnswersStored`, `NothingOrphaned`, `SchemaIsKept` (types and foreign keys
together), `SuspensionIsTheOwners`, `ScoresAreCounted`, `ScoreNeverExceedsTotal`;
of `SerialSpec /\ []NoLookupError`, `SerialInductive` and `QuizImplementsLedger`,
the refinement of `AttemptLedger`; of `SerialSpec`, lookups that fail included,
`NoScoreIsLost`.

`StudySessionProofs`, of `Spec`: `TypeCorrect`, `CountsNeverInvented`,
`CardStateAlwaysLogged`, `ReviewsStored`, `NothingOrphaned`, `EndIsFinal`,
`SuspensionIsTheOwners`; of `SerialSpec`: `CountsExact`, and
`StudyImplementsLedger`, the refinement of `SessionLedger`.

`RagConversationProofs` (of `Spec`): `TypeCorrect`, `LimitKept`,
`CountsMessages`, `RepliesAreStored`, `AnswersFollow`, `QuestionDropped`,
`TitleIsKept`, for any number of requests, any limit and any length of history.

`RateLimiterProofs` (of `LimiterSpec`): `LimiterInductive`, `BudgetKept`,
`RefusalsAreDue`, `IdleAreForgotten`, for any number of clients and requests, any
rate, and any length of time (`MaxTime` is any bound).

`AccountsProofs` (of `Spec`): `Inductive`, `SerialInductive`, `SchemaIsKept`,
`ReplacedStaysRevoked`, `TheLastOneWorks`, `HoldersKnowPassword`,
`GuessesStayBounded`, `ClosedSessionsStayClosed`, which are all the properties of
the run `accounts`, for any number of users, emails, identities and requests
(finitely many requests: codes are numbered by counting them) and any limits.

`LibraryProofs` (of `Spec`): `Inductive1`, `Inductive2`, `Inductive3`,
`SchemaIsKept`, `MediaStayInStep`, `EditsKeepApart`, `InsertsAreWhole`,
`EditsTouchOnlyTheirOwn`, `KeysStayDistinct`, which are all the properties of the
run `library`, for any number of requests, users and rows and any size of a batch.

`CalculationsProofs` (of `Spec`): `DeckQuestionsAreRight`, `AyatQuestionsAreRight`,
`AcceptedCanBeAnswered`, `DueCardsAreServed`, `PagesCoverEveryPlace`,
`StatisticsAreTrue`, and, because no step of the calculations touches the limiter,
`CallersKeepTheirBudget` and `CallersAreRefusedOverBudget`: all the properties of
the run `calculations`, for decks, quizzes, queues and lists of any length.

`TypeCorrect`, `NothingOrphaned`, `SuspensionIsTheOwners` and `TitleIsKept` state
more than the runs check by name: the runs have types and references as one
invariant, `SchemaKept`.

**The argument for QuizAttempt.** None of the invariants is inductive, since a
commit writes what its request read earlier. `IInv` says what that can be.
`MayCount(a, Q)`: the questions counted by an attempt, or by a count that a
request has read and not yet written back, are questions of its quiz, were
listed at the start unless the quiz was edited, and have a stored answer unless
they were deleted. `RequestCounts`: past the duplicate check, the question a
request is about to add is not in the count it holds. That is the order of the
two reads in `SubmitAnswer`: had the count included the question, its answer was
stored before the attempt was read, and the lookup, which comes later, would
have found it. `RequestOK` says that row locks and foreign keys keep a
transaction's attempt, question and card alive until it commits. Each action has
a lemma `...Step`; `StepIInv` puts them together.

**The argument for scores.** `ScoreIInv` adds to `IInv` that a score, stored or read
and not yet written back, is the sum of the points listed for the questions it
counts, and that the points a request has read are those listed, as long as nobody
changed the quiz. A commit adds the points of a question that, by `RequestCounts`,
is not counted yet; and what is counted was listed, so the sum is at most
`total_points`. For one request at a time, `SumIInv` says that the score a handler
has read is still that of the row; the commit then adds one answer to those stored
and its points to the score. Deleting a question takes answers and leaves the
score, hence `NoneWithdrawn` in the property. Both rest on what sums over finite
sets do (`SumStep`, `SumSame`, `SumMore`, `SumGrows`, of the community modules'
`SumFunctionOnSet`): that the fold exists and does not depend on the order in which
it picks elements is an induction over finite sets. `DataLemmas` has these, and the
other facts about data that no component owns. The induction theorems, which
take an operator, are not used for it: a family of finite sets has a member none
smaller than which is in it (`SmallestMember`, from the well-foundedness of `<`), and
each lemma refutes the smallest counterexample.

**The argument for StudySession.** `PendingOK` relates the writes a transaction
holds back to each other: one log for each item done, one increment for each
log, of a card that is locked and so still there; item numbers go down, which
makes the logs of a batch distinct. `RequestCounts` says that the counters a
request has read were counted by committed reviews, none its own. A commit then
adds as many logs as it adds to the counters it read, which are at most those
stored; a cardinality argument over disjoint sets of logs does the rest
(`CommitReviewsStep`).

**The argument for RagConversation.** `RacesOK` strengthens the limit: questions
that have passed the check count before they are stored, so storing one moves it
from one side of the sum to the other, and only the check adds to the sum, of a
user below the limit. `RequestOK` says that from the check of its owner on a
conversation belongs to the request's user, and that an open INSERT keeps it from
being purged. `MessagesOK` and `StoredOK` say which messages a request has: at
most one of each role, the question from its COMMIT on, the answer when it
replies. `TitlesOK` says that only the request that created a conversation can
ask for a title, and that there is no title before its one job has run.

**The argument for Accounts.** A request reads before its transaction and may find
everything changed at its commit. `RequestOK` says what cannot have changed: no
token bears its name before it issues one; the user a request is about to insert
is still nobody, with an email that nobody has (`Exclusive`: nor another open
transaction, the UNIQUE index makes one wait for the other); a user that an open
transaction links is alive, as the foreign key's lock holds off the purge; and the
token to be replaced is still its user's, active or revoked, unless the user is
gone, and users do not come back. So a commit that adds a user adds a new email,
and one that replaces a token writes the revocation of that very token with its
successor (`TokenAdded`); no statement makes a revoked token active. Most steps
change neither who is there nor whose a token is, and one lemma (`Mild`) covers
them.

`SInv` is about requests that have not overlapped. `Serial` says that at most one is
under way, so that what it has read is still so when it writes (`Sure`): the code it
checks is active and has attempts left, the token it replaces is active, the sweep has
found every active token of its user. `CodesOK`, `ResetsOK` and `FailuresOK` tie the
history to the tables: the guesses of an active code are at most its attempts and
the records that were lost; a reset token that is active has not been used.
`SessionsOK` needs `Rooted`: a session is named after a token that was inserted, so
that a request whose token is yet to come opens a session that nobody has closed.
The proof also showed that `GuessesBounded` promised too much: with
`LoginLockoutMaxFails` = 0 the code has no lockout, and passwords can be guessed at
will. The property now says so; the runs have a lockout.

**The argument for Library.** Each statement has lemmas that say which rows it
changes and how (the section *Effects*), so that an invariant is looked at once for
each statement and not for each handler. `Inv1` has four parts. `Sound`: the tables
refer to rows that are there, and no user has two decks of one name. `Shaped`: a
request at a step holds what the step needs. `LocksKept`: the rows that an open
transaction refers to, its batch's deck or the cards of its questions, are still
there, since a DELETE waits for it. `NameHeld` and `NamesApart`: the name of a deck
that is being inserted is free and of one transaction, as the UNIQUE index makes
the second INSERT wait. `Inv2` adds `Claims`: the ids that a request has drawn are
free, distinct and no other's, so that its commit inserts exactly `Wanted` and
overwrites nothing; `InsertedWhole` is that, together with the fact that no other
step makes a row live of which several are wanted. `Stored` and `Accounted` follow an
object from its upload to its row: an object without a row, or a row without an
object, is that of a request between two of its steps or is in `adrift`. They also
showed where the model was wrong: a deleted medium could be uploaded again under
its uuid while the request that had deleted it was still to clean up. No uuid is
drawn twice, so its row is now "gone", as in the other tables.

`Inv3` is about requests that have not overlapped. `Serial` says that at most one is
under way, and `Reread` that the row it is about to write is the row that stands,
but for the columns it was sent; `EditsTouchTheirOwn` follows. `EditsApart` needs no
such premise: the columns are only in the row that `SuspendRow` and `ResetRow`
write. For `KeysDistinct`, `FewShares` says how many shares a deck can have between
the DELETE whose error is ignored and the INSERT: at most as many as failures, and
one more after it. `Ordered` says that while no question was deleted the positions of
a quiz are below the number of its questions, and that the count which a request has
read is still right when it inserts.

**The argument for RateLimiter.** The one assumption beyond types is
`Burst * Period + MaxStall <= EvictAfter`: a bucket is full again, and no request
still holds it, before its visitor is forgotten; all three limiters of the code
satisfy it by far (2 s, 10 s and 6 s against 3 and 10 minutes). Then `VisitorOK`
and `RequestOK` say that a request holds the bucket the map has now, so that there
is one bucket per key at a time, and a new one is no fuller than the old one would
be. `BudgetOK` is the heart: over every stretch of requests that were let through,
what they cost and what the bucket still yields is at most what the budget leaves,
and over some stretch it is exactly that (or the bucket is full). The first half
gives `WithinBudget` when a request is let through; the second gives
`RefusedOverBudget` when one is refused: that stretch is the one that letting it
through would break. The clock only enters through `Level`, which gains a unit per
tick up to `Full`, and so never more than `LeftOver` does.

**The argument for Calculations.** A behaviour takes up an input and keeps it
(`OnlyProblems`); the rest is about one input. Each operator has a lemma that says
what it returns (`ContinuationsAre`, `SurahChoiceIs`, `QueueIs`, `TagsCounted`,
`ResultIs`), and each part of a property follows from those. `DataLemmas` has the
facts about data:

- *Orders.* A listing of a query is a sequence `s` with `s[n]` the element that has
  `n - 1` elements before it. That it is a sequence of all elements in their order
  (`OrderIs`) needs the ranks of a finite strict order to be distinct and to
  reach every number below its size: a rank is the size of the set of what comes
  before, and these sets are nested (`NoFewer`, `AllReached`). Queues, pages, goals,
  weak cards and the top of the tags use it. `KeptInOrder` is the same for a loop
  that keeps some elements.
- *Pieces.* Each page is a piece of a listing of its own, and the pieces meet where
  one offset ends and the next begins. Two listings of one set may differ, but at
  every index they have rows of one place (`ListsAgree`): otherwise one of them
  would have more rows up to there than come before the other's. The pieces joined
  are therefore a sequence with, at each index, what some listing has there
  (`PiecesMerge`, over `FlattenPieces`), and such a sequence is in order and has of
  each place as many rows as there are (`MergedListings`).
- *Sums.* A sum over days of counts is the count of all reviews in them
  (`SumOfCounts`); a sum over a listing is the sum over the set it lists
  (`SumMoved`), because the listing meets each element once.
- *Counts.* That the queue puts no card off for one that ranks after it is shown
  by counting: the kept new cards and the kept others are matched to those served
  (`SameCount`), and their numbers are those that the limits leave.
- *Induction.* `NatSetInduction` is about a set of numbers, where the library's
  theorem has an operator; it gives what is built piece by piece (`FlattenPieces`) or
  holds from neighbour to neighbour (`InOrderThroughout`). Over finite sets
  `SmallestMember` does the same.

The proofs found two premises that the properties had left to the inputs of the
run: `ClozeRestores` needs an ayat without a word that looks like a gap, since
`generateAyatCloze` marks the gap in the text itself; and the count of a weak area
needs cards without a tag twice, since `WeakAreas` counts tags and not cards. The
properties now say so, and the run has a card with a tag twice. `PagesCoverPlaces`
counts rows by place, because that each row comes once is false of rows that share
one; `ProblemsOK` says only that a list is finite and its keys are numbers.

**The refinements.** For a client that sends one request at a time, `SerialOK`
says that what a request has read of its session, or of its attempt, is still so:
`OneAtATime` keeps every other request away from it. Then `CommitReviews` is
`Review`, `EndWrite` is `Close` and `StartSession` is `Open`; `SubmitCommit` and
`SubmitCommitFSRS` are `Answer`, `CompleteWrite` is `Close`, `StartCreate` is
`Open`, `DeleteQuestion` is `Withdraw` and `DeleteQuiz` is `Remove`; every other
step leaves the ledger as it is. An `Answer` must be the first to its question,
so `SerialOK` carries what the duplicate lookup found from the lookup to the
commit, across the statements between them. `NoLookupError` is needed for that: a
lookup that fails counts as "no answer" in the code, and a question can then be
answered twice by one client that waits for its replies (`attempt_twice` shows
the same outcome where two requests race). The run `attempt_serial` has the same
premise as `MaxLookupErrors = 0`.

**Only model-checked.** Liveness (`EveryRequestEnds`, in three runs) is out of the
prover's reach. Every other property of the passing runs is a theorem.

## Not modelled, and why

Durations and timestamps, texts, ratings and the numbers of FSRS beside the
state: no property depends on them. The order in which an attempt shows its
questions (`shuffle`). Profiles beyond their columns, device notices and audit
logs: nothing reads them back into a decision. Routing, encoding, logging and
headers, mail, captcha, the password policy and the exchange with Google are
stateless or calls of outside services. The export is one read per table. The
worker's tasks are stubs. Ingestion and retrieval are numeric. The overview, the
heatmap and the forecast pass rows on. The streak and the leaderboard read a
table that nothing writes. Mocks are represented by the interfaces they implement.

## Plan

Done: `QuizAttempt`, `StudySession` and `RagConversation` with their ledgers and
proofs; `Accounts` and `Library` over their tables; `QuizQuestions`, `StudyQueue`,
`Statistics` and `Pages` in `Calculations`; `RateLimiter`, `Accounts`, `Library` and
`Calculations` with their proofs. Left, in order:

1. `Transaction`: what a unit of work promises, nested uses included, with the
   transactions of the other modules as instances of it. No handler nests two
   today.
2. `Learning`: answers and reviews over the same cards and logs, composed from
   `QuizAttempt` and `StudySession`, with the lock order between them.
3. An abstract specification of a conversation, a set of questions each with an
   answer or none, and its refinement.
