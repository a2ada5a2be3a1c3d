--------------------------- MODULE RagConversation ---------------------------
(***************************************************************************)
(* Asking questions about books.  The Go API (internal/service/rag.go,     *)
(* internal/handler/rag.go) checks the caller's daily limit and that the   *)
(* conversation is the caller's, and forwards the question to rag-service, *)
(* which stores the question, finds passages, asks a language model and    *)
(* stores the answer in the database of the API.                           *)
(*                                                                         *)
(* A request is one value of Requests and has two halves, the Go handler   *)
(* (go) and the Python one (rag), which may outlive the first.  /query     *)
(* runs in a thread of its own.  /query/stream is a coroutine that gives   *)
(* up the event loop only where it yields an event, and calls the database *)
(* and the model in between: while it does, nothing else on the loop runs. *)
(***************************************************************************)
EXTENDS Naturals, FiniteSets

CONSTANTS Users, Conversations, Requests,
          None,          \* SQL NULL, or an id that is not there
          Limit,         \* RAG_DAILY_LIMIT; one that is not positive is no limit
          HistoryRows    \* twice CONVERSATION_HISTORY_TURNS

ASSUME ConstantsOK ==
  /\ Limit \in Nat \ {0} /\ HistoryRows \in Nat \ {0}
  /\ None \notin Users \cup Conversations \cup Requests

VARIABLES
  purged,     \* the users whose account has been purged
  convs,      \* conversations; a title is the request whose question it sums up
  messages,   \* messages
  clock,      \* the number of messages inserted, each at a time of its own
  horizon,    \* the last of these times that lies more than 24 hours back
  jobs,       \* the title jobs of rag-service's executor
  req,        \* the requests
  peak        \* history: the most questions of a user on their way at once

db   == <<purged, convs, messages>>
time == <<clock, horizon>>
vars == <<db, time, jobs, req, peak>>

Message == [by: Requests, role: {"user", "assistant"}, conv: Conversations, at: Nat]
Conversation == [owner: Users \cup {None}, life: {"free", "live", "purged"},
                 title: Requests \cup {None}, count: Nat]
Job == [by: Requests, conv: Conversations]

\* Where the Python half may be: a stream's coroutine is suspended at a yield,
\* and holds the event loop from one yield to the next.
Yields  == {"told", "found", "quoted"}
Asking  == {"start", "create", "ask", "asking"}
Working == {"create", "ask", "asking", "retrieve", "chat", "answer", "answering"}
InTx    == {"asking", "answering"}
Answering == {"history", "retrieve", "chat", "answer", "answering", "reply"} \cup Yields
Ended   == {"ok", "refused", "failed"}

Request == [go: {"new", "owner", "send", "waiting"} \cup Ended,
            rag: {"idle"} \cup Asking \cup Answering,
            kind: {"query", "stream"},
            user: Users \cup {None}, conv: Conversations \cup {None},
            fresh: BOOLEAN,        \* conv_is_new
            at: Nat, history: SUBSET Message,
            answered: BOOLEAN]     \* the reply has an answer of the model

NewRequest == [go |-> "new", rag |-> "idle", kind |-> "query", user |-> None,
               conv |-> None, fresh |-> FALSE, at |-> 0, history |-> {},
               answered |-> FALSE]
FreeConversation == [owner |-> None, life |-> "free", title |-> None, count |-> 0]
NewConversation(u) == [FreeConversation EXCEPT !.owner = u, !.life = "live"]

\* A conversation whose first question was never stored may be there.
Init ==
  /\ purged = {}
  /\ convs \in [Conversations ->
                  {FreeConversation} \cup {NewConversation(u) : u \in Users}]
  /\ messages = {} /\ clock = 0 /\ horizon = 0 /\ jobs = {}
  /\ req = [r \in Requests |-> NewRequest]
  /\ peak = [u \in Users |-> 0]
----------------------------------------------------------------------------
\* Questions that have passed the limit's check and are not stored yet.
OnTheWay(r) == req[r].go \in {"owner", "send"} \/ req[r].rag \in Asking
Racing(u)   == {r \in Requests : req[r].user = u /\ OnTheWay(r)}

\* The questions of user u in the last 24 hours.
Asked(u) == {m \in messages : /\ m.role = "user" /\ m.at > horizon
                              /\ convs[m.conv].owner = u}

Owns(u, c) == convs[c].life = "live" /\ convs[c].owner = u

\* A request that has both halves behind it keeps what the client was told.
Close(r, how) ==
  [NewRequest EXCEPT !.go = how, !.conv = req[r].conv, !.answered = req[r].answered]
End(r, how) == req' = [req EXCEPT ![r] = [NewRequest EXCEPT !.go = how]]

\* Operators named Mut... are broken variants of the definition after them;
\* nothing uses them unless one replaces its definition to show that a property
\* notices.
MutLoopBusy ==   \* the loop is not given up at a yield
  \E r \in Requests : req[r].kind = "stream" /\ req[r].rag \in Working \cup Yields

LoopBusy == \E r \in Requests : req[r].kind = "stream" /\ req[r].rag \in Working

\* The rows of the model suffice for the conversations still to be created.
IdsLeft == Cardinality({c \in Conversations : convs[c].life = "free"})
             > Cardinality({r \in Requests : OnTheWay(r) /\ req[r].conv = None})

(***************************************************************************)
(* The Go half.                                                            *)
(***************************************************************************)
CheckDailyLimit(r, u, c, kind) ==
  /\ req[r].go = "new"
  /\ c = None => IdsLeft
  /\ \/ /\ Cardinality(Asked(u)) < Limit
        /\ req' = [req EXCEPT ![r] =
                     [NewRequest EXCEPT !.go = IF c = None THEN "send" ELSE "owner",
                                        !.kind = kind, !.user = u, !.conv = c]]
        /\ LET n == Cardinality(Racing(u) \cup {r}) IN
             peak' = [peak EXCEPT ![u] = IF @ < n THEN n ELSE @]
     \/ /\ Cardinality(Asked(u)) >= Limit
        /\ End(r, "refused") /\ UNCHANGED peak
  /\ UNCHANGED <<db, time, jobs>>

MutVerifyConversationOwner(r) ==   \* anybody's conversation will do
  /\ req[r].go = "owner"
  /\ req' = [req EXCEPT ![r].go = "send"]
  /\ UNCHANGED <<db, time, jobs, peak>>

VerifyConversationOwner(r) ==
  /\ req[r].go = "owner"
  /\ IF Owns(req[r].user, req[r].conv) THEN req' = [req EXCEPT ![r].go = "send"]
                                       ELSE End(r, "refused")
  /\ UNCHANGED <<db, time, jobs, peak>>

Send(r) ==
  /\ req[r].go = "send"
  /\ req' = [req EXCEPT ![r].go = "waiting", ![r].rag = "start"]
  /\ UNCHANGED <<db, time, jobs, peak>>

\* The timeout, or a client that went away: rag-service may not notice.
GiveUp(r) ==
  /\ req[r].go = "waiting"
  /\ req' = [req EXCEPT ![r].go = "failed"]
  /\ UNCHANGED <<db, time, jobs, peak>>
----------------------------------------------------------------------------
(***************************************************************************)
(* The Python half, query and query_stream.                                *)
(***************************************************************************)
Goto(r, next) == req' = [req EXCEPT ![r].rag = next]

MutBegin(r) ==   \* a question in an existing conversation is not stored
  /\ req[r].rag = "start" /\ ~LoopBusy
  /\ Goto(r, IF req[r].conv = None THEN "create" ELSE "retrieve")
  /\ UNCHANGED <<db, time, jobs, peak>>

Begin(r) ==
  /\ req[r].rag = "start" /\ ~LoopBusy
  /\ Goto(r, IF req[r].conv = None THEN "create" ELSE "ask")
  /\ UNCHANGED <<db, time, jobs, peak>>

CreateConversation(r, c) ==
  /\ req[r].rag = "create"
  /\ \/ /\ req[r].user \notin purged /\ convs[c] = FreeConversation
        /\ convs' = [convs EXCEPT ![c] = NewConversation(req[r].user)]
        /\ req' = [req EXCEPT ![r].rag = "ask", ![r].conv = c, ![r].fresh = TRUE]
     \/ /\ req[r].user \in purged
        /\ End(r, "failed") /\ UNCHANGED convs
  /\ UNCHANGED <<purged, messages, time, jobs, peak>>

(***************************************************************************)
(* save_user_message and save_assistant_message: the INSERT, whose time is *)
(* that of its transaction's beginning and whose foreign key needs the     *)
(* conversation, and the incrementing UPDATE with the COMMIT.              *)
(***************************************************************************)
MutInsert(r, next) ==   \* the INSERT is committed on its own
  /\ convs[req[r].conv].life = "live"
  /\ clock' = clock + 1
  /\ req' = [req EXCEPT ![r].rag = next, ![r].at = clock + 1]
  /\ messages' = messages \cup
       {[by |-> r, role |-> IF next = "asking" THEN "user" ELSE "assistant",
         conv |-> req[r].conv, at |-> clock + 1]}
  /\ UNCHANGED <<purged, convs, horizon, jobs, peak>>

Insert(r, next) ==
  /\ \/ /\ convs[req[r].conv].life = "live"
        /\ clock' = clock + 1
        /\ req' = [req EXCEPT ![r].rag = next, ![r].at = clock + 1]
     \/ /\ convs[req[r].conv].life # "live"
        /\ End(r, "failed") /\ UNCHANGED clock
  /\ UNCHANGED <<db, horizon, jobs, peak>>

Store(r, role) ==
  /\ messages' = messages \cup
       {[by |-> r, role |-> role, conv |-> req[r].conv, at |-> req[r].at]}
  /\ convs' = [convs EXCEPT ![req[r].conv].count = @ + 1]
  /\ UNCHANGED <<purged, time, peak>>

InsertQuestion(r) == req[r].rag = "ask" /\ Insert(r, "asking")
InsertAnswer(r)   == req[r].rag = "answer" /\ Insert(r, "answering")

StoreQuestion(r) ==
  /\ req[r].rag = "asking" /\ Store(r, "user")
  /\ Goto(r, IF req[r].kind = "query" THEN "history" ELSE "told")
  /\ UNCHANGED jobs

\* The title job is submitted unless the answer is empty.
StoreAnswer(r) ==
  /\ req[r].rag = "answering" /\ Store(r, "assistant")
  /\ req' = [req EXCEPT ![r].rag = "reply", ![r].answered = TRUE]
  /\ \/ req[r].fresh /\ jobs' = jobs \cup {[by |-> r, conv |-> req[r].conv]}
     \/ UNCHANGED jobs

\* The last n messages of a conversation, and those without a last question.
Last(M, n) == {m \in M : Cardinality({k \in M : k.at > m.at}) < n}
MutWithoutLastQuestion(M) == M   \* the question is left in
WithoutLastQuestion(M) == {m \in M : m.role = "user" => \E k \in M : k.at > m.at}

LoadHistory(r) ==
  /\ req[r].rag = "history"
  /\ req' = [req EXCEPT ![r].rag = "retrieve",
               ![r].history = WithoutLastQuestion(
                  Last({m \in messages : m.conv = req[r].conv}, HistoryRows))]
  /\ UNCHANGED <<db, time, jobs, peak>>

\* The coroutine goes on after an event.
Resume(r) ==
  /\ req[r].rag \in Yields /\ ~LoopBusy
  /\ Goto(r, CASE req[r].rag = "told"   -> "retrieve"
               [] req[r].rag = "found"  -> "chat"
               [] req[r].rag = "quoted" -> "answer")
  /\ UNCHANGED <<db, time, jobs, peak>>

\* No passage is found: the reply says so, and is not stored.
Retrieve(r) ==
  /\ req[r].rag = "retrieve"
  /\ \/ Goto(r, "reply")
     \/ Goto(r, IF req[r].kind = "query" THEN "chat" ELSE "found")
  /\ UNCHANGED <<db, time, jobs, peak>>

MutChat(r) ==   \* the answer of a query is returned before it is stored
  /\ req[r].rag = "chat"
  /\ req' = [req EXCEPT ![r].rag = IF req[r].kind = "query" THEN "reply" ELSE "quoted",
                        ![r].history = {}, ![r].answered = TRUE]
  /\ UNCHANGED <<db, time, jobs, peak>>

Chat(r) ==
  /\ req[r].rag = "chat"
  /\ req' = [req EXCEPT ![r].rag = IF req[r].kind = "query" THEN "answer" ELSE "quoted",
                        ![r].history = {}]
  /\ UNCHANGED <<db, time, jobs, peak>>

\* The result, or the event "done", reaches the Go half if it still waits.
Reply(r) ==
  /\ req[r].rag = "reply" /\ ~LoopBusy
  /\ req' = [req EXCEPT ![r] =
               Close(r, IF req[r].go = "waiting" THEN "ok" ELSE req[r].go)]
  /\ UNCHANGED <<db, time, jobs, peak>>

\* The connection of a stream is closed: its coroutine ends where it yields.
StreamCut(r) ==
  /\ req[r].kind = "stream" /\ req[r].go = "failed" /\ req[r].rag \in Yields
  /\ End(r, "failed")
  /\ UNCHANGED <<db, time, jobs, peak>>

\* An exception of the database, of the retrieval or of the model, a lost
\* connection, or the end of either process.
Fail(r) ==
  /\ req[r].go \in {"owner", "send"} \/ req[r].rag # "idle"
  /\ End(r, "failed")
  /\ UNCHANGED <<db, time, jobs, peak>>
----------------------------------------------------------------------------
\* _regen_title_job: the model may fail, the executor may be shut down before
\* the job runs, and the conversation may be gone.
RegenTitle(j) ==
  /\ jobs' = jobs \ {j}
  /\ \/ /\ convs[j.conv].life = "live"
        /\ convs' = [convs EXCEPT ![j.conv].title = j.by]
     \/ UNCHANGED convs
  /\ UNCHANGED <<purged, messages, time, req, peak>>

\* PurgeExpiredAccounts: the DELETE cascades, once no INSERT holds a key.
Purge(u) ==
  /\ u \notin purged
  /\ \A r \in Requests : req[r].rag \in InTx => convs[req[r].conv].owner # u
  /\ purged' = purged \cup {u}
  /\ convs' = [c \in Conversations |->
                 IF convs[c].owner = u
                 THEN [convs[c] EXCEPT !.life = "purged", !.title = None, !.count = 0]
                 ELSE convs[c]]
  /\ messages' = {m \in messages : convs[m.conv].owner # u}
  /\ UNCHANGED <<time, jobs, req, peak>>

TimePasses ==
  /\ horizon < clock
  /\ horizon' = horizon + 1
  /\ UNCHANGED <<db, clock, jobs, req, peak>>
----------------------------------------------------------------------------
\* What either half of a request does next, once it is under way.
Step(r) ==
  \/ VerifyConversationOwner(r) \/ Send(r)
  \/ Begin(r) \/ \E c \in Conversations : CreateConversation(r, c)
  \/ InsertQuestion(r) \/ StoreQuestion(r) \/ LoadHistory(r)
  \/ Resume(r) \/ Retrieve(r) \/ Chat(r)
  \/ InsertAnswer(r) \/ StoreAnswer(r) \/ Reply(r)

Arrive(r) ==
  \E u \in Users, c \in Conversations \cup {None}, kind \in {"query", "stream"} :
    CheckDailyLimit(r, u, c, kind)

Next ==
  \/ \E r \in Requests : Arrive(r) \/ Step(r) \/ GiveUp(r) \/ StreamCut(r) \/ Fail(r)
  \/ \E j \in jobs : RegenTitle(j)
  \/ \E u \in Users : Purge(u)
  \/ TimePasses

Spec == Init /\ [][Next]_vars

\* Goroutines, threads and the event loop are scheduled; every call of the
\* model and of the database returns, or fails at its timeout.
FairSpec == Spec /\ \A r \in Requests : WF_vars(Step(r))
----------------------------------------------------------------------------
TypeOK ==
  /\ purged \subseteq Users
  /\ convs \in [Conversations -> Conversation]
  /\ messages \subseteq Message
  /\ clock \in Nat /\ horizon \in 0..clock
  /\ jobs \subseteq Job
  /\ req \in [Requests -> Request]
  /\ peak \in [Users -> Nat]

(***************************************************************************)
(* A user exceeds the daily limit only by the questions that were on their *)
(* way together, between the check in one service and the INSERT in the    *)
(* other: not at all when they come one after the other, and not through   *)
(* another user's conversation.                                            *)
(***************************************************************************)
LimitExceededByRacesOnly ==
  \A u \in Users : Cardinality(Asked(u)) <= (Limit - 1) + peak[u]

\* message_count is the number of messages, whatever is on its way or failed.
CountIsMessages ==
  \A c \in Conversations :
    convs[c].count = Cardinality({m \in messages : m.conv = c})

\* What the client was told is stored: its question, and the answer unless the
\* reply said that nothing was found.  A purge of the account takes it away.
RepliesStored ==
  \A r \in Requests :
    req[r].go = "ok" /\ convs[req[r].conv].life = "live"
      => \A role \in IF req[r].answered THEN {"user", "assistant"} ELSE {"user"} :
           \E m \in messages : m.by = r /\ m.role = role /\ m.conv = req[r].conv

\* Every answer comes after its question, in the question's conversation.
AnswersFollowQuestions ==
  \A a \in messages : a.role = "assistant" =>
    \E q \in messages : /\ q.role = "user" /\ q.by = a.by
                         /\ q.conv = a.conv /\ q.at < a.at

(***************************************************************************)
(* The model is sent the question in the prompt and, with the history, not *)
(* once more, unless a message of another request came after it (then what *)
(* is dropped from the history is not the question, or nothing).           *)
(***************************************************************************)
QuestionNotInItsHistory ==
  \A r \in Requests : \A m \in req[r].history :
    m.by = r /\ convs[m.conv].life = "live"
      => \E k \in messages : k.by # r /\ k.conv = m.conv /\ k.at > m.at

\* The title of a conversation is that of its first question, and is given once.
TitleKept ==
  [][\A c \in Conversations :
       convs[c].title # None /\ convs'[c].life = "live"
         => convs'[c].title = convs[c].title]_vars

\* Both halves of a request end, though streams hold the event loop meanwhile.
EveryRequestEnds ==
  \A r \in Requests :
    req[r].go # "new" ~> req[r].go \in Ended /\ req[r].rag = "idle"
----------------------------------------------------------------------------
(***************************************************************************)
(* The inductive invariant of RagConversationProofs.                       *)
(***************************************************************************)
NotSent(r) == req[r].go \in {"new", "owner", "send"}
HasConv(r) == req[r].rag \in {"ask", "asking"} \cup Answering

\* From the check of its owner on, a conversation is the user's; an INSERT
\* keeps it from being purged until the COMMIT.
RequestOK(r) ==
  /\ req[r].go \notin {"waiting", "failed"} => req[r].rag = "idle"
  /\ req[r].go = "waiting" => req[r].rag # "idle"
  /\ OnTheWay(r) => req[r].user \in Users
  /\ req[r].go \in {"owner", "ok"} \/ HasConv(r) => req[r].conv \in Conversations
  /\ (req[r].go = "send" \/ req[r].rag # "idle") /\ req[r].conv # None
       => convs[req[r].conv].life # "free" /\ convs[req[r].conv].owner = req[r].user
  /\ req[r].go = "ok" => convs[req[r].conv].life # "free"
  /\ \A m \in req[r].history : convs[m.conv].life # "free"
  /\ req[r].rag \in InTx => convs[req[r].conv].life = "live" /\ req[r].at <= clock
  /\ req[r].fresh => HasConv(r)
  /\ req[r].answered => ~NotSent(r) /\ req[r].rag \in {"idle", "reply"}

\* A request has no messages but those it has stored, one of each role.
MessagesOK ==
  /\ IsFiniteSet(messages)
  /\ \A m \in messages :
       /\ convs[m.conv].life = "live" /\ m.at <= clock
       /\ ~NotSent(m.by) /\ req[m.by].rag \in {"idle"} \cup Answering
       /\ m.role = "assistant" => req[m.by].rag \in {"idle", "reply"}
       /\ \A n \in messages : m.by = n.by /\ m.role = n.role => m = n

\* The question of a request that goes on is there, and older than its answer.
StoredOK(r) ==
  req[r].rag \in Answering /\ convs[req[r].conv].life = "live" =>
    /\ \E q \in messages : /\ q.by = r /\ q.role = "user" /\ q.conv = req[r].conv
                           /\ req[r].rag = "answering" => q.at < req[r].at
    /\ req[r].answered =>
         \E a \in messages : a.by = r /\ a.role = "assistant" /\ a.conv = req[r].conv

\* Only the request that created a conversation asks for its title.
Untitled(r) == req[r].fresh /\ req[r].rag # "reply"
TitlesOK ==
  /\ \A c \in Conversations : convs[c].life = "free" => convs[c] = FreeConversation
  /\ \A r \in Requests : Untitled(r) =>
       /\ convs[req[r].conv].title = None
       /\ \A j \in jobs : j.conv # req[r].conv
       /\ \A s \in Requests : Untitled(s) /\ req[s].conv = req[r].conv => s = r
  /\ \A j \in jobs :
       /\ convs[j.conv].title = None /\ convs[j.conv].life # "free"
       /\ \A i \in jobs : i.conv = j.conv => i = j

\* A question that has passed the check counts before it is stored.
RacesOK ==
  \A u \in Users :
    /\ IsFiniteSet(Racing(u))
    /\ Cardinality(Asked(u)) + Cardinality(Racing(u)) <= (Limit - 1) + peak[u]

IInv ==
  /\ TypeOK
  /\ \A r \in Requests : RequestOK(r) /\ StoredOK(r)
  /\ MessagesOK /\ TitlesOK /\ RacesOK
  /\ CountIsMessages /\ RepliesStored /\ AnswersFollowQuestions
  /\ QuestionNotInItsHistory
============================================================================
