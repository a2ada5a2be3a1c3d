------------------------ MODULE RagConversationProofs ------------------------
(***************************************************************************)
(* Theorems about RagConversation, for any number of users, conversations  *)
(* and requests, any limit and any length of the history.                  *)
(***************************************************************************)
EXTENDS RagConversation, FiniteSetTheorems, TLAPS

\* Where the Python half may be, spelled out.
LEMMA Places ==
  /\ Asking = {"start", "create", "ask", "asking"}
  /\ Answering = {"history", "retrieve", "chat", "answer", "answering", "reply",
                  "told", "found", "quoted"}
BY DEF Asking, Answering, Yields

\* A request not yet under way, or at its end, is well typed.
LEMMA NewRequestType ==
  /\ NewRequest \in Request
  /\ \A how \in Ended : [NewRequest EXCEPT !.go = how] \in Request
BY DEF NewRequest, Request, Ended, Asking, Answering

(***************************************************************************)
(* What IInv says of a request survives what others do, as long as         *)
(* messages are only added and conversations in use stay as they are.      *)
(***************************************************************************)
LEMMA OtherRequest ==
  ASSUME IInv, NEW s \in Requests, req'[s] = req[s],
         messages \subseteq messages', clock' \in Nat, clock <= clock',
         \A c \in Conversations : convs[c].life # "free" =>
           convs'[c].life = convs[c].life /\ convs'[c].owner = convs[c].owner
  PROVE  RequestOK(s)' /\ StoredOK(s)'
<1>1. RequestOK(s) /\ StoredOK(s) /\ req[s] \in Request /\ clock \in Nat
  BY DEF IInv, TypeOK
<1>2. RequestOK(s)'
  <2>1. req[s].at \in Nat /\ req[s].conv \in Conversations \cup {None}
    BY <1>1 DEF Request
  <2>2. req[s].rag \in InTx => req[s].conv \in Conversations /\ req[s].at <= clock'
    BY <1>1, <2>1, Places DEF RequestOK, HasConv, InTx
  <2>3. req[s].rag \in InTx => convs'[req[s].conv].life = "live"
    BY <1>1, <2>2 DEF RequestOK
  <2>4. req[s].go = "ok" => convs'[req[s].conv].life # "free"
    BY <1>1 DEF RequestOK
  <2>5. \A m \in req[s].history : convs'[m.conv].life # "free"
    BY <1>1 DEF RequestOK, Request, Message
  <2> QED
    BY <1>1, <2>1, <2>2, <2>3, <2>4, <2>5 DEF RequestOK, NotSent, OnTheWay, HasConv
<1>3. StoredOK(s)'
  <2> SUFFICES ASSUME req[s].rag \in Answering, convs'[req[s].conv].life = "live"
               PROVE  StoredOK(s)'
    BY DEF StoredOK
  <2>1. req[s].conv \in Conversations /\ req[s].rag # "idle"
    BY <1>1, Places DEF RequestOK, HasConv
  <2>2. convs[req[s].conv].life # "free"
    BY <1>1, <2>1, ConstantsOK DEF RequestOK
  <2>3. convs[req[s].conv].life = "live"
    BY <2>1, <2>2
  <2> QED
    BY <1>1, <2>3 DEF StoredOK
<1> QED
  BY <1>2, <1>3

(***************************************************************************)
(* Steps that change one request and no table.  What the request becomes   *)
(* must be right by itself and claim nothing new of what it has stored,    *)
(* of the limit, or of a title.                                            *)
(***************************************************************************)
KeepsItsPlace(r, x) == OnTheWay(r) /\ x.user = req[r].user

ClaimsNothing(r, x) ==
  /\ x.fresh /\ x.rag # "reply" => Untitled(r) /\ x.conv = req[r].conv
  /\ ~NotSent(r) => x.go \notin {"new", "owner", "send"}
  /\ ~NotSent(r) /\ req[r].rag \in {"idle"} \cup Answering
       => x.rag \in {"idle"} \cup Answering
  /\ ~NotSent(r) /\ req[r].rag \in {"idle", "reply"} => x.rag \in {"idle", "reply"}
  /\ x.go = "ok" /\ convs[x.conv].life = "live"
       => \A role \in IF x.answered THEN {"user", "assistant"} ELSE {"user"} :
            \E m \in messages : m.by = r /\ m.role = role /\ m.conv = x.conv
  /\ \A m \in x.history : m.by = r /\ convs[m.conv].life = "live"
       => \E k \in messages : k.by # r /\ k.conv = m.conv /\ k.at > m.at

LEMMA RequestKept ==
  ASSUME IInv, NEW r \in Requests, NEW x \in Request,
         req' = [req EXCEPT ![r] = x], UNCHANGED <<db, horizon, jobs>>,
         peak' \in [Users -> Nat], RacesOK', clock' \in Nat, clock <= clock',
         RequestOK(r)', StoredOK(r)', ClaimsNothing(r, x)
  PROVE  IInv'
<1>1. /\ req \in [Requests -> Request] /\ req' \in [Requests -> Request]
      /\ req'[r] = x /\ \A s \in Requests \ {r} : req'[s] = req[s]
  BY DEF IInv, TypeOK
<1>2. /\ purged' = purged /\ convs' = convs /\ messages' = messages
      /\ horizon' = horizon /\ jobs' = jobs
  BY DEF db
<1>3. clock \in Nat /\ horizon \in 0..clock /\ horizon' \in 0..clock'
  BY <1>2 DEF IInv, TypeOK
<1>4. TypeOK'
  BY <1>1, <1>2, <1>3 DEF IInv, TypeOK
<1>5. \A s \in Requests : RequestOK(s)' /\ StoredOK(s)'
  <2>1. \A s \in Requests \ {r} : RequestOK(s)' /\ StoredOK(s)'
    BY <1>1, <1>2, OtherRequest
  <2> QED
    BY <2>1
<1>6. MessagesOK'
  <2> SUFFICES ASSUME NEW m \in messages
               PROVE  /\ convs[m.conv].life = "live" /\ m.at <= clock'
                      /\ ~NotSent(m.by)' /\ req'[m.by].rag \in {"idle"} \cup Answering
                      /\ m.role = "assistant" => req'[m.by].rag \in {"idle", "reply"}
                      /\ \A n \in messages : m.by = n.by /\ m.role = n.role => m = n
    BY <1>2 DEF MessagesOK, IInv
  <2>1. m.by \in Requests /\ m.at \in Nat
    BY DEF IInv, TypeOK, Message
  <2>2. /\ convs[m.conv].life = "live" /\ m.at <= clock
        /\ ~NotSent(m.by) /\ req[m.by].rag \in {"idle"} \cup Answering
        /\ m.role = "assistant" => req[m.by].rag \in {"idle", "reply"}
        /\ \A n \in messages : m.by = n.by /\ m.role = n.role => m = n
    BY DEF IInv, MessagesOK
  <2>3. m.at <= clock'
    BY <1>3, <2>1, <2>2
  <2>4. CASE m.by = r
    BY <1>1, <2>2, <2>3, <2>4 DEF NotSent, ClaimsNothing
  <2>5. CASE m.by # r
    BY <1>1, <2>1, <2>2, <2>3, <2>5 DEF NotSent
  <2> QED
    BY <2>4, <2>5
<1>7. TitlesOK'
  <2>1. \A s \in Requests : Untitled(s)' => Untitled(s) /\ req'[s].conv = req[s].conv
    BY <1>1 DEF Untitled, ClaimsNothing
  <2> QED
    BY <1>2, <2>1 DEF IInv, TitlesOK
<1>8. (CountIsMessages /\ AnswersFollowQuestions)'
  BY <1>2 DEF IInv, CountIsMessages, AnswersFollowQuestions
<1>9. RepliesStored'
  <2> SUFFICES ASSUME NEW s \in Requests, req'[s].go = "ok",
                      convs[req'[s].conv].life = "live",
                      NEW role \in IF req'[s].answered THEN {"user", "assistant"}
                                                       ELSE {"user"}
               PROVE  \E m \in messages : m.by = s /\ m.role = role /\ m.conv = req'[s].conv
    BY <1>2 DEF RepliesStored
  <2>1. CASE s = r
    BY <1>1, <2>1 DEF ClaimsNothing
  <2>2. CASE s # r
    BY <1>1, <2>2 DEF IInv, RepliesStored
  <2> QED
    BY <2>1, <2>2
<1>10. QuestionNotInItsHistory'
  <2> SUFFICES ASSUME NEW s \in Requests, NEW m \in req'[s].history, m.by = s,
                      convs[m.conv].life = "live"
               PROVE  \E k \in messages : k.by # s /\ k.conv = m.conv /\ k.at > m.at
    BY <1>2 DEF QuestionNotInItsHistory
  <2>1. CASE s = r
    BY <1>1, <2>1 DEF ClaimsNothing
  <2>2. CASE s # r
    BY <1>1, <2>2 DEF IInv, QuestionNotInItsHistory
  <2> QED
    BY <2>1, <2>2
<1> QED
  BY <1>4, <1>5, <1>6, <1>7, <1>8, <1>9, <1>10 DEF IInv

\* If it was to be on its way before, the request leaves the limit as it was.
LEMMA RequestStep ==
  ASSUME IInv, NEW r \in Requests, NEW x \in Request,
         req' = [req EXCEPT ![r] = x], UNCHANGED <<db, horizon, jobs, peak>>,
         clock' \in Nat, clock <= clock',
         RequestOK(r)', StoredOK(r)', OnTheWay(r)' => KeepsItsPlace(r, x),
         ClaimsNothing(r, x)
  PROVE  IInv'
<1>1. /\ req' \in [Requests -> Request]
      /\ req'[r] = x /\ \A s \in Requests \ {r} : req'[s] = req[s]
  BY DEF IInv, TypeOK
<1>2. /\ convs' = convs /\ messages' = messages /\ horizon' = horizon
      /\ peak' = peak /\ peak \in [Users -> Nat]
  BY DEF db, IInv, TypeOK
<1>3. RacesOK'
  <2> SUFFICES ASSUME NEW u \in Users
               PROVE  /\ IsFiniteSet(Racing(u)')
                      /\ Cardinality(Asked(u)) + Cardinality(Racing(u)') <= (Limit - 1) + peak[u]
    BY <1>2 DEF RacesOK, Asked
  <2>1. Racing(u)' \subseteq Racing(u)
    BY <1>1 DEF Racing, OnTheWay, KeepsItsPlace
  <2>2. /\ IsFiniteSet(Racing(u))
        /\ Cardinality(Asked(u)) + Cardinality(Racing(u)) <= (Limit - 1) + peak[u]
    BY DEF IInv, RacesOK
  <2>3. /\ IsFiniteSet(Racing(u)')
        /\ Cardinality(Racing(u)') <= Cardinality(Racing(u))
    BY <2>1, <2>2, FS_Subset
  <2>4. Asked(u) \subseteq messages /\ IsFiniteSet(messages)
    BY DEF Asked, IInv, MessagesOK
  <2>5. Cardinality(Asked(u)) \in Nat /\ Cardinality(Racing(u)') \in Nat
        /\ Cardinality(Racing(u)) \in Nat
    BY <2>2, <2>3, <2>4, FS_Subset, FS_CardinalityType
  <2>6. Limit \in Nat /\ peak[u] \in Nat
    BY ConstantsOK DEF IInv, TypeOK
  <2> QED
    BY <2>2, <2>3, <2>5, <2>6
<1> QED
  BY <1>2, <1>3, RequestKept

\* A request that ends without an effect.
LEMMA EndStep ==
  ASSUME IInv, NEW r \in Requests, NEW how \in {"refused", "failed"},
         End(r, how), UNCHANGED <<db, time, jobs, peak>>
  PROVE  IInv'
<1> DEFINE x == [NewRequest EXCEPT !.go = how]
<1>1. x \in Request
  BY NewRequestType DEF Ended
<1>2. /\ req' = [req EXCEPT ![r] = x] /\ req'[r] = x
      /\ clock' = clock /\ clock \in Nat /\ horizon' = horizon
  BY DEF End, IInv, TypeOK, time
<1>3. /\ x.go = how /\ x.rag = "idle" /\ x.conv = None /\ ~x.fresh /\ ~x.answered
      /\ x.history = {}
  BY DEF NewRequest
<1> HIDE DEF x
<1>4. RequestOK(r)'
  BY <1>2, <1>3, Places DEF RequestOK, NotSent, OnTheWay, HasConv, InTx
<1>5. StoredOK(r)' /\ ~OnTheWay(r)'
  BY <1>2, <1>3, Places DEF StoredOK, OnTheWay
<1>6. UNCHANGED <<db, horizon, jobs, peak>> /\ clock <= clock'
  BY <1>2
<1>7. ClaimsNothing(r, x)
  BY <1>3 DEF ClaimsNothing
<1> QED
  BY <1>1, <1>2, <1>4, <1>5, <1>6, <1>7, RequestStep

\* The Go half: the owner is verified, and the question is sent.
LEMMA VerifyOwnerStep ==
  ASSUME IInv, NEW r \in Requests, VerifyConversationOwner(r)
  PROVE  IInv'
<1>1. CASE ~Owns(req[r].user, req[r].conv)
  BY <1>1, EndStep DEF VerifyConversationOwner
<1>2. CASE Owns(req[r].user, req[r].conv)
  <2> DEFINE x == [req[r] EXCEPT !.go = "send"]
  <2>1. req[r] \in Request /\ req[r].go = "owner" /\ clock \in Nat
    BY DEF VerifyConversationOwner, IInv, TypeOK
  <2>2. /\ req' = [req EXCEPT ![r] = x] /\ req'[r] = x
        /\ UNCHANGED <<db, time, jobs, peak>>
    BY <1>2 DEF VerifyConversationOwner, IInv, TypeOK
  <2>3. RequestOK(r) /\ req[r].rag = "idle" /\ ~req[r].answered
    BY <2>1 DEF IInv, RequestOK, NotSent
  <2>4. x \in Request
    BY <2>1 DEF Request
  <2>5. /\ x.go = "send" /\ x.rag = "idle" /\ x.conv = req[r].conv
        /\ x.user = req[r].user /\ x.fresh = req[r].fresh
        /\ x.answered = req[r].answered /\ x.history = req[r].history
    BY <2>1, <2>3 DEF Request
  <2>6. RequestOK(r)'
    BY <1>2, <2>1, <2>2, <2>3, <2>5, Places
       DEF RequestOK, NotSent, OnTheWay, HasConv, InTx, Owns, db
  <2>7. StoredOK(r)' /\ OnTheWay(r) /\ NotSent(r) /\ (x.fresh => Untitled(r))
    BY <2>1, <2>2, <2>3, <2>5, Places DEF StoredOK, OnTheWay, NotSent, Untitled
  <2>8. ClaimsNothing(r, x) /\ KeepsItsPlace(r, x)
    BY <2>5, <2>7 DEF ClaimsNothing, KeepsItsPlace, IInv, QuestionNotInItsHistory
  <2>9. clock' = clock /\ clock <= clock' /\ UNCHANGED <<db, horizon, jobs, peak>>
    BY <2>1, <2>2 DEF time
  <2> HIDE DEF x
  <2> QED
    BY <2>1, <2>2, <2>4, <2>6, <2>7, <2>8, <2>9, RequestStep
<1> QED
  BY <1>1, <1>2

(***************************************************************************)
(* The steps that only move a request on: the Python half receives it,     *)
(* goes from one place to the next, or the Go half gives up.               *)
(***************************************************************************)
Becomes(r, go, rag, history) ==
  req' = [req EXCEPT ![r] = [@ EXCEPT !.go = go, !.rag = rag, !.history = history]]

MayMove(r, go, rag, history) ==
  /\ go \in {"waiting", "failed"} /\ rag \in Asking \cup Answering
  /\ history \in {req[r].history, {}}
  /\ (req[r].go = "send" /\ rag = "start") \/ req[r].rag # "idle"
  /\ rag \in Asking => OnTheWay(r)
  /\ rag = "ask" => req[r].conv # None
  /\ rag \in Answering <=> req[r].rag \in Answering
  /\ req[r].rag \in {"ask", "asking", "reply"} \/ rag \in InTx => rag = req[r].rag

LEMMA MoveStep ==
  ASSUME IInv, NEW r \in Requests, NEW go, NEW rag, NEW history,
         Becomes(r, go, rag, history), MayMove(r, go, rag, history),
         UNCHANGED <<db, time, jobs, peak>>
  PROVE  IInv'
<1> DEFINE x == [req[r] EXCEPT !.go = go, !.rag = rag, !.history = history]
<1> USE DEF MayMove, Becomes
<1>1. /\ req[r] \in Request /\ clock \in Nat /\ RequestOK(r) /\ StoredOK(r)
      /\ req' = [req EXCEPT ![r] = x] /\ req'[r] = x
      /\ clock' = clock /\ clock <= clock' /\ UNCHANGED <<db, horizon, jobs, peak>>
  BY DEF IInv, TypeOK, time
<1>2. x \in Request
  <2>1. history \in SUBSET Message
    BY <1>1 DEF Request
  <2> QED
    BY <1>1, <2>1 DEF Request, Ended
<1>3. /\ x.go = go /\ x.rag = rag /\ x.history = history /\ x.conv = req[r].conv
      /\ x.user = req[r].user /\ x.fresh = req[r].fresh /\ x.at = req[r].at
      /\ x.answered = req[r].answered
  BY <1>1 DEF Request
<1>4. /\ req[r].conv \in Conversations \cup {None} /\ convs' = convs
      /\ messages' = messages
  BY <1>1 DEF Request, db
<1> HIDE DEF x
<1>5. /\ ~req[r].answered \/ rag = "reply"
      /\ req[r].fresh => HasConv(r)
  BY <1>1, Places DEF RequestOK, NotSent
<1>6. RequestOK(r)'
  <2>1. OnTheWay(r)' => x.user \in Users
    <3>1. OnTheWay(r)' => OnTheWay(r)
      BY <1>1, <1>3 DEF OnTheWay
    <3> QED
      BY <1>1, <1>3, <3>1 DEF RequestOK
  <2>2. HasConv(r)' => x.conv \in Conversations
    BY <1>1, <1>3, <1>4, Places DEF RequestOK, HasConv, InTx
  <2>3. HasConv(r) => HasConv(r)'
    BY <1>1, <1>3, Places DEF HasConv
  <2>4. x.conv # None => convs[x.conv].life # "free" /\ convs[x.conv].owner = x.user
    BY <1>1, <1>3 DEF RequestOK
  <2>5. x.rag \in InTx => convs[x.conv].life = "live" /\ x.at <= clock
    BY <1>1, <1>3 DEF RequestOK
  <2> QED
    BY <1>1, <1>3, <1>4, <1>5, <2>1, <2>2, <2>3, <2>4, <2>5, Places
       DEF RequestOK, NotSent
<1>7. StoredOK(r)'
  BY <1>1, <1>3, <1>4, Places DEF StoredOK, InTx
<1>8. OnTheWay(r)' => KeepsItsPlace(r, x)
  BY <1>1, <1>3 DEF OnTheWay, KeepsItsPlace
<1>9. ClaimsNothing(r, x)
  <2>1. x.fresh /\ x.rag # "reply" => Untitled(r) /\ x.conv = req[r].conv
    BY <1>3, <1>5 DEF Untitled
  <2>2. \A m \in x.history : m.by = r /\ convs[m.conv].life = "live"
          => \E k \in messages : k.by # r /\ k.conv = m.conv /\ k.at > m.at
    BY <1>3 DEF IInv, QuestionNotInItsHistory
  <2> QED
    BY <1>3, <2>1, <2>2, Places DEF ClaimsNothing, NotSent
<1> QED
  BY <1>1, <1>2, <1>6, <1>7, <1>8, <1>9, RequestStep

\* The steps of which MoveStep speaks.
LEMMA MovesStep ==
  ASSUME IInv, NEW r \in Requests,
         Send(r) \/ GiveUp(r) \/ Begin(r) \/ Resume(r) \/ Retrieve(r) \/ Chat(r)
  PROVE  IInv'
<1>1. /\ req \in [Requests -> Request] /\ req[r] \in Request /\ RequestOK(r)
      /\ req[r].rag \in {"idle"} \cup Asking \cup Answering
  BY DEF IInv, TypeOK, Request
<1>2. UNCHANGED <<db, time, jobs, peak>>
  BY DEF Send, GiveUp, Begin, Resume, Retrieve, Chat
<1>3. SUFFICES \E go, rag, history :
        Becomes(r, go, rag, history) /\ MayMove(r, go, rag, history)
  BY <1>2, MoveStep
<1>4. CASE Send(r)
  <2>1. Becomes(r, "waiting", "start", req[r].history)
    BY <1>1, <1>4 DEF Becomes, Send, Request
  <2>2. MayMove(r, "waiting", "start", req[r].history)
    BY <1>1, <1>4, Places DEF MayMove, Send, RequestOK, OnTheWay, InTx
  <2> QED
    BY <2>1, <2>2
<1>5. CASE GiveUp(r)
  <2>1. Becomes(r, "failed", req[r].rag, req[r].history)
    BY <1>1, <1>5 DEF Becomes, GiveUp, Request
  <2>2. req[r].rag # "idle" /\ (req[r].rag = "ask" => req[r].conv # None)
    BY <1>1, <1>5, ConstantsOK DEF GiveUp, RequestOK, HasConv
  <2>3. MayMove(r, "failed", req[r].rag, req[r].history)
    BY <1>1, <2>2 DEF MayMove, OnTheWay
  <2> QED
    BY <2>1, <2>3
<1>6. CASE Begin(r)
  <2> DEFINE rag == IF req[r].conv = None THEN "create" ELSE "ask"
  <2>1. req[r].go \in {"waiting", "failed"} /\ req[r].rag = "start"
    BY <1>1, <1>6 DEF Begin, RequestOK
  <2>2. Becomes(r, req[r].go, rag, req[r].history)
    BY <1>1, <1>6 DEF Becomes, Begin, Goto, Request
  <2>3. MayMove(r, req[r].go, rag, req[r].history)
    BY <1>1, <2>1, Places DEF MayMove, OnTheWay, InTx
  <2> QED
    BY <2>2, <2>3
<1>7. CASE Resume(r) \/ Retrieve(r) \/ Chat(r)
  <2>1. req[r].rag \in {"told", "found", "quoted", "retrieve", "chat"}
    BY <1>7 DEF Resume, Retrieve, Chat, Yields
  <2>2. req[r].go \in {"waiting", "failed"}
    BY <1>1, <2>1 DEF RequestOK
  <2>3. \A rag \in {"retrieve", "found", "chat", "quoted", "answer", "reply"},
           history \in {req[r].history, {}} : MayMove(r, req[r].go, rag, history)
    BY <1>1, <2>1, <2>2, Places DEF MayMove, InTx
  <2>4. CASE Resume(r)
    <3>1. PICK rag \in {"retrieve", "chat", "answer"} : Goto(r, rag)
      BY <2>4 DEF Resume, Yields
    <3>2. Becomes(r, req[r].go, rag, req[r].history)
      BY <1>1, <3>1 DEF Becomes, Goto, Request
    <3> QED
      BY <2>3, <3>2
  <2>5. CASE Retrieve(r)
    <3>1. PICK rag \in {"reply", "chat", "found"} : Goto(r, rag)
      BY <2>5 DEF Retrieve
    <3>2. Becomes(r, req[r].go, rag, req[r].history)
      BY <1>1, <3>1 DEF Becomes, Goto, Request
    <3> QED
      BY <2>3, <3>2
  <2>6. CASE Chat(r)
    <3>1. PICK rag \in {"answer", "quoted"} :
            req' = [req EXCEPT ![r].rag = rag, ![r].history = {}]
      BY <2>6 DEF Chat
    <3>2. Becomes(r, req[r].go, rag, {})
      BY <1>1, <3>1 DEF Becomes, Request
    <3> QED
      BY <2>3, <3>2
  <2> QED
    BY <1>7, <2>4, <2>5, <2>6
<1> QED
  BY <1>4, <1>5, <1>6, <1>7

\* The question and the answer are inserted: the conversation is locked, and
\* the answer is younger than the question.
LEMMA InsertStep ==
  ASSUME IInv, NEW r \in Requests, InsertQuestion(r) \/ InsertAnswer(r)
  PROVE  IInv'
<1>1. CASE convs[req[r].conv].life # "live"
  <2>1. End(r, "failed") /\ UNCHANGED <<db, time, jobs, peak>>
    BY <1>1 DEF InsertQuestion, InsertAnswer, Insert, time
  <2> QED
    BY <2>1, EndStep
<1>2. CASE convs[req[r].conv].life = "live"
  <2>1. PICK rag \in {"asking", "answering"} :
          /\ req' = [req EXCEPT ![r].rag = rag, ![r].at = clock + 1]
          /\ req[r].rag = IF rag = "asking" THEN "ask" ELSE "answer"
    BY <1>2 DEF InsertQuestion, InsertAnswer, Insert
  <2> DEFINE x == [req[r] EXCEPT !.rag = rag, !.at = clock + 1]
  <2>2. clock' = clock + 1 /\ UNCHANGED <<db, horizon, jobs, peak>>
    BY <1>2 DEF InsertQuestion, InsertAnswer, Insert
  <2>3. /\ req \in [Requests -> Request] /\ req[r] \in Request
         /\ clock \in Nat /\ clock' \in Nat /\ clock <= clock'
         /\ RequestOK(r) /\ StoredOK(r)
    BY <2>2 DEF IInv, TypeOK
  <2>4. req' = [req EXCEPT ![r] = x]
    BY <2>1, <2>3 DEF Request
  <2>5. /\ req[r] \in Request /\ clock \in Nat /\ RequestOK(r) /\ StoredOK(r)
        /\ req' = [req EXCEPT ![r] = x] /\ req'[r] = x /\ req[r].rag # "idle"
        /\ clock' \in Nat /\ clock <= clock'
    BY <2>1, <2>3, <2>4
  <2>6. x \in Request
    <3>1. clock + 1 \in Nat /\ rag \in {"idle"} \cup Asking \cup Answering
      BY <2>3, Places
    <3> QED
      BY <2>3, <3>1 DEF Request
  <2>7. /\ x.go = req[r].go /\ x.rag = rag /\ x.history = req[r].history
        /\ x.conv = req[r].conv /\ x.user = req[r].user /\ x.fresh = req[r].fresh
        /\ x.at = clock + 1 /\ x.answered = req[r].answered
    BY <2>5 DEF Request
  <2>8. /\ req[r].go \in {"waiting", "failed"} /\ ~req[r].answered /\ HasConv(r)
        /\ convs' = convs /\ messages' = messages
    BY <2>1, <2>2, <2>5, Places DEF RequestOK, HasConv, db
  <2> HIDE DEF x
  <2>9. RequestOK(r)'
    <3>1. OnTheWay(r)' => x.user \in Users
      BY <2>1, <2>5, <2>7, <2>8, Places DEF RequestOK, OnTheWay
    <3>2. x.conv \in Conversations /\ HasConv(r)'
      BY <2>1, <2>5, <2>7, <2>8, Places DEF RequestOK, HasConv
    <3>3. x.conv # None => convs[x.conv].life # "free" /\ convs[x.conv].owner = x.user
      BY <2>5, <2>7 DEF RequestOK
    <3>4. \A m \in x.history : convs[m.conv].life # "free"
      BY <2>5, <2>7 DEF RequestOK
    <3>5. convs[x.conv].life = "live" /\ x.at <= clock'
      BY <1>2, <2>2, <2>5, <2>7
    <3>6. x.rag # "idle" /\ x.go \in {"waiting", "failed"} /\ ~x.answered
      BY <2>7, <2>8
    <3> QED
      BY <2>5, <2>8, <3>1, <3>2, <3>3, <3>4, <3>5, <3>6 DEF RequestOK, NotSent
  <2>10. StoredOK(r)'
    <3> SUFFICES ASSUME rag = "answering"
                 PROVE  \E q \in messages : /\ q.by = r /\ q.role = "user"
                                            /\ q.conv = x.conv /\ q.at < x.at
      BY <2>5, <2>7, <2>8, <2>1, Places DEF StoredOK
    <3>1. PICK q \in messages : q.by = r /\ q.role = "user" /\ q.conv = x.conv
      BY <1>2, <2>1, <2>5, <2>7, Places DEF StoredOK
    <3>2. q.at \in Nat /\ q.at <= clock
      BY DEF IInv, TypeOK, Message, MessagesOK
    <3> QED
      BY <2>5, <2>7, <3>1, <3>2
  <2>11. OnTheWay(r)' => KeepsItsPlace(r, x)
    BY <2>1, <2>5, <2>7, <2>8, Places DEF OnTheWay, KeepsItsPlace
  <2>12. ClaimsNothing(r, x)
    <3>1. \A m \in x.history : m.by = r /\ convs[m.conv].life = "live"
            => \E k \in messages : k.by # r /\ k.conv = m.conv /\ k.at > m.at
      BY <2>7 DEF IInv, QuestionNotInItsHistory
    <3> QED
      BY <2>1, <2>7, <2>8, <3>1, Places DEF ClaimsNothing, NotSent, Untitled
  <2> QED
    BY <2>2, <2>5, <2>9, <2>10, <2>11, <2>12, <2>6, RequestStep
<1> QED
  BY <1>1, <1>2

\* The history of a query is read: what it holds of the query's own is its
\* question, and a message of another request is younger.
LEMMA HistoryStep ==
  ASSUME IInv, NEW r \in Requests, LoadHistory(r)
  PROVE  IInv'
<1> DEFINE M == {m \in messages : m.conv = req[r].conv}
           h == WithoutLastQuestion(Last(M, HistoryRows))
           x == [req[r] EXCEPT !.rag = "retrieve", !.history = h]
<1>1. /\ req \in [Requests -> Request] /\ req[r] \in Request
      /\ clock \in Nat /\ RequestOK(r) /\ StoredOK(r) /\ messages \subseteq Message
  BY DEF IInv, TypeOK
<1>2. /\ UNCHANGED <<db, time, jobs, peak>> /\ req[r].rag = "history"
      /\ req' = [req EXCEPT ![r].rag = "retrieve", ![r].history = h]
  BY DEF LoadHistory
<1>3. clock' = clock /\ clock <= clock' /\ UNCHANGED <<db, horizon, jobs, peak>>
  BY <1>1, <1>2 DEF time
<1>4. h \subseteq M /\ M \subseteq messages /\ h \in SUBSET Message
  BY <1>1 DEF WithoutLastQuestion, Last
<1>5. \A m \in h : m.by = r => \E k \in messages : k.by # r /\ k.conv = m.conv /\ k.at > m.at
  <2> SUFFICES ASSUME NEW m \in h, m.by = r
               PROVE  \E k \in messages : k.by # r /\ k.conv = m.conv /\ k.at > m.at
    OBVIOUS
  <2>1. \A k \in M : k.by = r => k.role = "user"
    <3> SUFFICES ASSUME NEW k \in M, k.by = r, k.role # "user" PROVE FALSE
      OBVIOUS
    <3>1. k \in messages /\ k.role = "assistant"
      BY <1>1, <1>4 DEF Message
    <3> QED
      BY <1>2, <3>1 DEF IInv, MessagesOK
  <2>2. m \in M /\ m.role = "user" /\ m.at \in Nat
    BY <1>1, <1>4, <2>1 DEF Message
  <2>3. PICK k \in M : k.at > m.at
    BY <2>2 DEF WithoutLastQuestion, Last
  <2>4. k.by # r
    <3> SUFFICES ASSUME k.by = r PROVE FALSE
      OBVIOUS
    <3>1. k = m
      BY <1>4, <2>1, <2>2 DEF IInv, MessagesOK
    <3> QED
      BY <2>2, <2>3, <3>1
  <2> QED
    BY <1>4, <2>2, <2>3, <2>4
<1> HIDE DEF h, M
<1>6. req' = [req EXCEPT ![r] = x]
  BY <1>1, <1>2 DEF Request
<1>7. x \in Request
  BY <1>1, <1>4, Places DEF Request
<1>8. /\ x.go = req[r].go /\ x.rag = "retrieve" /\ x.history = h /\ x.at = req[r].at
      /\ x.conv = req[r].conv /\ x.user = req[r].user /\ x.fresh = req[r].fresh
      /\ x.answered = req[r].answered
  BY <1>1 DEF Request
<1> HIDE DEF x
<1>9. req'[r] = x /\ convs' = convs /\ messages' = messages
  BY <1>1, <1>3, <1>6 DEF db
<1>10. req[r].go \in {"waiting", "failed"} /\ ~req[r].answered /\ HasConv(r)
  BY <1>1, <1>2, Places DEF RequestOK, HasConv
<1>11. RequestOK(r)'
  <2>1. \A m \in h : convs[m.conv].life # "free"
    BY <1>4 DEF IInv, MessagesOK
  <2> QED
    BY <1>1, <1>2, <1>8, <1>9, <1>10, <2>1, Places
       DEF RequestOK, NotSent, HasConv, OnTheWay, InTx
<1>12. StoredOK(r)' /\ ~OnTheWay(r)'
  BY <1>1, <1>2, <1>8, <1>9, <1>10, Places DEF StoredOK, OnTheWay
<1>13. ClaimsNothing(r, x)
  BY <1>2, <1>5, <1>8, <1>10, Places DEF ClaimsNothing, Untitled
<1> QED
  BY <1>1, <1>3, <1>6, <1>7, <1>11, <1>12, <1>13, RequestStep

\* The reply: what it tells is stored, for the request went through storing it.
LEMMA ReplyStep ==
  ASSUME IInv, NEW r \in Requests, Reply(r)
  PROVE  IInv'
<1> DEFINE how == IF req[r].go = "waiting" THEN "ok" ELSE req[r].go
           x   == Close(r, how)
<1>1. /\ req \in [Requests -> Request] /\ req[r] \in Request
      /\ clock \in Nat /\ RequestOK(r) /\ StoredOK(r)
  BY DEF IInv, TypeOK
<1>2. /\ UNCHANGED <<db, time, jobs, peak>> /\ req[r].rag = "reply"
      /\ req' = [req EXCEPT ![r] = x]
  BY DEF Reply
<1>3. clock' = clock /\ clock <= clock' /\ UNCHANGED <<db, horizon, jobs, peak>>
  BY <1>1, <1>2 DEF time
<1>4. how \in {"ok", "failed"} /\ HasConv(r) /\ req[r].conv \in Conversations
  BY <1>1, <1>2, Places DEF RequestOK, HasConv
<1>5. /\ x.go = how /\ x.rag = "idle" /\ x.history = {} /\ ~x.fresh
      /\ x.conv = req[r].conv /\ x.answered = req[r].answered
  BY DEF Close, NewRequest
<1>6. x \in Request
  BY <1>1, <1>4, ZenonT(60) DEF Close, NewRequest, Request, Ended
<1> HIDE DEF x, how
<1>7. req'[r] = x /\ convs' = convs /\ messages' = messages
  BY <1>1, <1>2, <1>3 DEF db
<1>8. RequestOK(r)'
  <2>1. convs[req[r].conv].life # "free"
    BY <1>1, <1>2, <1>4, ConstantsOK DEF RequestOK
  <2> QED
    BY <1>4, <1>5, <1>7, <2>1, Places DEF RequestOK, NotSent, HasConv, OnTheWay, InTx
<1>9. StoredOK(r)' /\ ~OnTheWay(r)'
  BY <1>4, <1>5, <1>7, Places DEF StoredOK, OnTheWay
<1>10. ClaimsNothing(r, x)
  <2>1. convs[x.conv].life = "live"
          => \A role \in IF x.answered THEN {"user", "assistant"} ELSE {"user"} :
               \E m \in messages : m.by = r /\ m.role = role /\ m.conv = x.conv
    BY <1>1, <1>2, <1>5, Places DEF StoredOK
  <2> QED
    BY <1>4, <1>5, <2>1 DEF ClaimsNothing
<1> QED
  BY <1>1, <1>2, <1>3, <1>6, <1>8, <1>9, <1>10, RequestStep

\* The number of a user's questions that are stored or on their way.
LEMMA RacesType ==
  ASSUME IInv, NEW u \in Users
  PROVE  /\ IsFiniteSet(Asked(u)) /\ Cardinality(Asked(u)) \in Nat
         /\ IsFiniteSet(Racing(u)) /\ Cardinality(Racing(u)) \in Nat
         /\ Cardinality(Asked(u)) + Cardinality(Racing(u)) <= (Limit - 1) + peak[u]
         /\ Limit - 1 \in Nat /\ peak \in [Users -> Nat] /\ peak[u] \in Nat
<1>1. Asked(u) \subseteq messages /\ IsFiniteSet(messages)
  BY DEF Asked, IInv, MessagesOK
<1>2. /\ IsFiniteSet(Racing(u)) /\ peak \in [Users -> Nat]
      /\ Cardinality(Asked(u)) + Cardinality(Racing(u)) <= (Limit - 1) + peak[u]
  BY DEF IInv, RacesOK, TypeOK
<1> QED
  BY <1>1, <1>2, FS_Subset, FS_CardinalityType, ConstantsOK

\* The limit's check: a question more is on its way, of a user below the limit.
LEMMA CheckStep ==
  ASSUME IInv, NEW r \in Requests, NEW u \in Users, NEW c \in Conversations \cup {None},
         NEW kind \in {"query", "stream"}, CheckDailyLimit(r, u, c, kind)
  PROVE  IInv'
<1>1. CASE End(r, "refused") /\ UNCHANGED peak
  BY <1>1, EndStep DEF CheckDailyLimit
<1>2. CASE ~(End(r, "refused") /\ UNCHANGED peak)
  <2> DEFINE x == [NewRequest EXCEPT !.go = IF c = None THEN "send" ELSE "owner",
                                     !.kind = kind, !.user = u, !.conv = c]
             n == Cardinality(Racing(u) \cup {r})
  <2>1. /\ req[r].go = "new" /\ Cardinality(Asked(u)) < Limit
        /\ req' = [req EXCEPT ![r] = x]
        /\ peak' = [peak EXCEPT ![u] = IF @ < n THEN n ELSE @]
        /\ UNCHANGED <<db, time, jobs>>
    BY <1>2 DEF CheckDailyLimit
  <2>2. /\ x.go \in {"send", "owner"} /\ x.rag = "idle" /\ x.user = u /\ x.conv = c
        /\ x.go = "owner" => c # None
        /\ x.go = "send" => c = None
        /\ ~x.fresh /\ ~x.answered /\ x.history = {} /\ x \in Request
    BY DEF NewRequest, Request
  <2>3. /\ req \in [Requests -> Request] /\ req' \in [Requests -> Request]
        /\ req'[r] = x /\ \A s \in Requests \ {r} : req'[s] = req[s]
    BY <2>1, <2>2 DEF IInv, TypeOK
  <2>4. /\ convs' = convs /\ messages' = messages /\ clock' = clock /\ clock \in Nat
        /\ clock <= clock' /\ horizon' = horizon /\ UNCHANGED <<db, horizon, jobs>>
    BY <2>1 DEF db, time, IInv, TypeOK
  <2>5. req[r].rag = "idle" /\ NotSent(r) /\ ~OnTheWay(r)
    BY <2>1, Places DEF IInv, RequestOK, NotSent, OnTheWay
  <2> HIDE DEF x
  <2>6. RequestOK(r)' /\ StoredOK(r)'
    BY <2>2, <2>3, Places DEF RequestOK, StoredOK, NotSent, OnTheWay, HasConv, InTx
  <2>7. ClaimsNothing(r, x)
    BY <2>2, <2>5 DEF ClaimsNothing
  <2>8. /\ Racing(u)' \subseteq Racing(u) \cup {r}
        /\ \A v \in Users \ {u} : Racing(v)' \subseteq Racing(v)
        /\ \A v \in Users : Asked(v)' = Asked(v)
    BY <2>2, <2>3, <2>4 DEF Racing, OnTheWay, Asked
  <2>9. IsFiniteSet(Racing(u) \cup {r}) /\ n \in Nat
    BY RacesType, FS_AddElement, FS_CardinalityType
  <2> HIDE DEF n
  <2>10. peak' \in [Users -> Nat] /\ peak'[u] \in Nat /\ n <= peak'[u]
         /\ \A v \in Users \ {u} : peak'[v] = peak[v]
    BY <2>1, <2>9, RacesType
  <2>11. RacesOK'
    <3> SUFFICES ASSUME NEW v \in Users
                 PROVE  /\ IsFiniteSet(Racing(v)')
                        /\ Cardinality(Asked(v)) + Cardinality(Racing(v)')
                             <= (Limit - 1) + peak'[v]
      BY <2>8 DEF RacesOK
    <3>1. CASE v = u
      <4>1. IsFiniteSet(Racing(u)') /\ Cardinality(Racing(u)') <= n
        BY <2>8, <2>9, FS_Subset DEF n
      <4>2. Cardinality(Racing(u)') \in Nat
        BY <4>1, FS_CardinalityType
      <4>3. Cardinality(Asked(u)) <= Limit - 1 /\ Cardinality(Asked(u)) \in Nat
            /\ Limit - 1 \in Nat
        BY <2>1, RacesType, ConstantsOK
      <4> QED
        BY <2>9, <2>10, <3>1, <4>1, <4>2, <4>3
    <3>2. CASE v # u
      <4>1. IsFiniteSet(Racing(v)') /\ Cardinality(Racing(v)') <= Cardinality(Racing(v))
        BY <2>8, <3>2, RacesType, FS_Subset
      <4>2. Cardinality(Racing(v)') \in Nat /\ peak'[v] = peak[v]
        BY <2>10, <3>2, <4>1, FS_CardinalityType
      <4> QED
        BY <4>1, <4>2, RacesType
    <3> QED
      BY <3>1, <3>2
  <2> QED
    BY <2>1, <2>2, <2>4, <2>6, <2>7, <2>10, <2>11, RequestKept
<1> QED
  BY <1>1, <1>2

\* Time passes, and questions leave the window.
LEMMA TimeStep ==
  ASSUME IInv, TimePasses
  PROVE  IInv'
<1>1. /\ purged' = purged /\ convs' = convs /\ messages' = messages /\ clock' = clock
      /\ jobs' = jobs /\ req' = req /\ peak' = peak
      /\ horizon' = horizon + 1 /\ horizon < clock
  BY DEF TimePasses, db
<1>2. clock \in Nat /\ horizon \in 0..clock /\ messages \subseteq Message
  BY DEF IInv, TypeOK
<1>3. TypeOK'
  BY <1>1, <1>2 DEF IInv, TypeOK
<1>4. RacesOK'
  <2> SUFFICES ASSUME NEW u \in Users
               PROVE  Cardinality(Asked(u)') + Cardinality(Racing(u)) <= (Limit - 1) + peak[u]
    BY <1>1, RacesType DEF RacesOK, Racing, OnTheWay
  <2>1. Asked(u)' \subseteq Asked(u)
    BY <1>1, <1>2 DEF Asked, Message
  <2>2. IsFiniteSet(Asked(u)') /\ Cardinality(Asked(u)') <= Cardinality(Asked(u))
    BY <2>1, RacesType, FS_Subset
  <2>3. Cardinality(Asked(u)') \in Nat
    BY <2>2, FS_CardinalityType
  <2> QED
    BY <2>2, <2>3, RacesType
<1>5. \A r \in Requests : RequestOK(r)' /\ StoredOK(r)'
  BY <1>1, <1>2, OtherRequest
<1>6. (MessagesOK /\ TitlesOK)'
  BY <1>1 DEF IInv, MessagesOK, NotSent, TitlesOK, Untitled
<1>7. (/\ CountIsMessages /\ RepliesStored /\ AnswersFollowQuestions
       /\ QuestionNotInItsHistory)'
  BY <1>1 DEF IInv, CountIsMessages, RepliesStored, AnswersFollowQuestions,
              QuestionNotInItsHistory
<1> QED
  BY <1>3, <1>4, <1>5, <1>6, <1>7 DEF IInv

\* A title arrives: no table but conversations changes, and there the title only.
LEMMA TitleStep ==
  ASSUME IInv, NEW j \in jobs, RegenTitle(j)
  PROVE  IInv'
<1>1. /\ purged' = purged /\ messages' = messages /\ clock' = clock /\ horizon' = horizon
      /\ req' = req /\ peak' = peak /\ jobs' = jobs \ {j}
      /\ \/ convs[j.conv].life = "live" /\ convs' = [convs EXCEPT ![j.conv].title = j.by]
         \/ convs' = convs
  BY DEF RegenTitle, time
<1>2. /\ convs \in [Conversations -> Conversation] /\ clock \in Nat /\ horizon \in 0..clock
      /\ j.conv \in Conversations /\ j.by \in Requests /\ messages \subseteq Message
  BY DEF IInv, TypeOK, Job
<1>3. /\ convs' \in [Conversations -> Conversation]
      /\ \A c \in Conversations :
           /\ convs'[c].life = convs[c].life /\ convs'[c].owner = convs[c].owner
           /\ convs'[c].count = convs[c].count
           /\ c # j.conv \/ convs[c].life = "free" => convs'[c] = convs[c]
  BY <1>1, <1>2 DEF Conversation
<1>4. TypeOK'
  BY <1>1, <1>3 DEF IInv, TypeOK
<1>5. \A r \in Requests : RequestOK(r)' /\ StoredOK(r)'
  BY <1>1, <1>2, <1>3, OtherRequest
<1>6. \A m \in messages : m.conv \in Conversations /\ m.by \in Requests
  BY <1>2 DEF Message
<1>7. MessagesOK'
  BY <1>1, <1>3, <1>6 DEF IInv, MessagesOK, NotSent
<1>8. TitlesOK'
  <2>1. \A r \in Requests : Untitled(r) => req[r].conv \in Conversations \ {j.conv}
    BY DEF IInv, TitlesOK, RequestOK, Untitled
  <2>2. \A i \in jobs' : i \in jobs /\ i.conv \in Conversations \ {j.conv}
    BY <1>1 DEF IInv, TitlesOK, TypeOK, Job
  <2>3. \A r \in Requests : Untitled(r)' <=> Untitled(r)
    BY <1>1 DEF Untitled
  <2>4. TitlesOK
    BY DEF IInv
  <2>5. \A c \in Conversations : convs'[c].life = "free" => convs'[c] = FreeConversation
    BY <1>3, <2>4 DEF TitlesOK
  <2>6. \A r \in Requests : Untitled(r) =>
          /\ convs'[req[r].conv].title = None
          /\ \A i \in jobs' : i.conv # req[r].conv
          /\ \A s \in Requests : Untitled(s) /\ req[s].conv = req[r].conv => s = r
    BY <1>3, <2>1, <2>2, <2>4 DEF TitlesOK
  <2>7. \A i \in jobs' :
          /\ convs'[i.conv].title = None /\ convs'[i.conv].life # "free"
          /\ \A k \in jobs' : k.conv = i.conv => k = i
    BY <1>3, <2>2, <2>4 DEF TitlesOK
  <2> QED
    BY <1>1, <2>3, <2>5, <2>6, <2>7 DEF TitlesOK
<1>9. RacesOK'
  BY <1>1, <1>3, <1>6 DEF IInv, RacesOK, Asked, Racing, OnTheWay
<1>10. CountIsMessages'
  BY <1>1, <1>3 DEF IInv, CountIsMessages
<1>11. (RepliesStored /\ AnswersFollowQuestions /\ QuestionNotInItsHistory)'
  <2>1. \A r \in Requests : req[r].go = "ok" => req[r].conv \in Conversations
    BY DEF IInv, RequestOK
  <2>2. \A r \in Requests : \A m \in req[r].history : m.conv \in Conversations
    BY DEF IInv, TypeOK, Request, Message
  <2>3. \A c \in Conversations : convs'[c].life = "live" => convs[c].life = "live"
    BY <1>3
  <2>4. RepliesStored'
    BY <1>1, <2>1, <2>3 DEF IInv, RepliesStored
  <2>5. QuestionNotInItsHistory'
    BY <1>1, <2>2, <2>3 DEF IInv, QuestionNotInItsHistory
  <2> QED
    BY <1>1, <2>4, <2>5 DEF IInv, AnswersFollowQuestions
<1> QED
  BY <1>4, <1>5, <1>7, <1>8, <1>9, <1>10, <1>11 DEF IInv

(***************************************************************************)
(* A purge: what is left of the user's conversations is that they are gone *)
(* with their messages, and no request is between an INSERT and its COMMIT.*)
(***************************************************************************)
LEMMA PurgeStep ==
  ASSUME IInv, NEW u \in Users, Purge(u)
  PROVE  IInv'
<1>1. /\ purged' = purged \cup {u} /\ clock' = clock /\ horizon' = horizon
      /\ req' = req /\ peak' = peak /\ jobs' = jobs
      /\ messages' = {m \in messages : convs[m.conv].owner # u}
      /\ \A r \in Requests : req[r].rag \in InTx => convs[req[r].conv].owner # u
  BY DEF Purge, time
<1>2. /\ convs \in [Conversations -> Conversation] /\ clock \in Nat /\ horizon \in 0..clock
      /\ messages \subseteq Message /\ IsFiniteSet(messages)
      /\ \A m \in messages : m.conv \in Conversations /\ m.by \in Requests
  BY DEF IInv, TypeOK, Message, MessagesOK
<1>3. /\ convs' \in [Conversations -> Conversation]
      /\ \A c \in Conversations :
           /\ convs[c].owner # u => convs'[c] = convs[c]
           /\ convs[c].owner = u =>
                /\ convs'[c].life = "purged" /\ convs'[c].title = None
                /\ convs'[c].count = 0 /\ convs'[c].owner = u
           /\ convs[c].life = "free" => convs[c].owner # u
  <2>1. \A c \in Conversations : convs[c].life = "free" => convs[c].owner # u
    BY ConstantsOK DEF IInv, TitlesOK, FreeConversation
  <2> QED
    BY <1>2, <2>1 DEF Purge, Conversation
<1>4. TypeOK'
  BY <1>1, <1>2, <1>3 DEF IInv, TypeOK
<1>5. \A r \in Requests : RequestOK(r)' /\ StoredOK(r)'
  <2> SUFFICES ASSUME NEW r \in Requests PROVE RequestOK(r)' /\ StoredOK(r)'
    OBVIOUS
  <2>1. RequestOK(r) /\ StoredOK(r) /\ req[r] \in Request
    BY DEF IInv, TypeOK
  <2>2. /\ req[r].conv \in Conversations \cup {None}
        /\ \A m \in req[r].history : m.conv \in Conversations
    BY <2>1 DEF Request, Message
  <2>3. /\ req[r].rag \in Answering \cup InTx => req[r].conv \in Conversations
        /\ req[r].go = "ok" => req[r].conv \in Conversations
    BY <2>1, Places DEF RequestOK, HasConv, InTx
  <2>4. RequestOK(r)'
    <3>1. req[r].rag \in InTx => convs'[req[r].conv].life = "live"
      BY <1>1, <1>3, <2>1, <2>3 DEF RequestOK
    <3>2. \A m \in req[r].history : convs'[m.conv].life # "free"
      BY <1>3, <2>1, <2>2 DEF RequestOK
    <3>3. \A c \in Conversations : convs[c].life # "free" =>
            convs'[c].life # "free" /\ convs'[c].owner = convs[c].owner
      BY <1>3
    <3> QED
      BY <1>1, <2>1, <2>2, <2>3, <3>1, <3>2, <3>3
         DEF RequestOK, NotSent, OnTheWay, HasConv
  <2>5. StoredOK(r)'
    <3> SUFFICES ASSUME req[r].rag \in Answering, convs'[req[r].conv].life = "live"
                 PROVE  StoredOK(r)'
      BY <1>1 DEF StoredOK
    <3>1. convs[req[r].conv].life = "live" /\ convs[req[r].conv].owner # u
      BY <1>3, <2>3
    <3> QED
      BY <1>1, <2>1, <3>1 DEF StoredOK
  <2> QED
    BY <2>4, <2>5
<1>6. MessagesOK'
  BY <1>1, <1>2, <1>3, FS_Subset DEF IInv, MessagesOK, NotSent
<1>7. TitlesOK'
  <2>1. \A r \in Requests : Untitled(r) => req[r].conv \in Conversations
    BY DEF IInv, RequestOK, Untitled
  <2>2. \A i \in jobs : i.conv \in Conversations
    BY DEF IInv, TypeOK, Job
  <2> QED
    BY <1>1, <1>3, <2>1, <2>2 DEF IInv, TitlesOK, Untitled
<1>8. RacesOK'
  <2> SUFFICES ASSUME NEW v \in Users
               PROVE  Cardinality(Asked(v)') + Cardinality(Racing(v)) <= (Limit - 1) + peak[v]
    BY <1>1, RacesType DEF RacesOK, Racing, OnTheWay
  <2>1. Asked(v)' \subseteq Asked(v)
    BY <1>1, <1>2, <1>3 DEF Asked
  <2>2. IsFiniteSet(Asked(v)') /\ Cardinality(Asked(v)') <= Cardinality(Asked(v))
    BY <2>1, RacesType, FS_Subset
  <2>3. Cardinality(Asked(v)') \in Nat
    BY <2>2, FS_CardinalityType
  <2> QED
    BY <2>2, <2>3, RacesType
<1>9. CountIsMessages'
  <2> SUFFICES ASSUME NEW c \in Conversations
               PROVE  convs'[c].count = Cardinality({m \in messages' : m.conv = c})
    BY DEF CountIsMessages
  <2>1. CASE convs[c].owner = u
    <3>1. {m \in messages' : m.conv = c} = {} /\ convs'[c].count = 0
      BY <1>1, <1>3, <2>1
    <3> QED
      BY <3>1, FS_EmptySet
  <2>2. CASE convs[c].owner # u
    <3>1. {m \in messages' : m.conv = c} = {m \in messages : m.conv = c}
      BY <1>1, <2>2
    <3>2. convs'[c].count = convs[c].count
      BY <1>3, <2>2
    <3> QED
      BY <3>1, <3>2 DEF IInv, CountIsMessages
  <2> QED
    BY <2>1, <2>2
<1>10. \A c \in Conversations : convs'[c].life = "live"
         => /\ convs[c].life = "live"
            /\ \A m \in messages : m.conv = c => m \in messages'
  BY <1>1, <1>3
<1>11. RepliesStored'
  <2>1. \A r \in Requests : req[r].go = "ok" => req[r].conv \in Conversations
    BY DEF IInv, RequestOK
  <2> QED
    BY <1>1, <1>10, <2>1 DEF IInv, RepliesStored
<1>12. AnswersFollowQuestions'
  BY <1>1 DEF IInv, AnswersFollowQuestions
<1>13. QuestionNotInItsHistory'
  <2>1. \A r \in Requests : \A m \in req[r].history : m.conv \in Conversations
    BY DEF IInv, TypeOK, Request, Message
  <2> QED
    BY <1>1, <1>10, <2>1 DEF IInv, QuestionNotInItsHistory
<1> QED
  BY <1>4, <1>5, <1>6, <1>7, <1>8, <1>9, <1>11, <1>12, <1>13 DEF IInv

\* A conversation is created: nothing was known of it before.
LEMMA CreateStep ==
  ASSUME IInv, NEW r \in Requests, NEW c \in Conversations, CreateConversation(r, c)
  PROVE  IInv'
<1>1. CASE End(r, "failed") /\ UNCHANGED convs
  BY <1>1, EndStep DEF CreateConversation, db
<1>2. CASE ~(End(r, "failed") /\ UNCHANGED convs)
  <2> DEFINE x == [req[r] EXCEPT !.rag = "ask", !.conv = c, !.fresh = TRUE]
             new == NewConversation(req[r].user)
  <2>1. /\ req[r].rag = "create" /\ convs[c] = FreeConversation
        /\ convs' = [convs EXCEPT ![c] = new]
        /\ req' = [req EXCEPT ![r].rag = "ask", ![r].conv = c, ![r].fresh = TRUE]
        /\ purged' = purged /\ messages' = messages /\ clock' = clock
        /\ horizon' = horizon /\ jobs' = jobs /\ peak' = peak
    BY <1>2 DEF CreateConversation, time
  <2>2. /\ req \in [Requests -> Request] /\ req[r] \in Request /\ RequestOK(r)
        /\ convs \in [Conversations -> Conversation] /\ clock \in Nat /\ horizon \in 0..clock
        /\ messages \subseteq Message
    BY DEF IInv, TypeOK
  <2>3. req[r].user \in Users /\ OnTheWay(r)
    BY <2>1, <2>2, Places DEF RequestOK, OnTheWay
  <2>4. /\ new.owner = req[r].user /\ new.life = "live" /\ new.title = None
        /\ new.count = 0 /\ new \in Conversation
        /\ convs[c].life = "free" /\ convs[c].count = 0
    <3>1. FreeConversation \in Conversation
      BY DEF FreeConversation, Conversation
    <3>2. /\ FreeConversation.title = None /\ FreeConversation.count = 0
          /\ FreeConversation.life = "free"
      BY DEF FreeConversation
    <3> QED
      BY <2>1, <2>3, <3>1, <3>2 DEF NewConversation, Conversation
  <2>5. req' = [req EXCEPT ![r] = x]
    BY <2>1, <2>2 DEF Request
  <2>6. /\ x.go = req[r].go /\ x.rag = "ask" /\ x.history = req[r].history
        /\ x.at = req[r].at /\ x.conv = c /\ x.user = req[r].user /\ x.fresh
        /\ x.answered = req[r].answered
    BY <2>2 DEF Request
  <2>7. x \in Request
    BY <2>2, Places DEF Request
  <2> HIDE DEF x, new
  <2>8. /\ req' \in [Requests -> Request] /\ req'[r] = x
        /\ \A s \in Requests \ {r} : req'[s] = req[s]
        /\ convs' \in [Conversations -> Conversation] /\ convs'[c] = new
        /\ \A d \in Conversations \ {c} : convs'[d] = convs[d]
    BY <2>1, <2>2, <2>4, <2>5, <2>7
  <2>9. TypeOK'
    BY <2>1, <2>8 DEF IInv, TypeOK
  <2>10. /\ req[r].go \in {"waiting", "failed"} /\ ~req[r].answered
    BY <2>1, <2>2 DEF RequestOK
  <2>11. RequestOK(r)' /\ StoredOK(r)'
    <3>1. \A m \in x.history : convs'[m.conv].life # "free"
      BY <2>2, <2>4, <2>6, <2>8 DEF RequestOK, Request, Message
    <3>2. HasConv(r)'
      BY <2>6, <2>8 DEF HasConv
    <3>3. RequestOK(r)'
      BY <2>3, <2>4, <2>6, <2>8, <2>10, <3>1, <3>2 DEF RequestOK, NotSent, InTx
    <3> QED
      BY <2>6, <2>8, <3>3, Places DEF StoredOK
  <2>12. \A s \in Requests : RequestOK(s)' /\ StoredOK(s)'
    BY <2>1, <2>2, <2>4, <2>8, <2>11, OtherRequest
  <2>13. \A m \in messages : m.conv \in Conversations \ {c} /\ m.by \in Requests \ {r}
    BY <2>1, <2>2, <2>4, Places DEF IInv, MessagesOK, Message
  <2>14. MessagesOK'
    BY <2>1, <2>8, <2>13 DEF IInv, MessagesOK, NotSent
  <2>15. TitlesOK'
    <3>1. TitlesOK /\ \A i \in jobs : i.conv \in Conversations \ {c}
      BY <2>4 DEF IInv, TitlesOK, TypeOK, Job
    <3>2. \A s \in Requests \ {r} : Untitled(s) => req[s].conv \in Conversations \ {c}
      BY <2>4, ConstantsOK, Places DEF IInv, RequestOK, HasConv, Untitled
    <3>3. \A s \in Requests \ {r} : Untitled(s)' <=> Untitled(s)
      BY <2>8 DEF Untitled
    <3>4. \A d \in Conversations : convs'[d].life = "free" => convs'[d] = FreeConversation
      BY <2>4, <2>8, <3>1 DEF TitlesOK
    <3>5. \A s \in Requests : Untitled(s)' =>
            /\ convs'[req'[s].conv].title = None
            /\ \A j \in jobs : j.conv # req'[s].conv
            /\ \A t \in Requests : Untitled(t)' /\ req'[t].conv = req'[s].conv => t = s
      <4> SUFFICES ASSUME NEW s \in Requests, Untitled(s)'
                   PROVE  /\ convs'[req'[s].conv].title = None
                          /\ \A j \in jobs : j.conv # req'[s].conv
                          /\ \A t \in Requests : Untitled(t)' /\ req'[t].conv = req'[s].conv
                               => t = s
        OBVIOUS
      <4>1. CASE s = r
        BY <2>4, <2>6, <2>8, <3>1, <3>2, <3>3, <4>1
      <4>2. CASE s # r
        BY <2>6, <2>8, <3>1, <3>2, <3>3, <4>2 DEF TitlesOK
      <4> QED
        BY <4>1, <4>2
    <3>6. \A j \in jobs :
            /\ convs'[j.conv].title = None /\ convs'[j.conv].life # "free"
            /\ \A i \in jobs : i.conv = j.conv => i = j
      BY <2>8, <3>1 DEF TitlesOK
    <3> QED
      BY <2>1, <3>4, <3>5, <3>6 DEF TitlesOK
  <2>16. RacesOK'
    <3> SUFFICES ASSUME NEW u \in Users
                 PROVE  /\ IsFiniteSet(Racing(u)')
                        /\ Cardinality(Asked(u)') + Cardinality(Racing(u)')
                             <= (Limit - 1) + peak[u]
      BY <2>1 DEF RacesOK
    <3>1. Asked(u)' = Asked(u)
      BY <2>1, <2>8, <2>13 DEF Asked
    <3>2. Racing(u)' = Racing(u)
      BY <2>3, <2>6, <2>8, Places DEF Racing, OnTheWay
    <3> QED
      BY <3>1, <3>2, RacesType
  <2>17. CountIsMessages'
    BY <2>1, <2>4, <2>8 DEF IInv, CountIsMessages
  <2>18. RepliesStored'
    <3>1. \A s \in Requests \ {r} : req[s].go = "ok" => req[s].conv \in Conversations \ {c}
      BY <2>4 DEF IInv, RequestOK
    <3> QED
      BY <2>1, <2>6, <2>8, <2>10, <3>1 DEF IInv, RepliesStored
  <2>19. QuestionNotInItsHistory'
    <3>1. \A s \in Requests : \A m \in req'[s].history :
            m \in req[s].history /\ m.conv \in Conversations \ {c}
      BY <2>2, <2>4, <2>6, <2>8 DEF IInv, RequestOK, Request, Message
    <3> QED
      BY <2>1, <2>8, <3>1 DEF IInv, QuestionNotInItsHistory
  <2>20. AnswersFollowQuestions'
    BY <2>1 DEF IInv, AnswersFollowQuestions
  <2> QED
    BY <2>9, <2>12, <2>14, <2>15, <2>16, <2>17, <2>18, <2>19, <2>20 DEF IInv
<1> QED
  BY <1>1, <1>2

(***************************************************************************)
(* A message is stored with its count: what the question's and the         *)
(* answer's COMMIT have in common.                                         *)
(***************************************************************************)
LEMMA StoreStep ==
  ASSUME IInv, NEW r \in Requests, NEW role \in {"user", "assistant"}, Store(r, role),
         req[r].rag = IF role = "user" THEN "asking" ELSE "answering",
         NEW rag \in {"history", "told", "reply"}, NEW answered \in BOOLEAN,
         rag = "reply" <=> role = "assistant", answered <=> role = "assistant",
         req' = [req EXCEPT ![r] = [@ EXCEPT !.rag = rag, !.answered = answered]],
         \/ jobs' = jobs
         \/ /\ role = "assistant" /\ req[r].fresh
            /\ jobs' = jobs \cup {[by |-> r, conv |-> req[r].conv]}
  PROVE  IInv'
<1> DEFINE x == [req[r] EXCEPT !.rag = rag, !.answered = answered]
           c == req[r].conv
           new == [by |-> r, role |-> role, conv |-> c, at |-> req[r].at]
<1>1. /\ req \in [Requests -> Request] /\ req[r] \in Request /\ RequestOK(r) /\ StoredOK(r)
      /\ convs \in [Conversations -> Conversation] /\ clock \in Nat /\ horizon \in 0..clock
      /\ messages \subseteq Message /\ IsFiniteSet(messages) /\ jobs \subseteq Job
  BY DEF IInv, TypeOK, MessagesOK
<1>2. /\ purged' = purged /\ clock' = clock /\ horizon' = horizon /\ peak' = peak
      /\ messages' = messages \cup {new}
      /\ convs' = [convs EXCEPT ![c].count = @ + 1]
      /\ req' = [req EXCEPT ![r] = x]
  BY DEF Store, time
<1>3. /\ c \in Conversations /\ convs[c].life = "live" /\ convs[c].owner = req[r].user
      /\ req[r].at \in Nat /\ req[r].at <= clock /\ req[r].go \in {"waiting", "failed"}
      /\ HasConv(r) /\ ~req[r].answered
  BY <1>1, Places, ConstantsOK DEF RequestOK, HasConv, InTx, Request
<1>4. /\ x.go = req[r].go /\ x.rag = rag /\ x.history = req[r].history /\ x.at = req[r].at
      /\ x.conv = c /\ x.user = req[r].user /\ x.fresh = req[r].fresh
      /\ x.answered = answered /\ x \in Request
  BY <1>1, Places, ZenonT(60) DEF Request
<1>5. new \in Message /\ new.by = r /\ new.role = role /\ new.conv = c /\ new.at = req[r].at
  BY <1>1, <1>3 DEF Message
<1> HIDE DEF x, new
<1>6. /\ convs' \in [Conversations -> Conversation] /\ convs'[c].count = convs[c].count + 1
      /\ \A d \in Conversations \ {c} : convs'[d] = convs[d]
      /\ \A d \in Conversations :
           /\ convs'[d].life = convs[d].life /\ convs'[d].owner = convs[d].owner
           /\ convs'[d].title = convs[d].title
      /\ convs[c].count \in Nat
  BY <1>1, <1>2, <1>3 DEF Conversation
<1>7. /\ req' \in [Requests -> Request] /\ req'[r] = x
      /\ \A s \in Requests \ {r} : req'[s] = req[s]
  BY <1>1, <1>2, <1>4
<1>8. \A m \in messages : m.by = r => m.role = "user" /\ role = "assistant"
  BY <1>1, Places DEF IInv, MessagesOK, Message
<1>9. new \notin messages /\ messages \subseteq messages'
  BY <1>2, <1>5, <1>8
<1>10. TypeOK'
  <2>1. [by |-> r, conv |-> c] \in Job
    BY <1>3 DEF Job
  <2>2. jobs' \subseteq Job
    BY <1>1, <2>1
  <2> QED
    BY <1>2, <1>5, <1>6, <1>7, <2>2 DEF IInv, TypeOK
<1>11. RequestOK(r)'
  <2>1. \A m \in x.history : convs'[m.conv].life # "free"
    BY <1>1, <1>4, <1>6 DEF RequestOK, Request, Message
  <2>2. HasConv(r)' /\ ~OnTheWay(r)' /\ ~NotSent(r)'
    BY <1>3, <1>4, <1>7, Places DEF HasConv, OnTheWay, NotSent
  <2> QED
    BY <1>3, <1>4, <1>6, <1>7, <2>1, <2>2 DEF RequestOK, InTx
<1>12. StoredOK(r)'
  <2>1. \E q \in messages' : q.by = r /\ q.role = "user" /\ q.conv = c
    <3>1. CASE role = "user"
      BY <1>2, <1>5, <3>1
    <3>2. CASE role = "assistant"
      BY <1>1, <1>3, <1>9, <3>2, Places DEF StoredOK
    <3> QED
      BY <3>1, <3>2
  <2>2. answered => \E a \in messages' : a.by = r /\ a.role = "assistant" /\ a.conv = c
    BY <1>2, <1>5
  <2> QED
    BY <1>4, <1>7, <2>1, <2>2 DEF StoredOK
<1>13. \A s \in Requests : RequestOK(s)' /\ StoredOK(s)'
  BY <1>1, <1>2, <1>6, <1>7, <1>9, <1>11, <1>12, OtherRequest
<1>14. MessagesOK'
  <2>1. IsFiniteSet(messages')
    BY <1>1, <1>2, FS_AddElement
  <2>2. \A m \in messages' : m.conv \in Conversations /\ m.by \in Requests
    BY <1>1, <1>2, <1>5 DEF Message
  <2>3. /\ convs'[new.conv].life = "live" /\ new.at <= clock
        /\ ~NotSent(r)' /\ req'[r].rag \in Answering
        /\ role = "assistant" => req'[r].rag = "reply"
    BY <1>3, <1>4, <1>5, <1>6, <1>7, Places DEF NotSent
  <2>4. \A m \in messages : m.by = r => req'[r].rag \in Answering /\ m.role # role
    BY <1>8, <2>3
  <2>5. \A m \in messages : /\ convs'[m.conv].life = "live" /\ m.at <= clock
                            /\ ~NotSent(m.by)'
                            /\ req'[m.by].rag \in {"idle"} \cup Answering
                            /\ m.role = "assistant" => req'[m.by].rag \in {"idle", "reply"}
    <3> SUFFICES ASSUME NEW m \in messages
                 PROVE  /\ convs'[m.conv].life = "live" /\ m.at <= clock
                        /\ ~NotSent(m.by)'
                        /\ req'[m.by].rag \in {"idle"} \cup Answering
                        /\ m.role = "assistant" => req'[m.by].rag \in {"idle", "reply"}
      OBVIOUS
    <3>1. /\ m \in messages' /\ convs[m.conv].life = "live" /\ m.at <= clock
          /\ ~NotSent(m.by) /\ req[m.by].rag \in {"idle"} \cup Answering
          /\ m.role = "assistant" => req[m.by].rag \in {"idle", "reply"}
      BY <1>2 DEF IInv, MessagesOK
    <3>2. CASE m.by = r
      BY <1>6, <1>8, <2>2, <2>3, <3>1, <3>2
    <3>3. CASE m.by # r
      BY <1>6, <1>7, <2>2, <3>1, <3>3 DEF NotSent
    <3> QED
      BY <3>2, <3>3
  <2>6. \A m, n \in messages' : m.by = n.by /\ m.role = n.role => m = n
    BY <1>2, <1>5, <2>4 DEF IInv, MessagesOK
  <2> QED
    BY <1>2, <1>5, <2>1, <2>3, <2>5, <2>6 DEF MessagesOK
<1>15. TitlesOK'
  <2>1. TitlesOK /\ \A i \in jobs : i.conv \in Conversations
    BY <1>1 DEF IInv, Job
  <2>2. \A s \in Requests : Untitled(s) => req[s].conv \in Conversations
    BY DEF IInv, RequestOK, Untitled
  <2>3. \A s \in Requests : Untitled(s)' =>
          /\ Untitled(s) /\ req'[s].conv = req[s].conv
          /\ s = r => rag # "reply"
    BY <1>3, <1>4, <1>7 DEF Untitled
  <2>4. \A d \in Conversations : convs'[d].life = "free" => convs'[d] = FreeConversation
    BY <1>3, <1>6, <2>1 DEF TitlesOK
  <2>5. CASE jobs' = jobs
    <3>1. \A j \in jobs : convs'[j.conv].title = None /\ convs'[j.conv].life # "free"
      BY <1>6, <2>1 DEF TitlesOK
    <3>2. \A s \in Requests : Untitled(s)' => convs'[req'[s].conv].title = None
      BY <1>6, <2>1, <2>2, <2>3 DEF TitlesOK
    <3> QED
      BY <2>1, <2>3, <2>4, <2>5, <3>1, <3>2 DEF TitlesOK
  <2>6. CASE role = "assistant" /\ req[r].fresh /\ jobs' = jobs \cup {[by |-> r, conv |-> c]}
    <3>1. Untitled(r) /\ req[r].rag = "answering"
      BY <2>6 DEF Untitled
    <3>2. convs[c].title = None /\ \A j \in jobs : j.conv # c
      BY <2>1, <3>1 DEF TitlesOK
    <3>3. \A s \in Requests \ {r} : Untitled(s) => req[s].conv # c
      BY <2>1, <3>1 DEF TitlesOK
    <3>4. \A j \in jobs' :
            /\ convs'[j.conv].title = None /\ convs'[j.conv].life # "free"
            /\ \A i \in jobs' : i.conv = j.conv => i = j
      BY <1>3, <1>6, <2>1, <2>6, <3>2 DEF TitlesOK
    <3>5. \A s \in Requests : Untitled(s)' => s # r
      BY <2>3, <2>6
    <3>6. \A s \in Requests : Untitled(s)' =>
            /\ convs'[req'[s].conv].title = None
            /\ \A j \in jobs' : j.conv # req'[s].conv
      BY <1>6, <2>1, <2>2, <2>3, <2>6, <3>3, <3>5 DEF TitlesOK
    <3>7. \A s, t \in Requests :
            Untitled(s)' /\ Untitled(t)' /\ req'[s].conv = req'[t].conv => s = t
      BY <2>1, <2>3 DEF TitlesOK
    <3> QED
      BY <2>4, <3>4, <3>6, <3>7 DEF TitlesOK
  <2> QED
    BY <2>5, <2>6
<1>16. RacesOK'
  <2> SUFFICES ASSUME NEW u \in Users
               PROVE  /\ IsFiniteSet(Racing(u)')
                      /\ Cardinality(Asked(u)') + Cardinality(Racing(u)')
                           <= (Limit - 1) + peak[u]
    BY <1>2 DEF RacesOK
  <2>1. \A m \in messages : m.conv \in Conversations
    BY <1>1 DEF Message
  <2>2. Asked(u)' \subseteq Asked(u) \cup {new}
    BY <1>2, <1>6, <2>1 DEF Asked
  <2>3. Racing(u)' \subseteq Racing(u)
    BY <1>4, <1>7, Places DEF Racing, OnTheWay
  <2>4. ~OnTheWay(r)'
    BY <1>3, <1>4, <1>7, Places DEF OnTheWay
  <2>5. IsFiniteSet(Racing(u)') /\ Cardinality(Racing(u)') \in Nat
        /\ Cardinality(Racing(u)') <= Cardinality(Racing(u))
    BY <2>3, RacesType, FS_Subset, FS_CardinalityType
  <2>6. CASE role = "user" /\ req[r].user = u
    <3>1. r \in Racing(u) /\ Racing(u)' \subseteq Racing(u) \ {r}
      BY <2>3, <2>4, <2>6, Places DEF Racing, OnTheWay
    <3>2. /\ IsFiniteSet(Racing(u) \ {r})
          /\ Cardinality(Racing(u) \ {r}) = Cardinality(Racing(u)) - 1
      BY <3>1, RacesType, FS_RemoveElement
    <3>3. Cardinality(Racing(u)') <= Cardinality(Racing(u)) - 1
      BY <3>1, <3>2, FS_Subset
    <3>4. /\ IsFiniteSet(Asked(u) \cup {new})
          /\ Cardinality(Asked(u) \cup {new}) <= Cardinality(Asked(u)) + 1
          /\ Cardinality(Asked(u) \cup {new}) \in Nat
      <4> DEFINE A == Asked(u)
      <4>1. IsFiniteSet(A) /\ Cardinality(A) \in Nat
        BY RacesType
      <4> HIDE DEF A
      <4>2. /\ IsFiniteSet(A \cup {new})
            /\ Cardinality(A \cup {new})
                 = IF new \in A THEN Cardinality(A) ELSE Cardinality(A) + 1
        BY <4>1, FS_AddElement
      <4>3. /\ IsFiniteSet(A \cup {new}) /\ Cardinality(A \cup {new}) \in Nat
            /\ Cardinality(A \cup {new}) <= Cardinality(A) + 1
        BY <4>1, <4>2
      <4> QED
        BY <4>3 DEF A
    <3>5. Cardinality(Asked(u)') <= Cardinality(Asked(u)) + 1
          /\ Cardinality(Asked(u)') \in Nat
      BY <2>2, <3>4, RacesType, FS_Subset, FS_CardinalityType
    <3> QED
      BY <2>5, <3>3, <3>5, RacesType
  <2>7. CASE ~(role = "user" /\ req[r].user = u)
    <3>1. new \notin Asked(u)'
      BY <1>3, <1>5, <1>6, <2>7 DEF Asked
    <3>2. IsFiniteSet(Asked(u)') /\ Cardinality(Asked(u)') <= Cardinality(Asked(u))
      BY <2>2, <3>1, RacesType, FS_Subset
    <3>3. Cardinality(Asked(u)') \in Nat
      BY <3>2, FS_CardinalityType
    <3> QED
      BY <2>5, <3>2, <3>3, RacesType
  <2> QED
    BY <2>6, <2>7
<1>17. CountIsMessages'
  <2> SUFFICES ASSUME NEW d \in Conversations
               PROVE  convs'[d].count = Cardinality({m \in messages' : m.conv = d})
    BY DEF CountIsMessages
  <2> DEFINE M == {m \in messages : m.conv = d}
  <2>1. convs[d].count = Cardinality(M)
    BY DEF IInv, CountIsMessages
  <2>2. CASE d = c
    <3>1. {m \in messages' : m.conv = d} = M \cup {new} /\ new \notin M
      BY <1>2, <1>5, <1>9, <2>2
    <3>2. IsFiniteSet(M)
      BY <1>1, FS_Subset
    <3> HIDE DEF M
    <3>3. Cardinality(M \cup {new}) = Cardinality(M) + 1
      BY <3>1, <3>2, FS_AddElement
    <3> QED
      BY <1>6, <2>1, <2>2, <3>1, <3>3
  <2>3. CASE d # c
    <3>1. {m \in messages' : m.conv = d} = M
      BY <1>2, <1>5, <2>3
    <3> QED
      BY <1>6, <2>1, <2>3, <3>1
  <2> QED
    BY <2>2, <2>3
<1>18. RepliesStored'
  <2>1. \A s \in Requests : req'[s].go = "ok" => s # r /\ req[s].conv \in Conversations
    BY <1>3, <1>4, <1>7 DEF IInv, RequestOK
  <2> SUFFICES ASSUME NEW s \in Requests, req'[s].go = "ok",
                      convs'[req'[s].conv].life = "live",
                      NEW k \in IF req'[s].answered THEN {"user", "assistant"} ELSE {"user"}
               PROVE  \E m \in messages' : m.by = s /\ m.role = k /\ m.conv = req'[s].conv
    BY DEF RepliesStored
  <2>2. req'[s] = req[s] /\ req[s].conv \in Conversations
    BY <1>7, <2>1
  <2>3. convs[req[s].conv].life = "live"
    BY <1>6, <2>2
  <2>4. \E m \in messages : m.by = s /\ m.role = k /\ m.conv = req[s].conv
    BY <2>2, <2>3, ZenonT(60) DEF IInv, RepliesStored
  <2> QED
    BY <1>9, <2>2, <2>4
<1>19. AnswersFollowQuestions'
  <2> SUFFICES ASSUME NEW a \in messages', a.role = "assistant"
               PROVE  \E q \in messages' : /\ q.role = "user" /\ q.by = a.by
                                           /\ q.conv = a.conv /\ q.at < a.at
    BY DEF AnswersFollowQuestions
  <2>1. CASE a \in messages
    BY <1>9, <2>1 DEF IInv, AnswersFollowQuestions
  <2>2. CASE a = new
    <3>1. req[r].rag = "answering"
      BY <1>5, <2>2
    <3> QED
      BY <1>1, <1>3, <1>5, <1>9, <2>2, <3>1, Places DEF StoredOK
  <2> QED
    BY <1>2, <2>1, <2>2
<1>20. QuestionNotInItsHistory'
  <2>1. \A s \in Requests : req'[s].history = req[s].history
    BY <1>4, <1>7
  <2>2. \A s \in Requests : \A m \in req[s].history : m.conv \in Conversations
    BY DEF IInv, TypeOK, Request, Message
  <2> QED
    BY <1>6, <1>9, <2>1, <2>2 DEF IInv, QuestionNotInItsHistory
<1> QED
  BY <1>10, <1>13, <1>14, <1>15, <1>16, <1>17, <1>18, <1>19, <1>20 DEF IInv
\* A request's half fails, or its coroutine is cut: nothing else changes.
LEMMA EndsStep ==
  ASSUME IInv, NEW r \in Requests, StreamCut(r) \/ Fail(r)
  PROVE  IInv'
<1>1. End(r, "failed") /\ UNCHANGED <<db, time, jobs, peak>>
  BY DEF StreamCut, Fail
<1> QED
  BY <1>1, EndStep

\* The two COMMITs.
LEMMA StoresStep ==
  ASSUME IInv, NEW r \in Requests, StoreQuestion(r) \/ StoreAnswer(r)
  PROVE  IInv'
<1>1. req \in [Requests -> Request] /\ req[r] \in Request /\ RequestOK(r)
  BY DEF IInv, TypeOK
<1>2. CASE StoreQuestion(r)
  <2>1. /\ Store(r, "user") /\ req[r].rag = "asking" /\ UNCHANGED jobs
        /\ Goto(r, IF req[r].kind = "query" THEN "history" ELSE "told")
    BY <1>2 DEF StoreQuestion
  <2>2. req[r].answered = FALSE
    BY <1>1, <2>1 DEF RequestOK, Request
  <2>3. PICK rag \in {"history", "told"} : req' = [req EXCEPT ![r].rag = rag]
    BY <2>1 DEF Goto
  <2>4. [req[r] EXCEPT !.rag = rag] = [req[r] EXCEPT !.rag = rag, !.answered = FALSE]
    BY <1>1, <2>2 DEF Request
  <2>5. req' = [req EXCEPT ![r] = [@ EXCEPT !.rag = rag, !.answered = FALSE]]
    BY <2>3, <2>4
  <2> QED
    BY <2>1, <2>3, <2>5, StoreStep
<1>3. CASE StoreAnswer(r)
  <2>1. /\ Store(r, "assistant") /\ req[r].rag = "answering"
        /\ req' = [req EXCEPT ![r].rag = "reply", ![r].answered = TRUE]
        /\ \/ jobs' = jobs
           \/ req[r].fresh /\ jobs' = jobs \cup {[by |-> r, conv |-> req[r].conv]}
    BY <1>3 DEF StoreAnswer
  <2>2. req' = [req EXCEPT ![r] = [@ EXCEPT !.rag = "reply", !.answered = TRUE]]
    BY <1>1, <2>1
  <2> QED
    BY <2>1, <2>2, StoreStep
<1> QED
  BY <1>2, <1>3

\* Every step keeps the inductive invariant.
LEMMA StepIInv ==
  ASSUME IInv, [Next]_vars
  PROVE  IInv'
<1>1. ASSUME NEW r \in Requests, Arrive(r)
      PROVE  IInv'
  BY <1>1, CheckStep DEF Arrive
<1>2. ASSUME NEW r \in Requests, Step(r)
      PROVE  IInv'
  <2>1. CASE VerifyConversationOwner(r)
    BY <2>1, VerifyOwnerStep
  <2>2. CASE \/ Send(r) \/ Begin(r) \/ Resume(r) \/ Retrieve(r) \/ Chat(r)
    BY <2>2, MovesStep
  <2>3. CASE \E c \in Conversations : CreateConversation(r, c)
    BY <2>3, CreateStep
  <2>4. CASE InsertQuestion(r) \/ InsertAnswer(r)
    BY <2>4, InsertStep
  <2>5. CASE StoreQuestion(r) \/ StoreAnswer(r)
    BY <2>5, StoresStep
  <2>6. CASE LoadHistory(r)
    BY <2>6, HistoryStep
  <2>7. CASE Reply(r)
    BY <2>7, ReplyStep
  <2> QED
    BY <1>2, <2>1, <2>2, <2>3, <2>4, <2>5, <2>6, <2>7 DEF Step
<1>3. ASSUME NEW r \in Requests, GiveUp(r)
      PROVE  IInv'
  BY <1>3, MovesStep
<1>4. ASSUME NEW r \in Requests, StreamCut(r) \/ Fail(r)
      PROVE  IInv'
  BY <1>4, EndsStep
<1>5. ASSUME NEW j \in jobs, RegenTitle(j)
      PROVE  IInv'
  BY <1>5, TitleStep
<1>6. ASSUME NEW u \in Users, Purge(u)
      PROVE  IInv'
  BY <1>6, PurgeStep
<1>7. CASE TimePasses
  BY <1>7, TimeStep
<1>8. CASE UNCHANGED vars
  <2>1. UNCHANGED vars /\ UNCHANGED db /\ UNCHANGED time
    BY <1>8 DEF vars
  <2>2. TypeOK'
    BY <2>1 DEF vars, db, time, IInv, TypeOK
  <2>3. \A r \in Requests : RequestOK(r)' /\ StoredOK(r)'
    BY <2>1 DEF vars, db, time, IInv, RequestOK, StoredOK, OnTheWay, HasConv, NotSent
  <2>4. MessagesOK' /\ CountIsMessages' /\ AnswersFollowQuestions'
    BY <2>1 DEF vars, db, time, IInv, MessagesOK, NotSent, CountIsMessages,
                AnswersFollowQuestions
  <2>5. TitlesOK' /\ RacesOK'
    BY <2>1 DEF vars, db, time, IInv, TitlesOK, RacesOK, Untitled, OnTheWay, Racing, Asked,
                HasConv, NotSent
  <2>6. RepliesStored' /\ QuestionNotInItsHistory'
    BY <2>1 DEF vars, db, IInv, RepliesStored, QuestionNotInItsHistory
  <2> QED BY <2>2, <2>3, <2>4, <2>5, <2>6 DEF IInv
<1> QED
  BY <1>1, <1>2, <1>3, <1>4, <1>5, <1>6, <1>7, <1>8 DEF Next

\* The initial states satisfy it: there are no messages, and nobody has asked.
LEMMA InitIInv ==
  ASSUME Init
  PROVE  IInv
<1>1. /\ purged = {} /\ messages = {} /\ clock = 0 /\ horizon = 0 /\ jobs = {}
      /\ req = [r \in Requests |-> NewRequest] /\ peak = [u \in Users |-> 0]
  BY DEF Init
<1>2. \A c \in Conversations :
        /\ convs[c] \in Conversation /\ convs[c].count = 0 /\ convs[c].title = None
        /\ convs[c].life = "free" => convs[c] = FreeConversation
  <2>1. \A c \in Conversations :
          convs[c] = FreeConversation \/ \E u \in Users : convs[c] = NewConversation(u)
    BY DEF Init
  <2>2. /\ FreeConversation \in Conversation
        /\ FreeConversation.count = 0 /\ FreeConversation.title = None
    BY DEF FreeConversation, Conversation
  <2>3. \A u \in Users :
          /\ NewConversation(u) \in Conversation /\ NewConversation(u).count = 0
          /\ NewConversation(u).title = None /\ NewConversation(u).life = "live"
    BY DEF FreeConversation, NewConversation, Conversation
  <2> QED
    BY <2>1, <2>2, <2>3
<1>3. convs \in [Conversations -> Conversation]
  BY <1>2 DEF Init
<1>4. \A r \in Requests : req[r] = NewRequest
  BY <1>1
<1>5. NewRequest \in Request
  BY NewRequestType
<1>6. TypeOK
  BY <1>1, <1>3, <1>5 DEF TypeOK
<1>7. \A r \in Requests : RequestOK(r) /\ StoredOK(r) /\ ~OnTheWay(r) /\ ~req[r].fresh
  BY <1>4 DEF RequestOK, StoredOK, OnTheWay, HasConv, NotSent, NewRequest, Asking,
              Answering, Yields, InTx
<1>8. MessagesOK
  BY <1>1, FS_EmptySet DEF MessagesOK
<1>9. TitlesOK
  BY <1>1, <1>2, <1>7 DEF TitlesOK, Untitled
<1>10. RacesOK
  <2> SUFFICES ASSUME NEW u \in Users
               PROVE  /\ IsFiniteSet(Racing(u))
                      /\ Cardinality(Asked(u)) + Cardinality(Racing(u))
                           <= (Limit - 1) + peak[u]
    BY DEF RacesOK
  <2>1. Racing(u) = {} /\ Asked(u) = {} /\ peak[u] = 0
    BY <1>1, <1>7 DEF Racing, Asked
  <2> QED
    BY <2>1, FS_EmptySet, ConstantsOK
<1>11. CountIsMessages
  <2> SUFFICES ASSUME NEW c \in Conversations
               PROVE  convs[c].count = Cardinality({m \in messages : m.conv = c})
    BY DEF CountIsMessages
  <2>1. {m \in messages : m.conv = c} = {}
    BY <1>1
  <2> QED
    BY <1>2, <2>1, FS_EmptySet
<1>12. RepliesStored /\ AnswersFollowQuestions /\ QuestionNotInItsHistory
  BY <1>1, <1>4 DEF RepliesStored, AnswersFollowQuestions, QuestionNotInItsHistory, NewRequest
<1> QED
  BY <1>6, <1>7, <1>8, <1>9, <1>10, <1>11, <1>12 DEF IInv

(***************************************************************************)
(* IInv is an invariant, for any users, conversations and requests, any    *)
(* limit and any length of the history.                                    *)
(***************************************************************************)
THEOREM Inductive == Spec => []IInv
<1>1. Init => IInv
  BY InitIInv
<1>2. IInv /\ [Next]_vars => IInv'
  BY StepIInv
<1> QED
  BY <1>1, <1>2, PTL DEF Spec

\* The tables of the database and the two halves of every request are well
\* typed, and the 24 hours of the limit never end in the future.
THEOREM TypeCorrect == Spec => []TypeOK
<1>1. IInv => TypeOK
  BY DEF IInv
<1> QED
  BY <1>1, Inductive, PTL

\* The daily limit is exceeded by no more than the questions a user had on
\* their way at once, less one: check_daily_limit and the INSERT are apart.
THEOREM LimitKept == Spec => []LimitExceededByRacesOnly
<1>1. ASSUME IInv, NEW u \in Users
      PROVE  Cardinality(Asked(u)) <= (Limit - 1) + peak[u]
  BY <1>1, RacesType
<1>2. IInv => LimitExceededByRacesOnly
  BY <1>1 DEF LimitExceededByRacesOnly
<1> QED
  BY <1>2, Inductive, PTL

\* message_count and the messages never disagree, though rag-service counts by
\* an UPDATE of its own and requests fail between any two statements.
THEOREM CountsMessages == Spec => []CountIsMessages
<1>1. IInv => CountIsMessages
  BY DEF IInv
<1> QED
  BY <1>1, Inductive, PTL

\* A client is told of no answer that is not stored, nor of one whose question
\* is not, unless its account was purged meanwhile.
THEOREM RepliesAreStored == Spec => []RepliesStored
<1>1. IInv => RepliesStored
  BY DEF IInv
<1> QED
  BY <1>1, Inductive, PTL

\* No conversation has an answer without the question it answers before it,
\* whatever other requests store between the two.
THEOREM AnswersFollow == Spec => []AnswersFollowQuestions
<1>1. IInv => AnswersFollowQuestions
  BY DEF IInv
<1> QED
  BY <1>1, Inductive, PTL

\* The history sent to the model holds the request's own question only when a
\* message of another request has come after it.
THEOREM QuestionDropped == Spec => []QuestionNotInItsHistory
<1>1. IInv => QuestionNotInItsHistory
  BY DEF IInv
<1> QED
  BY <1>1, Inductive, PTL

(***************************************************************************)
(* No step changes the title of a conversation that goes on: a job runs    *)
(* only for one that has no title, and there is one job at most.           *)
(***************************************************************************)
THEOREM TitleIsKept == Spec => TitleKept
<1> DEFINE Kept == \A c \in Conversations :
                     convs[c].title # None /\ convs'[c].life = "live"
                       => convs'[c].title = convs[c].title
<1>1. ASSUME IInv, Next
      PROVE  Kept
  <2> SUFFICES ASSUME NEW c \in Conversations, convs[c].title # None,
                      convs'[c].life = "live"
               PROVE  convs'[c].title = convs[c].title
    OBVIOUS
  <2>1. /\ convs \in [Conversations -> Conversation] /\ jobs \subseteq Job
        /\ TitlesOK
    BY <1>1 DEF IInv, TypeOK
  <2>2. convs[c] # FreeConversation
    BY DEF FreeConversation
  <2>3. ASSUME NEW r \in Requests, NEW d \in Conversations, CreateConversation(r, d)
        PROVE  convs'[c].title = convs[c].title
    BY <2>1, <2>2, <2>3 DEF CreateConversation
  <2>4. ASSUME NEW r \in Requests, NEW role, Store(r, role)
        PROVE  convs'[c].title = convs[c].title
    BY <2>1, <2>4 DEF Store, Conversation
  <2>5. ASSUME NEW j \in jobs, RegenTitle(j)
        PROVE  convs'[c].title = convs[c].title
    <3>1. j.conv # c
      BY <2>1 DEF TitlesOK
    <3> QED
      BY <2>1, <2>5, <3>1 DEF RegenTitle
  <2>6. ASSUME NEW u \in Users, Purge(u)
        PROVE  convs'[c].title = convs[c].title
    BY <2>1, <2>6 DEF Purge, Conversation
  <2>7. ASSUME NEW r \in Requests, Step(r)
        PROVE  convs'[c].title = convs[c].title
    <3>1. CASE \E d \in Conversations : CreateConversation(r, d)
      BY <2>3, <3>1
    <3>2. CASE StoreQuestion(r) \/ StoreAnswer(r)
      BY <2>4, <3>2 DEF StoreQuestion, StoreAnswer
    <3>3. CASE \/ VerifyConversationOwner(r) \/ Send(r) \/ Begin(r) \/ InsertQuestion(r)
               \/ LoadHistory(r) \/ Resume(r) \/ Retrieve(r) \/ Chat(r)
               \/ InsertAnswer(r) \/ Reply(r)
      BY <3>3 DEF VerifyConversationOwner, Send, Begin, InsertQuestion, InsertAnswer,
                  Insert, LoadHistory, Resume, Retrieve, Chat, Reply, db
    <3> QED
      BY <2>7, <3>1, <3>2, <3>3 DEF Step
  <2>8. ASSUME NEW r \in Requests, Arrive(r) \/ GiveUp(r) \/ StreamCut(r) \/ Fail(r)
        PROVE  convs'[c].title = convs[c].title
    BY <2>8 DEF Arrive, CheckDailyLimit, GiveUp, StreamCut, Fail, db
  <2>9. CASE TimePasses
    BY <2>9 DEF TimePasses, db
  <2> QED
    BY <1>1, <2>5, <2>6, <2>7, <2>8, <2>9 DEF Next
<1>2. IInv /\ [Next]_vars => [Kept]_vars
  BY <1>1
<1> QED
  BY <1>2, Inductive, PTL DEF Spec, TitleKept
=============================================================================
